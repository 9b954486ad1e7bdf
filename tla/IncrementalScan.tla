-------------------------- MODULE IncrementalScan --------------------------
(***************************************************************************)
(* The scan and its cache: runScanInternal, walk.ts, cache.ts and the      *)
(* transforms after the walk in src/src/kernel/orchestrator, down to       *)
(* persistScanResult.  A scan computes the rows of the scan zone from the  *)
(* disk and from the rows of the scan before, of which it reuses all it    *)
(* believes unchanged.                                                     *)
(*                                                                         *)
(* A scan is one step, the comparison of mtimes stands for that of hashes, *)
(* and what an extractor returns for a content, a sidecar and a setting is *)
(* a constant.  A link is told apart by its source and target alone, and   *)
(* of its occurrences only one bit is kept: whether some lie in prose, not *)
(* in code.  Kinds, token counts and the scan ceiling are left out.        *)
(***************************************************************************)
EXTENDS Integers, FiniteSets, Sequences

CONSTANTS
    File,         \* paths of the node files
    Server,       \* paths of virtual nodes, as in mcp://server
    Content,      \* what a file may hold
    Body, Front,  \* its two hashes, Front after canonicalisation
    Sidecar,      \* annotations of a .sm file, NoSidecar when there is none
    NoSidecar,
    Extractor,
    Setting,      \* resolved settings of one extractor
    Lens,         \* the values of activeProvider
    Lenses,       \* extractor -> the lenses its precondition names
    Emits,        \* extractor -> what extract() returns
    FirstDisks, FirstLens, FirstSetting,    \* what the first scan may find
    Change,       \* the kinds of change allowed between scans
    MaxChanges    \* bound on those changes

NoLens == "none"    \* a database that was never scanned

\* What extract() hands to emitLink, emitNode and emitContribution.
Emission == [links : SUBSET [target : File \cup Server, prose : BOOLEAN],
             urls : SUBSET STRING, nodes : SUBSET Server,
             chips : SUBSET STRING]
Silence == [links |-> {}, urls |-> {}, nodes |-> {}, chips |-> {}]

ASSUME ScanAssumption ==
    /\ File \cap Server = {}
    /\ Body \in [Content -> Nat] /\ Front \in [Content -> Nat]
    /\ NoSidecar \in Sidecar
    /\ FirstLens \in Lens /\ NoLens \notin Lens
    /\ FirstSetting \in Setting
    /\ Lenses \in [Extractor -> SUBSET Lens]
    /\ DOMAIN Emits = Extractor
    /\ FirstDisks \subseteq UNION {[F -> Content] : F \in SUBSET File}
    /\ MaxChanges \in Nat

\* What an extractor reads of a file, its body and its parsed frontmatter, is
\* what the two hashes are taken of.
ASSUME HashAssumption ==
    \A c, d \in Content : Body[c] = Body[d] /\ Front[c] = Front[d] =>
        \A e \in Extractor, a \in Sidecar, v \in Setting :
            Emits[e][<<c, a, v>>] = Emits[e][<<d, a, v>>]

VARIABLES
    disk,       \* files present -> content
    sidecar,    \* file -> annotations of its .sm
    installed,  \* the enabled extractors
    setting,    \* extractor -> settings
    lens,       \* the active provider
    pending,    \* file events no scan was given yet, as they came
    db,         \* the scan zone
    changes,    \* changes made so far
    quiet,      \* history: the last scan saw everything as it is
    mixed,      \* history: files whose rows come from two extractions
    blind       \* history: files read again under the hashes of old rows

world == <<disk, sidecar, installed, setting, lens>>
vars  == <<world, pending, db, changes, quiet, mixed, blind>>

Event == [file : File, side : BOOLEAN, gone : BOOLEAN]

\* scan_meta, scan_nodes (from is derivedFrom, for a virtual node),
\* scan_links, the external references kept on a node, scan_extractor_runs
\* and scan_contributions.
EmptyZone == [lens |-> NoLens, nodes |-> <<>>, from |-> <<>>, links |-> {},
              refs |-> <<>>, runs |-> <<>>, chips |-> {}]

-----------------------------------------------------------------------------
(***************************************************************************)
(* What a scan looks at.  s says which: the prior rows, whether the cache  *)
(* is enabled, and whether it is scoped to a batch of events.              *)
(***************************************************************************)
FullScan(p)        == [prior |-> p, cache |-> FALSE, scoped |-> FALSE, events |-> {}]
CachedScan(p)      == [prior |-> p, cache |-> TRUE, scoped |-> FALSE, events |-> {}]
ScopedScan(p, evs) == [prior |-> p, cache |-> TRUE, scoped |-> TRUE, events |-> evs]

\* enableCache, and no cacheInvalidatedBy: another lens invalidates all.
CacheOn(s) == s.cache /\ s.prior.lens = lens

\* The walk enumerates the prior nodes instead of the roots.
Incremental(s) == s.scoped /\ CacheOn(s)

PriorFiles(s) == DOMAIN s.prior.nodes \cap File

\* expandSidecarPaths: a written or removed sidecar changes its node.
Changed(s) ==
    {e.file : e \in {x \in s.events : ~x.side /\ ~x.gone}} \cup
    {e.file : e \in {x \in s.events : x.side /\ x.file \in PriorFiles(s)}}

Removed(s) == {e.file : e \in {x \in s.events : ~x.side /\ x.gone}}

\* Mutant: an unlinked file is taken over like any other.
InjectedUnlinked(s) ==
    IF Incremental(s) THEN PriorFiles(s) \ Changed(s) ELSE {}

\* shouldInjectPriorNode: the prior nodes the scan takes over unread.
Injected(s) ==
    IF Incremental(s) THEN PriorFiles(s) \ (Changed(s) \cup Removed(s)) ELSE {}

\* The nodes the walk produces from files.
Walked(s) ==
    IF Incremental(s) THEN (Changed(s) \cap DOMAIN disk) \cup Injected(s)
    ELSE DOMAIN disk

Hashes(s, f) ==
    IF f \in Injected(s) THEN s.prior.nodes[f]
    ELSE [body |-> Body[disk[f]], front |-> Front[disk[f]]]

Applicable == {e \in installed : lens \in Lenses[e]}

\* isNodeHashCacheEligible.
Eligible(s, f) ==
    CacheOn(s) /\ f \in PriorFiles(s) /\ s.prior.nodes[f] = Hashes(s, f)

\* What an injected node is believed to be.
Unmoved(s, f) ==
    /\ f \in DOMAIN disk
    /\ s.prior.nodes[f] = [body |-> Body[disk[f]], front |-> Front[disk[f]]]

\* Mutant: the sidecar is no part of the key.
KeyUnannotated(s, f, e) ==
    [body |-> Hashes(s, f).body, side |-> NoSidecar, setting |-> setting[e]]

\* The three hashes of a scan_extractor_runs row.
Key(s, f, e) ==
    [body |-> Hashes(s, f).body, side |-> sidecar[f], setting |-> setting[e]]

\* computeCacheDecision.
Cached(s, f) ==
    {e \in Applicable : /\ Eligible(s, f)
                        /\ <<f, e>> \in DOMAIN s.prior.runs
                        /\ s.prior.runs[<<f, e>>] = Key(s, f, e)}
Missing(s, f) == Applicable \ Cached(s, f)
FullHit(s, f) == Eligible(s, f) /\ Missing(s, f) = {}
PartialHit(s, f) ==
    Eligible(s, f) /\ Missing(s, f) # {} /\ Cached(s, f) # {}

\* runExtractorsForNode; a reread that finds no file yields empty content.
Extracted(f, e) ==
    IF f \in DOMAIN disk THEN Emits[e][<<disk[f], sidecar[f], setting[e]>>]
    ELSE Silence

-----------------------------------------------------------------------------
(***************************************************************************)
(* Virtual nodes.                                                          *)
(***************************************************************************)
Emitters(s, v) ==
    {f \in Walked(s) : \E e \in Missing(s, f) : v \in Extracted(f, e).nodes}
FreshNodes(s) == {v \in Server : Emitters(s, v) # {}}

\* mergeVirtualNodes: the first emission of a path wins.  The order of the
\* walk is that of the file system, so the winner is any of the emitters.
Winners(s) == {w \in [FreshNodes(s) -> File] :
                  \A v \in FreshNodes(s) : w[v] \in Emitters(s, v)}

\* Mutant: a virtual node is carried over whatever became of its source.
CarriedAll(s) == DOMAIN s.prior.from \ FreshNodes(s)

\* carryForwardVirtualNodes.
Carried(s) ==
    {v \in DOMAIN s.prior.from \ FreshNodes(s) :
        s.prior.from[v] \in Walked(s) /\ FullHit(s, s.prior.from[v])}

Paths(s) == Walked(s) \cup FreshNodes(s) \cup Carried(s)

-----------------------------------------------------------------------------
(***************************************************************************)
(* Links.                                                                  *)
(***************************************************************************)

\* cloneNodeAndReshapeLinks, reuseCachedLink: the prior links of f whose
\* sources are cached, those of absent extractors trimmed.
Kept(s, f) ==
    {[l EXCEPT !.sources = @ \cap Cached(s, f)] :
        l \in {k \in s.prior.links : /\ k.source = f
                                     /\ k.sources \cap Missing(s, f) = {}
                                     /\ k.sources \cap Cached(s, f) # {}}}

Found(s, f) ==
    UNION {{[source |-> f, target |-> l.target, sources |-> {e},
             prose |-> l.prose, resolved |-> FALSE] :
                l \in Extracted(f, e).links} : e \in Missing(s, f)}

AllLinks(s) == UNION {Kept(s, f) \cup Found(s, f) : f \in Walked(s)}

\* dedupeLinks: one link per source and target, with everybody's sources.
Merged(ls, k) ==
    LET twins == {l \in ls : l.source = k.source /\ l.target = k.target}
    IN [source   |-> k.source,
        target   |-> k.target,
        sources  |-> UNION {l.sources : l \in twins},
        prose    |-> \E l \in twins : l.prose,
        resolved |-> \E l \in twins : l.resolved]

\* liftResolvedLinkConfidence, applyResolution: sets a target, clears none.
Lifted(l, paths) == [l EXCEPT !.resolved = @ \/ l.target \in paths]

\* pruneUnresolvedCodeTriggers.
Pruned(ls) == {l \in ls : l.resolved \/ l.prose}

Links(s) ==
    LET all   == AllLinks(s)
        paths == Paths(s)
    IN Pruned({Lifted(Merged(all, k), paths) : k \in all})

-----------------------------------------------------------------------------
(***************************************************************************)
(* The rows of the scan, and what becomes of them in the database.         *)
(***************************************************************************)

\* recomputeExternalRefsCount: a cached node replays its own.
Refs(s) ==
    [f \in Walked(s) |->
        IF FullHit(s, f) THEN s.prior.refs[f]
        ELSE UNION {Extracted(f, e).urls : e \in Missing(s, f)}]

\* Mutant: only the extractors that ran leave a row.
RunsOfMissing(s) ==
    LET pairs == {p \in Walked(s) \X Applicable :
                     p[2] \in Missing(s, p[1]) \/ FullHit(s, p[1])}
    IN [p \in pairs |-> Key(s, p[1], p[2])]

\* reusePriorNode, recordExtractorRuns: a row for each applicable extractor.
Runs(s) == [p \in Walked(s) \X Applicable |-> Key(s, p[1], p[2])]

\* Mutant: the rows of an extractor that ran again are not swept.
ChipsUnswept(s) ==
    {c \in s.prior.chips : c.file \in Walked(s) /\ c.by \in installed} \cup
    UNION {{[file |-> p[1], by |-> p[2], chip |-> c] :
                c \in Extracted(p[1], p[2]).chips} :
           p \in {q \in Walked(s) \X Applicable : q[2] \in Missing(s, q[1])}}

\* replaceAllScanContributions: the rows of dead paths, of extractors gone
\* and of those that ran again are swept, then the new ones are upserted.
Chips(s) ==
    {c \in s.prior.chips : /\ c.file \in Walked(s)
                           /\ c.by \in installed
                           /\ c.by \notin Missing(s, c.file)} \cup
    UNION {{[file |-> p[1], by |-> p[2], chip |-> c] :
                c \in Extracted(p[1], p[2]).chips} :
           p \in {q \in Walked(s) \X Applicable : q[2] \in Missing(s, q[1])}}

VirtualHash == [body |-> 0, front |-> 0]    \* VIRTUAL_NODE_PLACEHOLDER_HASH

Zone(s, winner) ==
    [lens  |-> lens,
     nodes |-> [n \in Paths(s) |->
                   IF n \in File THEN Hashes(s, n) ELSE VirtualHash],
     from  |-> [v \in FreshNodes(s) \cup Carried(s) |->
                   IF v \in FreshNodes(s) THEN winner[v] ELSE s.prior.from[v]],
     links |-> Links(s),
     refs  |-> Refs(s),
     runs  |-> Runs(s),
     chips |-> Chips(s)]

-----------------------------------------------------------------------------
(***************************************************************************)
(* Scans.                                                                  *)
(***************************************************************************)
Scan(s) ==
    /\ \E w \in Winners(s) : db' = Zone(s, w)
    /\ quiet' = (~Incremental(s) \/ pending' = <<>>)
    /\ mixed' = {f \in Walked(s) :
                    PartialHit(s, f) \/ (FullHit(s, f) /\ f \in mixed)}
    /\ blind' = {f \in Walked(s) :
                    \/ f \in Injected(s) /\ Missing(s, f) # {} /\ ~Unmoved(s, f)
                    \/ f \in blind /\ (Cached(s, f) # {} \/ FullHit(s, f))}
    /\ UNCHANGED <<world, changes>>

\* sm scan --full.
ScanFull == UNCHANGED pending /\ Scan(FullScan(db))

\* sm scan, and the passes of the watcher that have no batch of events.
ScanCached == UNCHANGED pending /\ Scan(CachedScan(db))

\* A batch of the watcher: the events of one debounce window.
ScanBatch ==
    \E n \in 1..Len(pending) :
        /\ pending' = SubSeq(pending, n + 1, Len(pending))
        /\ Scan(ScopedScan(db, {pending[i] : i \in 1..n}))

-----------------------------------------------------------------------------
(***************************************************************************)
(* What happens between scans.  The watcher hears of files and sidecars,   *)
(* not of settings, plugins and lenses.                                    *)
(***************************************************************************)
Happens(kind) ==
    /\ kind \in Change
    /\ changes < MaxChanges
    /\ changes' = changes + 1
    /\ quiet' = FALSE
    /\ UNCHANGED <<mixed, blind>>

Hear(f, side, gone) ==
    pending' = Append(pending, [file |-> f, side |-> side, gone |-> gone])

WriteFile(f, c) ==
    /\ Happens("write")
    /\ f \in DOMAIN disk => disk[f] # c
    /\ disk' = [g \in DOMAIN disk \cup {f} |-> IF g = f THEN c ELSE disk[g]]
    /\ Hear(f, FALSE, FALSE)
    /\ UNCHANGED <<sidecar, installed, setting, lens, db>>

RemoveFile(f) ==
    /\ Happens("remove")
    /\ f \in DOMAIN disk
    /\ disk' = [g \in DOMAIN disk \ {f} |-> disk[g]]
    /\ Hear(f, FALSE, TRUE)
    /\ UNCHANGED <<sidecar, installed, setting, lens, db>>

WriteSidecar(f, a) ==
    /\ Happens("sidecar")
    /\ sidecar[f] # a
    /\ sidecar' = [sidecar EXCEPT ![f] = a]
    /\ Hear(f, TRUE, a = NoSidecar)
    /\ UNCHANGED <<disk, installed, setting, lens, db>>

Configure(e, v) ==
    /\ Happens("setting")
    /\ setting[e] # v
    /\ setting' = [setting EXCEPT ![e] = v]
    /\ UNCHANGED <<disk, sidecar, installed, lens, pending, db>>

Install(e) ==
    /\ Happens("install")
    /\ e \notin installed
    /\ installed' = installed \cup {e}
    /\ UNCHANGED <<disk, sidecar, setting, lens, pending, db>>

Uninstall(e) ==
    /\ Happens("uninstall")
    /\ e \in installed
    /\ installed' = installed \ {e}
    /\ UNCHANGED <<disk, sidecar, setting, lens, pending, db>>

\* Set through the command line or the server, which drop the scan zone, or
\* by an edit of the settings file, which does not.
SwitchLens(l, drop) ==
    /\ Happens("lens")
    /\ lens # l
    /\ lens' = l
    /\ db' = IF drop THEN EmptyZone ELSE db
    /\ UNCHANGED <<disk, sidecar, installed, setting, pending>>

Happening ==
    \/ \E f \in File, c \in Content : WriteFile(f, c)
    \/ \E f \in File : RemoveFile(f)
    \/ \E f \in File, a \in Sidecar : WriteSidecar(f, a)
    \/ \E e \in Extractor, v \in Setting : Configure(e, v)
    \/ \E e \in Extractor : Install(e) \/ Uninstall(e)
    \/ \E l \in Lens, drop \in BOOLEAN : SwitchLens(l, drop)

Init ==
    /\ disk \in FirstDisks
    /\ sidecar = [f \in File |-> NoSidecar]
    /\ installed = Extractor
    /\ setting = [e \in Extractor |-> FirstSetting]
    /\ lens = FirstLens
    /\ pending = <<>>
    /\ db = EmptyZone
    /\ changes = 0
    /\ quiet = FALSE
    /\ mixed = {} /\ blind = {}

Next == ScanFull \/ ScanCached \/ ScanBatch \/ Happening

Spec == Init /\ [][Next]_vars

-----------------------------------------------------------------------------
(***************************************************************************)
(* Properties.                                                             *)
(***************************************************************************)
Link == [source : File, target : File \cup Server, sources : SUBSET Extractor,
         prose : BOOLEAN, resolved : BOOLEAN]

\* Shape of the state: the rows of a scan hang together, whatever was reused.
ScanTypeOK ==
    /\ DOMAIN disk \subseteq File
    /\ sidecar \in [File -> Sidecar]
    /\ installed \subseteq Extractor
    /\ setting \in [Extractor -> Setting]
    /\ lens \in Lens /\ db.lens \in Lens \cup {NoLens}
    /\ pending \in Seq(Event)
    /\ changes \in 0..MaxChanges
    /\ quiet \in BOOLEAN
    /\ mixed \subseteq File /\ blind \subseteq File
    /\ DOMAIN db.nodes \subseteq File \cup Server
    /\ DOMAIN db.from = DOMAIN db.nodes \cap Server
    /\ DOMAIN db.refs = DOMAIN db.nodes \cap File
    /\ db.links \subseteq Link
    /\ \A l \in db.links : l.source \in DOMAIN db.nodes /\ l.sources # {}
    /\ \A k \in DOMAIN db.runs : k[1] \in DOMAIN db.refs
    /\ \A c \in db.chips : c.file \in DOMAIN db.refs

\* What a scan of the files alone finds, before the unresolved are pruned.
Scratch == FullScan(EmptyZone)
Edges   == LET all == AllLinks(Scratch) IN {Merged(all, k) : k \in all}

\* Once a scan has seen the project as it is, every link in the database is
\* there for the files to see, and claims no extractor that does not find
\* it, whatever was edited, configured, installed or removed on the way.
\* The cache key and the reuse of links (cache.ts) promise that.
NoPhantomLinks ==
    quiet => LET edges == Edges
             IN \A l \in db.links : l.source \notin blind =>
                    \E k \in edges : /\ k.source = l.source
                                     /\ k.target = l.target
                                     /\ l.sources \subseteq k.sources

\* And when the rows of a file all come from one extraction, the cache lost
\* nothing either: each of its links that prose carries is there with all
\* its sources, and so is each contribution.
UnmixedIsComplete ==
    quiet => LET edges == Edges IN \A f \in DOMAIN disk \ (mixed \cup blind) :
        /\ \A k \in edges : k.source = f /\ k.prose =>
              \E l \in db.links : /\ l.source = f /\ l.target = k.target
                                  /\ l.sources = k.sources
        /\ \A e \in Applicable :
              {c.chip : c \in {x \in db.chips : x.file = f /\ x.by = e}}
                  = Extracted(f, e).chips

\* Extractor e reads the name v in file f: as it is configured now, or, when
\* it no longer runs, as it may have been.
Reads(f, e, v) ==
    IF e \in Applicable THEN v \in Extracted(f, e).nodes
    ELSE \E a \in Sidecar, x \in Setting : v \in Emits[e][<<disk[f], a, x>>].nodes

\* A virtual node outlives no source: the file it is derived from is there
\* and still names it (carryForwardVirtualNodes and mergeVirtualNodes).  An
\* extractor that was removed may be the one that reads the name.
ServersAreNamed ==
    quiet => \A v \in DOMAIN db.from :
        LET f == db.from[v]
        IN f \in DOMAIN disk /\ (f \notin blind => \E e \in Extractor : Reads(f, e, v))

\* The watcher's scan of a batch that holds every pending event stores what
\* a walk of the whole tree would have stored (walkIncremental).
BatchEqualsWalk ==
    [][pending # <<>> /\ pending' = <<>> =>
          \E w \in Winners(CachedScan(db)) : db' = Zone(CachedScan(db), w)]_vars

\* A rescan of a project nobody touched stores what is stored already: what
\* the cache keeps is enough to keep it again, and canSkipPersist may skip.
SettledIsFixpoint == [][quiet /\ ScanCached => db' = db]_vars

\* Equal but for the source a shared virtual node is credited to.
Alike(a, b) == /\ [a EXCEPT !.from = <<>>] = [b EXCEPT !.from = <<>>]
               /\ DOMAIN a.from = DOMAIN b.from

\* What the comments and tests of the repository say of the cache: the rows
\* of a cached scan are those of a full one.  No run checks it: it fails when
\* the target of a link that was pruned comes back.
CachedEqualsFull ==
    quiet => \E w \in Winners(Scratch) : Alike(db, Zone(Scratch, w))
=============================================================================
