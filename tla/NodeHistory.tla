---------------------------- MODULE NodeHistory ----------------------------
(***************************************************************************)
(* What becomes of the history kept about a node when its file moves: the  *)
(* rename heuristic of a scan, the transaction that persists it            *)
(* (src/src/kernel/adapters/sqlite/scan-persistence.ts, history.ts) and    *)
(* the two repairs by hand, sm orphans reconcile and sm orphans undo-rename *)
(* (src/src/cli/commands/orphans.ts).                                      *)
(*                                                                         *)
(* A row stands for the rows of the state_ tables about a node: a summary, *)
(* a favourite, an enrichment or a plugin value, of which a node has one   *)
(* for each key, or a job, a finding or an execution, when it has no key.  *)
(* The activity tables, which the sweep for stranded rows does not read,   *)
(* and deletes of rows are left out.  A scan is a full one.  Files are     *)
(* told apart by a number the program never sees: it serves the properties. *)
(***************************************************************************)
EXTENDS RenameHeuristic

CONSTANTS
    BodyHash, FrontHash,\* hashes of a file
    Key, NoKey,      \* keys of the tables with a composite primary key
    FirstDisks,      \* the projects that may be found at first
    MaxFiles,        \* bound on the files ever made
    MaxMoves,        \* bound on what happens to files
    MaxRows          \* bound on the rows recorded

ASSUME NodeHistoryAssumption ==
    /\ NoKey \notin Key
    /\ MaxFiles \in Nat /\ MaxMoves \in Nat /\ MaxRows \in Nat
    /\ \A d \in FirstDisks :
          /\ Cardinality(DOMAIN d) \in 0..MaxFiles
          /\ d \in [DOMAIN d -> [body : BodyHash, front : FrontHash,
                                 id : 1..Cardinality(DOMAIN d)]]
          /\ DOMAIN d \subseteq Path
          /\ \A p, q \in DOMAIN d : d[p].id = d[q].id => p = q

File == [body : BodyHash, front : FrontHash, id : 1..MaxFiles]
Row  == [node : Path, key : Key \cup {NoKey}, of : 1..MaxFiles]

VARIABLES
    disk,       \* path -> file
    ignored,    \* the paths .skillmapignore hides
    nodes,      \* scan_nodes: path -> file
    issues,     \* scan_issues, those about renames
    stored,     \* what the result_fingerprint of scan_meta stands for
    rows,       \* the state_ tables
    made, moves, recorded,    \* files made, things done to files, rows written
    shared      \* history: files whose body another file had, or that changed

vars == <<disk, ignored, nodes, issues, stored, rows, made, moves, recorded, shared>>

Medium(from, to)    == [kind |-> "medium", node |-> to, from |-> {from}]
Doubtful(to, froms) == [kind |-> "ambiguous", node |-> to, from |-> froms]
\* why tells the wordings of the orphan issues apart.
Orphan(path, why)   == [kind |-> "orphan", node |-> path, from |-> {why}]
OrphansOf(path)     == {i \in issues : i.kind = "orphan" /\ i.node = path}

-----------------------------------------------------------------------------
(***************************************************************************)
(* migrateNodeFks.                                                         *)
(***************************************************************************)

\* A row with a key gives way to the one the destination has.
Migrated(rs, from, to) ==
    {r \in rs : r.node # from} \cup
    {[r EXCEPT !.node = to] :
        r \in {x \in rs : /\ x.node = from
                          /\ \/ x.key = NoKey
                             \/ ~\E y \in rs : y.node = to /\ y.key = x.key}}

\* applyRenames: no path is both left and taken, so that the order of the
\* operations does not matter.
Renamed(rs, ops) ==
    {r \in rs : r.node \notin Froms(ops)} \cup
    UNION {{r \in Migrated(rs, op.from, op.to) : r.node = op.to} : op \in ops}

-----------------------------------------------------------------------------
(***************************************************************************)
(* persistScanResult.                                                      *)
(***************************************************************************)
Visible == [p \in DOMAIN disk \ ignored |-> disk[p]]
Hashes(ns) == [p \in DOMAIN ns |-> [body |-> ns[p].body, front |-> ns[p].front]]

\* What the heuristic flags; it spares what the operator silenced.
Flagged(ops) ==
    {Medium(op.from, op.to) : op \in {x \in ops : x.tier = "medium"}} \cup
    {Doubtful(to, FrontMatches(nodes, Visible, to, ops)) :
        to \in Ambiguous(nodes, Visible)} \cup
    {Orphan(p, "deleted") : p \in Orphans(nodes, Visible) \ ignored}

\* appendStrandedOrphans, over the rows as migrated.
Stranded(rs, found) ==
    {Orphan(r.node, "stranded") :
        r \in {x \in rs : /\ x.node \notin DOMAIN Visible
                          /\ Orphan(x.node, "deleted") \notin found}}

\* canSkipPersist: a result like the stored one is not written again.
Scan ==
    LET ops    == RenameOps(nodes, Visible)
        found  == Flagged(ops)
        result == [nodes  |-> Hashes(Visible),
                   issues |-> found \cup Stranded(Renamed(rows, ops), found)]
    IN /\ rows' = Renamed(rows, ops)
       /\ nodes' = Visible
       /\ IF result \in stored /\ ops = {} THEN UNCHANGED <<issues, stored>>
          ELSE issues' = result.issues /\ stored' = {result}
       /\ UNCHANGED <<disk, ignored, made, moves, recorded, shared>>

-----------------------------------------------------------------------------
(***************************************************************************)
(* Writes of the state_ tables.                                            *)
(***************************************************************************)

\* An upsert, or an insert, about a node the last scan has.
Record(p, k) ==
    /\ recorded < MaxRows
    /\ recorded' = recorded + 1
    /\ p \in DOMAIN nodes
    /\ rows' = {r \in rows : k = NoKey \/ r.node # p \/ r.key # k}
                 \cup {[node |-> p, key |-> k, of |-> nodes[p].id]}
    /\ UNCHANGED <<disk, ignored, nodes, issues, stored, made, moves, shared>>

\* sm orphans reconcile: p is flagged, q is a node.
Reconcile(p, q) ==
    /\ OrphansOf(p) # {}
    /\ q \in DOMAIN nodes
    /\ rows' = IF p = q THEN rows ELSE Migrated(rows, p, q)
    /\ issues' = issues \ OrphansOf(p)
    /\ UNCHANGED <<disk, ignored, nodes, stored, made, moves, recorded, shared>>

\* Mutant: the path the rows go back to is not flagged.
UndoRenameUnflagged(q, p) ==
    \E i \in issues :
        /\ i.node = q /\ i.kind # "orphan" /\ p \in i.from
        /\ rows' = Migrated(rows, q, p)
        /\ issues' = issues \ {i}
        /\ UNCHANGED <<disk, ignored, nodes, stored, made, moves, recorded, shared>>

\* sm orphans undo-rename: the rows of q go back to p, one of the paths its
\* only rename issue names.
UndoRename(q, p) ==
    \E i \in issues :
        /\ i.node = q /\ i.kind # "orphan" /\ p \in i.from
        /\ rows' = Migrated(rows, q, p)
        /\ issues' = (issues \ {i}) \cup {Orphan(p, "undone")}
        /\ UNCHANGED <<disk, ignored, nodes, stored, made, moves, recorded, shared>>

-----------------------------------------------------------------------------
(***************************************************************************)
(* Files.                                                                  *)
(***************************************************************************)
Touch ==
    /\ moves < MaxMoves
    /\ moves' = moves + 1
    /\ UNCHANGED <<nodes, issues, stored, rows, recorded>>

Without(f, p) == [q \in DOMAIN f \ {p} |-> f[q]]
With(f, p, x) == [q \in DOMAIN f \cup {p} |-> IF q = p THEN x ELSE f[q]]

Twins(b) == {f.id : f \in {x \in {disk[p] : p \in DOMAIN disk}
                                  \cup {nodes[p] : p \in DOMAIN nodes} : x.body = b}}

Make(p, b, f) ==
    /\ Touch
    /\ p \notin DOMAIN disk
    /\ made < MaxFiles
    /\ made' = made + 1
    /\ disk' = With(disk, p, [body |-> b, front |-> f, id |-> made'])
    /\ shared' = IF Twins(b) = {} THEN shared ELSE shared \cup Twins(b) \cup {made'}
    /\ UNCHANGED ignored

Edit(p, b) ==
    /\ Touch
    /\ p \in DOMAIN disk /\ disk[p].body # b
    /\ disk' = [disk EXCEPT ![p].body = b]
    /\ shared' = shared \cup Twins(b) \cup {disk[p].id}
    /\ UNCHANGED <<made, ignored>>

Move(p, q) ==
    /\ Touch
    /\ p \in DOMAIN disk /\ q \notin DOMAIN disk
    /\ disk' = With(Without(disk, p), q, disk[p])
    /\ UNCHANGED <<made, ignored, shared>>

Delete(p) ==
    /\ Touch
    /\ p \in DOMAIN disk
    /\ disk' = Without(disk, p)
    /\ UNCHANGED <<made, ignored, shared>>

Ignore(p) ==
    /\ Touch
    /\ ignored' = IF p \in ignored THEN ignored \ {p} ELSE ignored \cup {p}
    /\ UNCHANGED <<disk, made, shared>>

Init ==
    /\ disk \in FirstDisks
    /\ ignored = {} /\ nodes = <<>>
    /\ issues = {} /\ stored = {} /\ rows = {}
    /\ made = Cardinality(DOMAIN disk) /\ moves = 0 /\ recorded = 0
    /\ shared = {disk[p].id : p \in
                    {q \in DOMAIN disk : \E r \in DOMAIN disk \ {q} : disk[r].body = disk[q].body}}

Next ==
    \/ Scan
    \/ \E p \in Path, k \in Key \cup {NoKey} : Record(p, k)
    \/ \E p, q \in Path : Reconcile(p, q)
    \/ \E p, q \in Path : UndoRename(q, p)
    \/ \E p \in Path, b \in BodyHash, f \in FrontHash : Make(p, b, f)
    \/ \E p \in Path, b \in BodyHash : Edit(p, b)
    \/ \E p, q \in Path : Move(p, q)
    \/ \E p \in Path : Delete(p) \/ Ignore(p)

Spec == Init /\ [][Next]_vars

-----------------------------------------------------------------------------
(***************************************************************************)
(* Properties.                                                             *)
(***************************************************************************)
Issue == [kind : {"medium", "ambiguous", "orphan"}, node : Path,
          from : SUBSET (Path \cup {"deleted", "stranded", "undone"})]

\* Shape of the state; the primary keys hold, which a rename that merged two
\* nodes would break.
HistoryTypeOK ==
    /\ DOMAIN disk \subseteq Path /\ \A p \in DOMAIN disk : disk[p] \in File
    /\ DOMAIN nodes \subseteq Path /\ \A p \in DOMAIN nodes : nodes[p] \in File
    /\ ignored \subseteq Path
    /\ issues \subseteq Issue
    /\ rows \subseteq Row
    /\ \A r, x \in rows : r.node = x.node /\ r.key = x.key /\ r.key # NoKey => r = x
    /\ made \in 0..MaxFiles /\ moves \in 0..MaxMoves /\ recorded \in 0..MaxRows
    /\ shared \subseteq 1..MaxFiles

\* No history is out of reach: rows about a path that is no node are flagged,
\* for reconcile asks for the flag, however many scans, repairs and skipped
\* writes lie between (appendStrandedOrphans).
StrandedIsFlagged ==
    \A r \in rows :
        \/ r.node \in DOMAIN nodes
        \/ \E i \in issues : i.kind = "orphan" /\ i.node = r.node

\* A file that was moved as it was takes its history along, whatever else
\* was moved, edited, made or deleted since the scan before, unless rows of
\* the same key lay at its new place already.
HistoryFollowsTheFile ==
    [][Scan => \A p \in DOMAIN nodes \ DOMAIN Visible,
                  q \in DOMAIN Visible \ DOMAIN nodes :
          nodes[p].id = Visible[q].id /\ nodes[p].id \notin shared =>
              \A r \in rows : r.node = p =>
                  \/ [r EXCEPT !.node = q] \in rows'
                  \/ r.key # NoKey /\ \E x \in rows : x.node = q /\ x.key = r.key]_vars
=============================================================================
