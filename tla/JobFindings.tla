---------------------------- MODULE JobFindings ----------------------------
(***************************************************************************)
(* What a completed record writes besides its job: the write-throughs of   *)
(* recordJobTerminal into state_findings and state_summaries, the scan     *)
(* that changes scan_nodes under the judgments, the fixers that are shown  *)
(* findings by id and answer by id, and the people who close findings by   *)
(* hand.                                                                   *)
(*                                                                         *)
(* A job lives for as long as its agent takes.  What it was shown is       *)
(* frozen in its input; the tables its record writes are not.              *)
(***************************************************************************)
EXTENDS JobStore, FiniteSetsExt

CONSTANTS
    Body,        \* node bodies, as their hashes
    Message,     \* what an extension row may say
    Found,       \* bound: the findings[] lists a finder's report may carry
    Serves,      \* fixer -> the finders its analyzerIds name
    Summarizer,  \* the actions whose report schema is a summary
    Change       \* bound: what scans may come across

ASSUME FindingsAssumption ==
    /\ IsFiniteSet(FindingId)
    /\ FindingId = 1 .. Cardinality(FindingId)
    /\ Input = [body : Body, shown : SUBSET (FindingId \X Message \X BOOLEAN)]
    /\ Section = [i \in Input |-> {x[1] : x \in i.shown}]
    /\ Found \subseteq Seq(Message)
    /\ Serves \in [Fixer -> SUBSET Finder]
    /\ Summarizer \subseteq Ext \ Finder
    /\ Change \subseteq {"edit", "remove", "rename"}

VARIABLES
    nodes,      \* scan_nodes: path -> body_hash
    findings,   \* state_findings
    summaries,  \* state_summaries
    loaded,     \* the job a `sm record' checked and is about to close
    displaced   \* history: the paths a scan ever removed or renamed along

tableVars == <<nodes, findings, summaries>>
findingsVars == <<storeVars, tableVars, loaded, displaced>>

-----------------------------------------------------------------------------
(***************************************************************************)
(* state_findings.  Its id is an INTEGER PRIMARY KEY without               *)
(* AUTOINCREMENT: SQLite hands out the largest id in the table plus one.   *)
(***************************************************************************)
Finding == [node       : Node,
            ext        : Ext,
            origin     : {"extension", "kernel"},
            message    : Message \cup {"unsafe"},
            job        : JobId,
            body       : Body,
            resolution : {Null, "fixed", "human-decision", "dismissed"},
            by         : Fixer \cup {Null}]

Ids == DOMAIN findings

NewFinding(n, e, o, m, j) ==
    [node |-> n, ext |-> e, origin |-> o, message |-> m, job |-> j,
     body |-> nodes[n], resolution |-> Null, by |-> Null]

Erase(tbl, S) == [i \in DOMAIN tbl \ S |-> tbl[i]]

Insert(tbl, rows) ==
    LET top == Max(DOMAIN tbl \cup {0})
    IN  [i \in DOMAIN tbl \cup (top + 1 .. top + Len(rows)) |->
            IF i \in DOMAIN tbl THEN tbl[i] ELSE rows[i - top]]

\* Mutant: only what was said of the present body is replaced.
ReplaceFindingsOfBody(tbl, n, e, rows) ==
    Insert(Erase(tbl, {i \in DOMAIN tbl : /\ tbl[i].node = n /\ tbl[i].ext = e
                                          /\ tbl[i].body = nodes[n]}),
           rows)

\* Both origins of the pair go, then the fresh rows come.
ReplaceFindings(tbl, n, e, rows) ==
    Insert(Erase(tbl, {i \in DOMAIN tbl : tbl[i].node = n /\ tbl[i].ext = e}),
           rows)

\* Mutant: only the reporting extension's safety rows are replaced.
ReplaceSafetyOwn(tbl, n, rows) ==
    Insert(Erase(tbl, {i \in DOMAIN tbl : /\ tbl[i].node = n
                                          /\ tbl[i].origin = "kernel"
                                          /\ \E k \in DOMAIN rows :
                                                rows[k].ext = tbl[i].ext}),
           rows)

\* The safety lane belongs to the node, not to who reported it.
ReplaceSafety(tbl, n, rows) ==
    Insert(Erase(tbl, {i \in DOMAIN tbl : /\ tbl[i].node = n
                                          /\ tbl[i].origin = "kernel"}),
           rows)

\* A node that left the scan keeps its old rows; the write is skipped.
WriteFindings(tbl, n, e, j, report) ==
    IF n \notin DOMAIN nodes THEN tbl
    ELSE LET judged == IF e \in Finder THEN report.found ELSE <<>>
             lane   == [k \in DOMAIN judged |->
                           NewFinding(n, e, "extension", judged[k], j)]
             safety == IF report.unsafe
                       THEN <<NewFinding(n, e, "kernel", "unsafe", j)>>
                       ELSE <<>>
         IN  ReplaceSafety(ReplaceFindings(tbl, n, e, lane), n, safety)

\* Each entry of a fixer's resolved[]: an unknown id, another node's row or
\* another finder's is skipped.
StampResolutions(tbl, n, e, resolved) ==
    [i \in DOMAIN tbl |->
        IF /\ e \in Fixer /\ i \in DOMAIN resolved
           /\ tbl[i].node = n /\ tbl[i].ext \in Serves[e]
        THEN [tbl[i] EXCEPT !.resolution = resolved[i], !.by = e]
        ELSE tbl[i]]

\* state_summaries: one row per node and summarizer, replaced in place.
WriteSummary(n, e, j) ==
    IF n \notin DOMAIN nodes \/ e \notin Summarizer THEN summaries
    ELSE [k \in DOMAIN summaries \cup {<<n, e>>} |->
             IF k = <<n, e>> THEN [job |-> j, body |-> nodes[n]]
             ELSE summaries[k]]

-----------------------------------------------------------------------------
(***************************************************************************)
(* Submitting: a fixer is shown the node's open extension rows of the      *)
(* finders it serves, narrowed to the ids it was asked to fix.             *)
(***************************************************************************)
StaleRow(i) == \/ findings[i].node \notin DOMAIN nodes
               \/ nodes[findings[i].node] # findings[i].body

Open(n, e) == {i \in Ids : /\ findings[i].node = n
                           /\ findings[i].origin = "extension"
                           /\ findings[i].resolution = Null
                           /\ findings[i].ext \in Serves[e]}

Selected(n, e, f) ==
    IF e \notin Fixer THEN {} ELSE IF f = Null THEN Open(n, e)
    ELSE Open(n, e) \cap f

\* What the rendered input freezes of them, each with its freshness.
Rendered(n, e, f) ==
    [body  |-> nodes[n],
     shown |-> {<<i, findings[i].message, StaleRow(i)>> : i \in Selected(n, e, f)}]

Request(n, e, f, p, ttl) ==
    NewJob([ext |-> e, node |-> n, input |-> Rendered(n, e, f)], n, f, FALSE,
           p, ttl, now)

SubmitJudged ==
    \E id \in JobId \ issued, e \in Ext, n \in DOMAIN nodes, f \in Target,
       p \in Priority, ttl \in Ttl \cup {Null} :
        /\ IF e \in Fixer THEN Selected(n, e, f) # {} ELSE f = Null
        /\ \/ SubmitJob(id, Request(n, e, f, p, ttl))
           \/ SubmitFixerJob(id, Request(n, e, f, p, ttl))
        /\ UNCHANGED <<tableVars, loaded, displaced>>

-----------------------------------------------------------------------------
(***************************************************************************)
(* Recording: the job is loaded and checked first, and its node with it;   *)
(* the transaction closes it and applies the write-throughs, or does       *)
(* neither.                                                                *)
(***************************************************************************)
RecordCheck(j) ==
    /\ loaded = Null
    /\ j \in InStatus("running")
    /\ loaded' = [job |-> j, node |-> jobs[j].node, ext |-> jobs[j].hash.ext]
    /\ UNCHANGED <<storeVars, tableVars, displaced>>

\* A fixer may answer for any id, shown to it or not.  (Of two entries for one
\* id the last is the one that stays.)
Resolved(e) ==
    UNION {[S -> {"fixed", "human-decision"}] :
              S \in SUBSET (IF e \in Fixer THEN FindingId ELSE {})}

RecordCompleted ==
    LET j == loaded.job  n == loaded.node  e == loaded.ext IN
    /\ loaded # Null
    /\ RecordJobTerminal(j, "completed", Null, jobs[j].claimed, now)
    /\ \E found \in Found, unsafe \in BOOLEAN, resolved \in Resolved(e) :
          findings' = StampResolutions(
                          WriteFindings(findings, n, e, j,
                                        [found |-> found, unsafe |-> unsafe]),
                          n, e, resolved)
    /\ DOMAIN findings' \subseteq FindingId
    /\ summaries' = WriteSummary(n, e, j)
    /\ loaded' = Null
    /\ UNCHANGED <<nodes, displaced>>

RecordFailed ==
    /\ loaded # Null
    /\ \E why \in FailReason :
          RecordJobTerminal(loaded.job, "failed", why,
                            jobs[loaded.job].claimed, now)
    /\ loaded' = Null
    /\ UNCHANGED <<tableVars, displaced>>

\* The job left `running', its schema no longer resolves, or the process
\* died: nothing was written.
RecordDropped ==
    /\ loaded # Null
    /\ loaded' = Null
    /\ UNCHANGED <<storeVars, tableVars, displaced>>

-----------------------------------------------------------------------------
(***************************************************************************)
(* A scan's persist, one difference at a time, and the operator.           *)
(***************************************************************************)
ScanBody(n, b) ==
    /\ "edit" \in Change
    /\ nodes' = [k \in DOMAIN nodes \cup {n} |-> IF k = n THEN b ELSE nodes[k]]
    /\ nodes' # nodes
    /\ UNCHANGED <<storeVars, findings, summaries, loaded, displaced>>

ScanGone(n) ==
    /\ "remove" \in Change
    /\ n \in DOMAIN nodes
    /\ nodes' = [k \in DOMAIN nodes \ {n} |-> nodes[k]]
    /\ displaced' = displaced \cup {n}
    /\ UNCHANGED <<storeVars, findings, summaries, loaded>>

\* A file moved: its rows migrate in the persist transaction.  A summary the
\* new path already has is kept and the migrating one dropped.
ScanRenamed(from, to) ==
    LET arrived == {k \in DOMAIN summaries : k[1] = from}
        kept    == {k \in DOMAIN summaries : k[1] # from}
        moved   == {<<to, k[2]>> : k \in arrived}
    IN  /\ "rename" \in Change
        /\ from \in DOMAIN nodes /\ to \notin DOMAIN nodes
        /\ MigrateJobs(from, to)
        /\ findings' = [i \in Ids |-> IF findings[i].node = from
                                      THEN [findings[i] EXCEPT !.node = to]
                                      ELSE findings[i]]
        /\ summaries' = [k \in kept \cup moved |->
                            IF k \in kept THEN summaries[k]
                            ELSE summaries[<<from, k[2]>>]]
        /\ nodes' = [k \in (DOMAIN nodes \ {from}) \cup {to} |->
                        IF k = to THEN nodes[from] ELSE nodes[k]]
        /\ displaced' = displaced \cup {from, to}
        /\ UNCHANGED loaded

\* resolve, dismiss and reopen read the row in one statement and update it in
\* another, so at the update its state may be any.
SetByHand(i, state) ==
    /\ i \in Ids
    /\ findings' = [findings EXCEPT ![i].resolution = state, ![i].by = Null]
    /\ UNCHANGED <<storeVars, nodes, summaries, loaded, displaced>>

\* findings clear, findings prune, and the delete of one row.
EraseFindings(S) ==
    /\ findings' = Erase(findings, S)
    /\ UNCHANGED <<storeVars, nodes, summaries, loaded, displaced>>

OnNode(n) == {i \in Ids : findings[i].node = n}

\* The delete of a node's summaries, of one summarizer or of all.
EraseSummaries(S) ==
    /\ summaries' = Erase(summaries, S)
    /\ UNCHANGED <<storeVars, nodes, findings, loaded, displaced>>

SummariesOf(n) == {k \in DOMAIN summaries : k[1] = n}

ByHand ==
    \/ \E i \in Ids, state \in {Null, "fixed", "dismissed"} : SetByHand(i, state)
    \/ \E i \in Ids : EraseFindings({i})
    \/ EraseFindings({i \in Ids : StaleRow(i)})
    \/ EraseFindings(Ids) \/ \E n \in Node : EraseFindings(OnNode(n))
    \/ \E n \in Node : EraseSummaries(SummariesOf(n))
    \/ \E k \in DOMAIN summaries : EraseSummaries({k})

Queue == /\ Tick \/ Claim \/ Reap \/ Cancel \/ Fail \/ Prune
         /\ UNCHANGED <<tableVars, loaded, displaced>>

FindingsInit ==
    /\ Init
    /\ nodes \in [Node -> Body]
    /\ findings = <<>>
    /\ summaries = <<>>
    /\ loaded = Null
    /\ displaced = {}

FindingsNext ==
    \/ Queue \/ SubmitJudged \/ ByHand
    \/ (\E j \in Live : RecordCheck(j))
    \/ RecordCompleted \/ RecordFailed \/ RecordDropped
    \/ (\E n \in Node : ScanGone(n) \/ \E b \in Body : ScanBody(n, b))
    \/ (\E p \in Renames : ScanRenamed(p[1], p[2]))

FindingsSpec == FindingsInit /\ [][FindingsNext]_findingsVars

-----------------------------------------------------------------------------
(***************************************************************************)
(* Properties.                                                             *)
(***************************************************************************)

\* The tables have the shapes of the schema, and a judgment's job is one the
\* queue issued.
FindingsTypeOK ==
    /\ nodes \in [DOMAIN nodes -> Body] /\ DOMAIN nodes \subseteq Node
    /\ Ids \subseteq FindingId
    /\ findings \in [Ids -> Finding]
    /\ \A i \in Ids : findings[i].job \in issued
    /\ DOMAIN summaries \subseteq Node \X Summarizer
    /\ loaded = Null \/ loaded \in [job : issued, node : Node, ext : Ext]

\* One safety verdict per node: its kernel rows all come from one report,
\* whichever extensions ran over it.  (A rename may bring a second one to a
\* path that was left before.)
OneSafetyVerdict ==
    \A i, k \in Ids :
        /\ findings[i].node \notin displaced
        /\ findings[i].origin = "kernel" /\ findings[k].origin = "kernel"
        /\ findings[i].node = findings[k].node
        => findings[i].job = findings[k].job

\* A finder's rows on a node are its latest verdict: no later completed run
\* of it over that node exists.  (Where the path was never left: a record over a
\* vanished node keeps the rows it finds.)
LatestJudgment ==
    \A i \in Ids, x, y \in DOMAIN executions :
        LET f == findings[i]  k == executions[y].job IN
        /\ f.origin = "extension" /\ f.node \notin displaced
        /\ executions[x].job = f.job
        /\ executions[y].status = "completed"
        /\ k \in Live /\ jobs[k].hash.ext = f.ext /\ jobs[k].node = f.node
        => y <= x
=============================================================================
