# Verification of skill-map

TLA+ models of the core of skill-map, TLC configurations that check them on small
instances, and TLAPS proofs, for every value of the constants, of every invariant
and action property those configurations check. Paths are relative to the repository root (`src/`
below is its TypeScript package; the manifest `PROJECT.json` prefixes one more
`src/`).

## 1. The system

skill-map scans Markdown files of AI agents into a SQLite database, draws their
graph, keeps it fresh with a file watcher, and runs a queue of *probabilistic*
jobs: an extension renders a prompt over a node, an outside agent claims it, does
the work, and records a report, whose findings and summaries are stored beside
the scan. Several processes use one database at once: any number of `sm` commands,
one `sm serve` with its HTTP routes, watcher and MCP tools.

| Component | State | Operations | What is hard | What makes it correct |
|---|---|---|---|---|
| Job tables (`src/kernel/adapters/sqlite/jobs.ts`) | `state_jobs`, `state_job_contents`, `state_executions` | submit, submit fixer, claim, reap, cancel, fail, record, prune | many processes, TTL against late records, shared content rows, supersede against claim | one active job per key, disjoint fixers, one verdict per job, content always resolves |
| Engines (`src/core/jobs/*`) | local variables between transactions | claim (`--wait`), submit, record, auto-fix chain, disable cascade | what was read before an await is stale after it; processes die | one agent per job, one acknowledged record, every engine ends, waiters wake |
| Findings, summaries (`findings.ts`, `summaries.ts`) | `state_findings`, `state_summaries` | replace a run, safety lane, fixer resolutions, human edits, deletes | long-lived jobs against tables that move; reused row ids | one safety verdict, latest run wins, only records judge |
| Renames and history (`renames.ts`, `history.ts`, `scan-persistence.ts`, `cli/commands/orphans.ts`) | every `state_` table keyed by a path, the issues about renames | pair vanished with new paths, move rows, flag what is stranded, reconcile, undo | greedy pairing, primary keys, writes skipped by fingerprint, paths that come back | history follows the file; no row out of reach |
| Batchers (`src/kernel/scan/watcher.ts`) | pending events, timer, batch in flight | enqueue, fire, re-arm, drain, close | timer against the end of a batch | no event stays behind |
| Watcher runtime (`src/core/watcher/runtime.ts`) | filter, handles, failure count | start, pass, failure, breaker, meta reload, stop | three callers of one pass, closing from inside a batch | map fresh when quiet, stop ends and drains |
| Watcher service, scan mutex (`src/server`) | current runtime, a promise chain | start, restart, POST scan | concurrent restarts, two writers | one runtime, serial scans |
| Connection mutex (`dialect.ts`) | locked flag, waiters | lock, unlock | microtask order | exclusion, no starvation |
| Scan orchestrator (`src/kernel/orchestrator`) | none between scans; the scan zone of the DB is its cache | walk, extract, resolve, analyze, persist | rows reused across edits of files, sidecars, settings, extractors and the lens | nothing stale kept, nothing lost; scoped equals full walk |
| Session journal (`src/server/activity-journal.ts`) | open and parked sessions, owner attributions, a timer, one file per session | record, end, adopt, flush, stop, clear, prune, shutdown | frames out of order, late claims, reopened sessions, failing writes | one session per conversation, one file per session, each ended |
| Activity statistics (`src/server/activity-stats.ts`) | counters, dirty sets, a timer, the write in flight | count, flush, clear, hydrate, close | writes in flight and failing under new changes, clears, renames | no change forgotten, no write over a newer one |
| Broadcaster, presence, MCP sessions | clients, timers, sessions | connect, broadcast, evict, close | backpressure, shutdown during connect | caps hold, nothing outlives close |
| Sidecars (`src/kernel/sidecar`, the routes, tools and verbs that dismiss) | one `.sm` file beside each node, its mirror in the node's row | read, merge, write; dismiss, restore, bump | lists read before an await, several processes, scans between the writes | no dismissal lost, mirror true, no dismissed issue listed |
| Plugin key-values | files | read, merge, write | several processes | no lost update |
| Migrations, drift reset | the DB file and its backups | back up, delete, re-create | crash between steps | user state survives |
| Plugin loader, CLI, routes, extractors, UI, site | mostly none | I/O and rendering | - | - |

Components interact through the database (all of them), through direct calls
inside a process (routes and CLI verbs call engines, engines call the storage
adapter), through callbacks (the batchers call the runtime), and through
events the broadcaster sends to browsers.

## 2. Modules and the code

| Module | Models |
|---|---|
| `JobStore` | the three queue tables; one action per transaction of `jobs.ts`, and `migrateJobs` |
| `JobLifecycle` | abstract: what the queue promises of each job |
| `JobQueue` (extends `JobStore`) | the engines as sequences of transactions of concurrent processes |
| `JobFindings` (extends `JobStore`) | write-throughs of a record, scans under the judgments, human edits |
| `WatcherRuntime` | batchers and watcher runtime in one event loop |
| `IncrementalScan` | full, cached and scoped scans over a changing project |
| `RenameHeuristic` | the pairing of vanished and new paths, as operators |
| `NodeHistory` (extends `RenameHeuristic`) | what scans and repairs make of the rows kept about nodes |
| `SessionJournal` | the session journal of the server |
| `Dismissals` | requests that dismiss, restore and bump over one sidecar, its mirror, and scans |
| `ActivityStats` | the execution statistics between memory and database |
| `JobStoreProofs`, `JobLayersProofs` (`JobQueue` and `JobFindings`), `WatcherRuntimeProofs`, `IncrementalScanProofs`, `NodeHistoryProofs`, `SessionJournalProofs`, `DismissalsProofs`, `ActivityStatsProofs` | the TLAPS proofs, each extending its component |
| `MC...` | instances for TLC, one for each module that is run |

### JobStore
A table is a function from primary keys to rows; a deleted row leaves the
domain. SQLite serialises write transactions, so each is one action, guarded by
the `WHERE` clauses and the indexes the statement meets. `now` is the clock of the
machine; each action that stamps takes a `t` that an engine may have captured
earlier (`Stamp`), as the callers read `Date.now()` before they queue for the
database: `TypeOK` says that no stamp is in the future (`StampsPast`), `ReapedLate`
that none reaps a job early. A record may carry any of the reasons its caller gives
(`Given`), even the reaper's own word. The content hash is the tuple it hashes, with everything but
extension and path folded in an opaque `input`; `Section` says which findings an
input renders, since the rendered section is part of the hash. Job ids are never
generated twice (`issued`). The runner column, texts and metrics are left out.

### JobQueue
`op[p]` is the engine process `p` is in with the locals it carries across awaits,
`answer[p]` what its last engine returned. One step is one transaction or read of
the code. `Operator` stands for the one-transaction verbs and routes. `Crash`
kills a process between two steps. `Corrupt` deletes a content row from outside,
the state the corruption path of the claim engine is written for. The sleep of
`claim --wait` ends at any time; so does its timeout. The four engines are
parameters (`Engine`), so that a run explores those it is about in depth. A filter
of a claim is the set of extensions it matches, which may be several (`Filter`). A
failed record takes any `failureReason` string (`server/mcp/queue-tools.ts:619`): one
that the CHECK admits is written, any other throws in the UPDATE of a job that still
runs (`RecordThrows`). The chain
submits the fixers of a flagged finder on the node the record has loaded, and what the
`job.completed` hooks queue, on any node (`HookQueued`); its failures are swallowed.

### JobFindings
`loaded` is the job a `sm record` has checked and not yet closed. `nodes` is the
scan zone: path to body hash. Scans are taken apart in single differences, in any
order. Row ids are SQLite's: the largest plus one, so ids of erased rows come
back, and a fixer's report may answer for any id (`Resolved`), as the code guards node and
analyzer ids only. Findings are erased one by one or by extension, summaries one by one
or a node's together (`EraseSummaries`). `displaced` is a history variable of paths a scan removed or renamed along:
the code skips the write for a vanished node and moves rows without looking at
the target, so the two invariants on the lanes are stated for paths never left.

### WatcherRuntime
Five things can be in flight in one event loop, and each is a frame in `task` or
`batcher`: the two batchers, `start()`, `stop()`, and the passes they run. A step
is what runs between two awaits. A pass loads the prior snapshot, walks, persists;
a scoped walk keeps every prior node its batch does not name, a full walk re-reads
all. Any pass may fail at any step. `mode` is the caller: `cli` (`sm watch`:
initial scan first, breaker on) or `bff` (`sm serve`: subscribe first, no breaker).
The debounce is a timer that fires at any time. `missed` records files whose
last change was told to nobody, or in a batch that failed, until a walk that no older
event follows has seen them; `overlapped` that two passes were once in flight
together. Abstracted: a walk is atomic and sees one
state of the disk; readiness of the native watchers is one step; `batchCount` and
`maxBatches` (no caller sets it) are left out; a debounce of zero is not modelled.

### IncrementalScan
`db` is the scan zone: hashes of nodes, links, virtual nodes with the file they
come from, external references, extractor runs and contributions. A scan is one
step, from `db` and the disk to a new `db`: which files it reads (`Walked`), which
of their extractors the cache spares (`Cached`), which stored links it keeps
(`Kept`) and finds (`Found`), then merging, resolving and pruning, and the sweep of
contributions. `FullScan`, `CachedScan` and `ScopedScan` are `sm scan --full`, a plain
`sm scan`, and a batch of the watcher; `ScopedScan` falls back to the whole tree
where the code does. What extractors find is the constant `Emits`; of a link only
source, target, its extractors, and whether some occurrence is in prose count.
Three history variables say where the code's promises end: `quiet`, the last scan
saw everything there was; `mixed`, files some of whose extractors ran later than
others (a partial hit drops links whose sources are split, and recounts external
references from the extractors that ran); `blind`, files the scoped scan read again
for a new extractor under the hashes of the old rows, for as long as anything of
those rows is reused. `HashAssumption` says what the cache takes for granted: contents
with equal hashes give an extractor the same to find, since it is handed the body and
the parsed frontmatter and both are what the hashes are of (a collision of the hash
function is excluded).

### RenameHeuristic and NodeHistory
`RenameOps` is `detectRenamesAndOrphans`: one loop over the deletions, which claim the
first free new path of their body (`ByBody`), then one over the new paths, which
claim their only candidate of equal frontmatter (`ByFront`). Each is a `Turn` of the
recursive function `Claims`, so that a proof can go by induction over the turns; a
turn at a path its loop does not visit does nothing. `Ambiguous` and `Orphans` are
the rest.
`NodeHistory` persists them: rows move (`Renamed`; a keyed row gives way to one at
the destination), stranded rows are flagged, nothing is rewritten when the result
is the stored one. `Row` stands for a row of any `state_` table about a node,
except the activity tables: a key when its table allows one row a node and key.
`Record` is the upsert of a favourite, a summary or a value, or the insert of a
job or finding, of a node the last scan has. Files carry an identity the program
does not see, so that "the history of this file" can be said; `shared` are files
whose body another one had at some time, which no heuristic could tell apart.
Nodeless job targets, deletes of rows, and the tables' payloads are left out.

### SessionJournal
`journal` is the pair of maps in insertion order, open and parked, and the
attribution of owners. An action is one public call of `ActivityJournalService`
to its end, as the class never awaits. `Parent` fixes who spawned whom, and is taken
to be a tree (`JournalAssumption`: nobody spawns an ancestor); frames of
the tree come in any order, so that a child may be recorded, ended and written
before its claim. `MoveScope` takes `.skill-map` away, which makes writes fail,
`Restart` is a crash or a boot. A frame is its millisecond, so file names never
collide within one. Only some names of conversations carry a session id (`Prefixed`). A spawn
without a `parentNodePath` opens or continues a session of the spawning owner itself,
claimed or not (`SpawnRoot`): agents that run no scanned node send such spawns too.
`tape`, `claimed`, `strayed` and `forgot` are history for the comparison with a fold of
the whole recording. `strayed` are the claimed owners that have spawned so since they
were last claimed; a frame is where the whole tape has it, or with one of these above it
(`Lookback`), never anywhere else.

### Dismissals
`file` is the sidecar, `db` the node's row with its mirror of the annotations and
its issues, `stored` what the fingerprint and the extractor runs of the last write
stand for. A request goes from `write` (its list is read) over `merged` (file
read and merged) to `refresh`, `mirror` and `purge`; each step is what runs between
two awaits, and merge and write are two steps of a verb, since another process
can run between them, while no request of the server does (`Turn`). The lock per
path of `FilesystemSidecarStore` is not in the model: every caller makes a store,
and so a lock table, of its own. `standing` are the entries that were acknowledged;
an entry leaves it when it is restored, edited away, or overwritten by a request
that had read the same list, or merged in another process, before (`missed`).
`adrift` and `loose` record what may leave the mirror, or the row of an issue,
behind: an edit by hand, a bump, a crash, a view or a walk that was old when it
landed. Sidecars that do not parse, notes, audit blocks and several nodes are
left out.

### ActivityStats
`stats` is what the server counts in memory, `table` what the database has; a row,
of a node or of a pair that spawned it, is the number of its changes. What a row
holds (counts, sums, owners, recent log) changes with it and is left out. `flights`
holds the writes under way: the code means there to be one at most, and the proofs
show it. A flight goes through the two calls of the sink row by row; a call may
reject with some rows written. The sink that ships runs its statements one after
the other without letting the event loop go; the model allows for any sink of
`IActivityStatsSink`, whose promises resolve when they like. `waiting` are calls of
`flush` that await a flight. `Clear` is the DELETE route in three steps, which may fail
at the second (`ClearFails`; a refusal with 404, or a failure of the first, changes
nothing). `Rename` is what
a scan does to both tables, `Close`, `Exit` and `Boot` are the life of the server. `astray`
is history: rows that a clear caught in a flight or left half done, that a rename moved,
that were given to a missing file, or that a boot did not read. The code promises nothing
about them until a write of the present row puts them right. One server a database
is assumed.

### Mutants
Operators whose comment starts with "Mutant:" are the definition that follows
with a plausible bug. Nothing in the specifications uses them: they show, one for
each property, that the property notices.

## 3. Runs

| Run | Module, cfg | Shows | Bounds |
|---|---|---|---|
| `store` | `MCJobStore`, `MCStore` | disjoint fixers, supersede, claim order, shared contents, history, refinement of `JobLifecycle` | 3 jobs, 1 node, 2 inputs (one finding each), 2 priorities, a clock that moves once, before the third job and the second job's record |
| `races` | `MCJobQueue`, `MCRaces` | exclusive claims, single acknowledged record, corruption path, unique key | 2 processes, 2 jobs, 2 paths, one rename pair, no waiting claims |
| `engines` | `MCJobQueue`, `MCEngines` | every engine ends; all steps are transactions of `JobStore` | 1 process and the operator, 2 jobs, finder and fixer, every filter, hooks for the fixer, `abandoned` as the caller's reason |
| `progress` | `MCJobQueue`, `MCProgress` | columns of a row agree; waiters wake, abandoned jobs are reaped | 2 processes, 1 job, TTL 1, clock to 2, one kill |
| `judgments` | `MCJobFindings`, `MCJudgments` | safety lane, latest run | 2 jobs, 3 extensions, 2 paths, 2 bodies, 3 row ids, until both paths are displaced |
| `watcher` | `MCWatcherRuntime`, `MCWatcher` | freshness of serial passes, no lost event, stop | 2 files, one ignorable, 2 edits, both modes, breaker at 1 |
| `scan` | `MCIncrementalScan`, `MCScan` | no phantom link, nothing lost, virtual nodes named, batch equals walk, rescans are fixpoints | 2 files, 3 contents, 1 server, 2 extractors, 2 settings, 2 lenses, 3 changes |
| `journal` | `MCSessionJournal`, `MCJournal` | grouping, one file per session, ends, flushes | 3 owners in a chain, 4 frames and 2 gestures or 3 of each, 2 files kept |
| `history` | `MCNodeHistory`, `MCHistory` | stranded rows are flagged, history follows the file, primary keys | 3 paths, 2 bodies, 3 files, 3 moves, 2 rows |
| `dismissals` | `MCDismissals`, `MCDismissals` | no dismissal lost, true mirror, no dismissed issue listed | 2 requests of a server or a verb, 1 value, 1 class, 2 bodies, 1 crash or edit |
| `stats` | `MCActivityStats`, `MCStats` | no change forgotten, no write over a newer one, failures made good | 2 nodes, 1 owner, 2 frames, 2 accidents, caps of 1 |
| `breaker` | `MCWatcherRuntime`, `MCBreaker` | finding: the tripped breaker waits for itself | 1 file, 1 edit |

Why the bounds are enough for what they check. The conflicts in the queue are
between two rows or two processes: two jobs reach every pair, the third of
`store` is the one that overlaps two disjoint targets. Its clock moves once, while there
is one job or two that no record has closed, so that two jobs of one priority differ in
age, and a third is submitted and claimed beside them. In `judgments` a second body lets
two runs of one extension over one path be active at once, recorded in either order; both
properties set displaced paths aside, so the run stops at states with no other path
(`SomePathInPlace`). `races` leaves out claims that wait (`NobodyWaits`), which only take
the same steps again and are in `progress`, and tells states apart by the answers its
properties are about (the view `Followed`), since no step reads an answer. Two clock ticks give
before, at and after an expiry. In the watcher, one edit fires a batch, the second
queues behind it, and the stop or the failure falls anywhere. In `scan` the two
extractors share a link and one names the server, so that merged sources, partial
hits and shared virtual nodes occur; three changes cover remove, put back and
change again, in one batch or several. In `journal` a third gesture
leaves room for three frames (`MaxEvents`), and the chain of three owners is
the least in which an adopted session has adopted one itself. In `history` three
paths give a chain of two moves and a file at the vacated place. In `dismissals`
every hazard is between two writers, or a writer and a scan; a value stays while
the body changes, so that its row can come and go. In `stats` one change is in flight
while the next one comes, and two accidents fail, clear, rename or end at any step of
both; the theorems cover longer runs. `MaxTime`,
`MaxEdits`, `MaxCrashes`, `MaxChanges`, `MaxFrames`, `MaxGestures`, `MaxEvents`, `MaxMoves`, `MaxRows`,
`MaxRequests`, `MaxAccidents`,
`Engine`, `Found` and `Change` are bounds and say so where they are declared; job ids and row ids are finite, so actions that need a fresh one
stop when none is left. Symmetry is declared for job ids, processes, in
`store` inputs (swapped together with the finding each renders), and in `judgments`
paths and bodies, and only in runs without liveness properties.

Deadlock is checked except in `watcher`, `breaker`, `journal`, `stats` and
`dismissals` (`CHECK_DEADLOCK FALSE`): there the system may really stop. A runtime
that was stopped, or a journal after shutdown, does nothing more, and the requests
and accidents of `Dismissals` and `ActivityStats` are bounded, while what is in flight
may be the last. Where no run lists it, the shape of the variables is stated as well:
`FindingsTypeOK`, `WatcherTypeOK`, `ScanTypeOK`, `JournalTypeOK` and `StatsTypeOK`;
all but `WatcherTypeOK` and `ScanTypeOK` are proved. `TerminalIsFinal` of `JobStore` is proved, and follows from `ImplementsLifecycle`.

Fairness. `JobQueue!FairSpec`: each process takes its next engine step (`WF` of
`Step(p)`: promises inside an engine settle) and the clock moves; nobody is
obliged to submit, claim or record. `WatcherRuntime!FairSpec`: the event loop
runs timers and settled promises of each batcher, of `start` and of `stop`;
nobody edits or stops on purpose. `SessionJournal!FairSpec`: a flush timer that is
due runs. `ActivityStats!FairSpec`: an armed timer fires, and the calls of the sink
resolve or reject (`WF` of `Sink`, which goes on while `Fail` may end it); nothing obliges a
failure to stop, so the liveness property starts where the accidents are used up.
Weak fairness suffices for all: no modelled step is disabled again and
again by another, and a flush timer only by what flushes or discards the sessions.

## 4. Proofs

`JobStoreProofs` proves, for any finite or infinite constants admitted by
`StoreAssumption`:

- `TypeCorrect` and `RowsTellOneStory`. The shapes are not inductive alone: a
  claim is typed only if the job it takes has the columns of a queued one. The
  invariant is `Typed == Shapes /\ RowsAgree` (`AlwaysTyped`); each action's
  lemma (`CloseTyped`, `EnqueueTyped`, `ClaimTyped`, ...) preserves it. On it rest the
  two halves about time: that no row or execution is stamped ahead of the clock
  (`CloseStamped`, ..., the second half of `TypeOK`), and that a job no record closed
  is abandoned after its deadline only (`LateKept`, `CloseLate`, ..., the second half
  of `RowsCoherent`).
- `ContentAlwaysResolves`, `NoDuplicateWork`, `ClosedForGood`,
  `RunningIsNeverSuperseded`, `ClaimsRespectOrder`. `StepShapes` reduces `Next` to
  six shapes of step (admit, claim, close, record, prune, move), and one frame
  lemma per shape says what it leaves alone; each property is one case per shape.
- `OneFixPerFinding`, under `Renames = {}`: a rename moves jobs onto a node
  without looking at the fixers there, and the assumption says so.
- `HistoryMatchesQueue`, by the strengthening `HistoryAgrees`: active jobs have
  no execution, which makes appending one safe.
- `QueueImplementsLifecycle`: under the refinement mapping at the end of
  `JobStore` each shape is a step of `JobLifecycle` or a stutter.

`JobLayersProofs` carries this over to the engines, for any number of processes:

- `EnginesImplementStore`: a step of `JobQueue` is a step of `JobStore` or leaves
  its tables alone, when no content vanishes by itself (`~Corruption`, the state
  the claim engine calls corrupt, which no transaction produces). What an engine
  carries over an await has to be enough for the guard of its next transaction:
  `Framed` says so of each frame.
- `NoDuplicateWorkByEngines` needs no such assumption: `Sound == Typed /\ Framed /\
  OneActivePerKey /\ HistoryAgrees` is inductive with corruption as well.
- `OneAgentPerJob`, `OneAcknowledgement`, `CorruptJobsAreClosed`, by `Told`: who
  holds a job took it out of the queue, which nobody enters again; who was told
  `recorded` is the only one whose answer or frame says so; and what an answer or
  a frame says is closed is closed.

`IncrementalScanProofs`: `FilesAreTracked` and `BatchIsWalk`. The invariant
`Knowledge == Shape /\ Tracked /\ GoneThenWritten` relates the pending events to the
difference between database and disk: a file no event is about is in the database
as it is on the disk, and a file told gone that is there was told written later.
Then a scoped scan walks, caches and keeps what a cached scan of the whole tree
would (`SameZone`), whatever the extractors return.

`RowsTellTheTruth` is the invariant of the cache, `Story`: the rows of a file are
judged not by the disk, which moves on between scans, but by any content their hashes
may be of. Each source of a stored link finds it there (`Faithful`), all that prose
carries is stored with everybody who finds it unless the file is mixed (`Whole`), and
a virtual node is read there (`Named`); a quiet database has the hashes, runs, sidecars
and settings of the present (`Current`). A reused row has an unchanged key, so it keeps its
meaning (`FoundBefore`); a new one is read off the file itself (`FoundAfresh`). From it
follow `NothingIsImagined`, `NothingIsLost`, `NoServerIsOrphaned`, and, with `Stored` (the rows
have the form a scan gives them, one link per source and target),
`RescanChangesNothing`. The invariant found two faults of the model before it could be
proved: `blind` lost track of a file taken over with no applicable extractor, and
`ServersAreNamed` said more than is so of an extractor that was configured anew after
it was removed.

`NodeHistoryProofs`: `HistoryIsReachable`, by `Reachable == Shaped /\
StrandedIsFlagged`. The proof never looks into `RenameOps`: whatever the heuristic
pairs, rows about a path that is no node carry a flag. The skipped write is the
case that needs care: equal results flag equal paths. `HistoryIsTyped` does need the
heuristic to pair a path at most once (`OpsArePaired`), or two nodes' rows of one key
would meet at one path (`RenamedKeys`). `HistoryFollows` puts two things together.
`ToldApart` is the invariant of the files: no two places of a disk or of a scan hold the
same file, and a file outside `shared` has one body everywhere, which no other file
has. `LoneBodyIsPaired` is about the heuristic alone: a vanished and a new path whose
body nobody else among the vanished and the new has are paired. In the first loop no
claim before the path's turn can have taken either (`Early`), and no later turn gives
one up (`TurnGrows`).

`DismissalsProofs`: `DismissalsLast`, `MirrorIsTrue`, `DismissedHasNoRow`, for any
number of requests and verbs. The invariant `Inv == Typed /\ Kept /\ Mirrored /\ Gone`
says of each request what it will write: its list has every entry that stands,
but its own and those it has missed (`Holds`); a view that counts as current is
that of the sidecar; and a row of a dismissed issue has a request that is about
to delete it (`Purging`). `Onward` treats at once the steps that only move a request.

`ActivityStatsProofs`: `StatsTyped`, `NothingIsForgotten`, `WritesGoForward`. The two
safety properties need each other's halves: `Inv` adds that there is one flight
(`OneFlight`), that a flight's rows are the present ones unless the row is dirty
or astray, and are no older than the table (`Carried`), that the table is
never ahead of the memory (`Behind`), and that a clear that has passed the table left
nothing there (`Removed`). A flush that does not await breaks `OneFlight`, and with it
everything else.

`JobLayersProofs`, of the findings: `FindingsUseStore` (a step of the findings layer is a
transaction of `JobStore` or leaves its tables alone), which with
`StoreKeepsUnderFindings` carries `JobStore`'s invariants over; `OneSafetyReport` and
`RowsAreTheLatest`. The invariant `Judged` adds to the shapes that an execution has the
words its rows are read from (`Worded`), where rows and executions of a node stand
(`Addressed`), and that a node whose rows are gone has been displaced (`Vanished`). "The
latest run" is a maximum over a finite set, so its existence is proved by a minimal
counterexample from the well-founded order of the naturals (`LeastExists`).

`WatcherRuntimeProofs`: `SerialPassesAreFresh` and `StoppedForGood`. `Control` keeps the
batchers in step with who runs: a queued event has a timer or a batch that will look
at it, a closed batcher has neither, a handle that is gone was drained. `Serial` says
what becomes of each change nobody missed (`Kept`): a pass that has not loaded will
read the file, the pass in flight has it right, or the table has it right and nobody
is reading it; and a queued event tells of the file as it is, or a newer one does
(`Told`). `Told` is what the race of section 5 breaks, which is how it was found: the
property failed at four edits, one more than the run has, and holds since `missed`
counts that file.

`SessionJournalProofs`: `JournalGroups`, `JournalFiles`, `JournalEnds`, `JournalIsTyped`.
One call opens or reopens a session, names it, claims, adopts, appends and perhaps
ends it, and between these the journal is not in order: the session of a new frame is
empty. `InOrder` therefore speaks of what sessions hold once the frame on its way has
landed (`Holds`), and each part of a call keeps that (`OpensInOrder`, `AdoptsInOrder`,
`EndsInOrder`, ...); without a frame on its way it is `Ordered`. It says more than
`FilesAreTheSessions`, which is not inductive: a session and a file that is not its own
have no frame in common, and every file and session is named by a frame of its own, or
a merge or a new name could hit another's file. `Ending` follows the files that owe an
end to the sessions that will write it (`Owed`). `Grouping` compares with the tape: the
attributions lead where the claims and spawns so far say (`Homes(claimed, strayed)`), no
session is of a claimed owner that has not strayed, and each root that agents are
attributed to has a session, which is what `retainForReopen` must not lose. That a late
claim moves a whole subtree, as `adoptMisrootedOwner` assumes, and that a spawn without a
parent node adds one possible home and takes none away, is proved over the depth of the
owners (`HomesClaimed`, `HomesStrayed`, by `Descends`); that the recursion is defined at
all, by `Ascends`. The loop of
`shutdown` is a function on the naturals (`ClosingIs`). The proof of
`JournalIsTyped` found the type of a session's frames misparenthesised in the model.

Each theorem that names a property has a run of section 3 that checks it on an
instance, and of the properties of the passing runs every invariant and every property
of steps is proved. Only model-checked are the seven about progress: `EnginesFinish`,
`WaiterTakesWork`, `AbandonedIsReaped`, `EventsAreTaken`, `StopCompletes`,
`CapturedIsFlushed` and `NextWindowSavesAll`, all under fairness. Out of the prover's
reach: liveness (it has no rule for `ENABLED`), folds (the library's theorems about
them take an operator as a parameter), and operators declared `RECURSIVE`. A recursive function on the numbers
can be reasoned about where it matters: `SetInduction` says induction of a set, from
the well-foundedness of the naturals, and `ClaimsStep` that `Claims` obeys its
definition.

## 5. Findings

With a run:

1. `src/core/watcher/runtime.ts:894` (`breaker`) - the batch that trips the breaker
   awaits its own end; `whenStopped` never resolves.

Met while modelling, without a run:

- Fingerprint. `scan-persistence.ts:164`: the fingerprint says what the last scan
  wrote, not what the rows are. Dismiss, restore, scan, and the same again: the second
  time the sidecar is that of the last scan, the scan is skipped and the issue does
  not return, against `src/cli/commands/issues.ts:329`, "the issue returns at the next
  scan" (`ScanRefreshes` of `Dismissals`). A mirror that was left behind stays behind in
  the same way.
- Queue. `claim-engine.ts:83-86`: a claim can answer with a null job.
  `history.ts:706-719`: a rename can violate the unique index of active jobs and
  abort the scan's write. `findings.ts:234`: row ids are reused, so a late
  resolution may close another finding.
- Watcher. `runtime.ts:1052-1059`: the server's initial pass overlaps the first
  batch instead of preceding it, and the older result may win (`QuiescentIsFresh`
  of `WatcherRuntime`). An unlink and an add of one file split over two batches
  look like a removal in between. An event says what happened, not what is there:
  when a file is deleted, hidden by `.skillmapignore`, written again and shown
  again while the primary batcher is busy, the meta watcher's full pass indexes it
  and the unlink that was queued before then removes it, though it is on disk (its
  write was dropped while hidden). `missed` keeps such a file until a walk that no
  older event follows.
- Scan. `kernel/orchestrator/index.ts:440` calls the scoped scan "identical output
  to a full scan"; a link from code pruned for want of a target does not return
  with it until its file is touched (`CachedEqualsFull` of `IncrementalScan`). A
  partial cache hit drops links with split sources and recounts external
  references from the extractors that ran. `applyResolution` never clears a
  resolved target. A shared `mcp://` node is credited to the first emitter, and the
  virtual node of an uninstalled extractor stays, even when the extractor as it is
  configured by then would not read its name. A body changed and changed back
  under a new extractor is not read again. Contributions stay when the settings of
  a lens are edited by hand.
- Renames. Virtual nodes all have the placeholder hash, so one that goes and one
  that comes look like a rename. `spec/db-schema.md:658` calls candidates ambiguous
  that `renames.ts` pairs greedily. A row kept at the destination of a collision may
  be that of a former file there. A silenced path with rows is still reported as
  orphan (against `spec/db-schema.md:656`). Undoing a late rename moves rows
  recorded since. The favourites route uses two statements.
- Journal. `spec/provider-activity.md:1007` says that the grouping mirrors the client's
  structural rules, but a claimed agent that spawns without a `parentNodePath` (it runs no
  scanned node, `spec/provider-activity.md:791-793`) gets a second session in the journal
  (`activity-journal.ts:226-232`), while the client attaches such spawns to its tree
  (`ui/src/services/session-index.ts:399`); the next claim merges it back. A failed write of a parked session is not retried; adoption unlinks
  before the merged write; two sessions begun in one millisecond under one id share
  a file name; eviction loses attributions; a crash leaves files without an end.
- Statistics. A scan moves the rows of a renamed node, but the memory keeps the old
  path: the first activity at the new one makes a fresh row, which replaces the moved
  one at the next flush. A clear that overlaps a flush is undone by the rows in flight
  (`spec/provider-activity.md:911`, "memory AND the persisted" row). A rejected write
  arms no timer: its rows wait for the next change, not the next window
  (`activity-stats.ts:112`). Rows given to a missing file count as written. After a
  boot that could not read the checkpoint, fresh rows replace the stored ones.
- Sidecars. Each write makes a new `FilesystemSidecarStore`, whose lock per path
  therefore never serialises anything; lists computed before an await, or in
  another process, can be lost. A bump does not refresh the mirror and takes its
  version from the row, which may be stale.
- `dialect.ts:281`: a `lock()` can overtake a waiter; benign today, as each request
  opens a connection of its own and only parallel reads share one.

## 6. Plan

Done: `JobStore`, `JobLifecycle`, `JobQueue`, `JobFindings`, `WatcherRuntime` with
their proofs; `IncrementalScan`, `RenameHeuristic`, `NodeHistory` with proofs;
`SessionJournal`, `Dismissals` and `ActivityStats` with their proofs. Next, the most
important first:

1. `WatcherService`: start, stop and restart around a runtime, POST scan with
   `withScanMutex`; abstract: one writer at a time.
2. `McpSessions` and `Broadcaster` with presence: caps and shutdown.
3. `ConnectionMutex`: lock and unlock over a FIFO of microtasks; abstract: a mutex.
4. Plugin key-values.
5. `DriftReset` and migrations: crash points, and what survives.
6. Pure algorithms against reference definitions: link resolution, ordered
   prefetch, topological order of extensions.

Not modelled, and why: extractors, analyzers, formatters (pure text, covered by
the conformance fixtures); plugin discovery, command line, HTTP envelopes,
telemetry (I/O and rendering); nodeless job targets and deletes in `NodeHistory`;
the browser UI and the web site; `spec/` (prose, quoted by the findings only). The
full list, with the files, is in `PROJECT.json`.
