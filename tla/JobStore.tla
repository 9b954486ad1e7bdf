------------------------------ MODULE JobStore ------------------------------
(***************************************************************************)
(* The queue tables of the project database, state_jobs,                   *)
(* state_job_contents and state_executions, and every transaction          *)
(* src/src/kernel/adapters/sqlite/jobs.ts runs on them.  SQLite serialises *)
(* write transactions, so each of them is one action here; what several    *)
(* processes do BETWEEN two of their transactions is module JobQueue.      *)
(*                                                                         *)
(* A table is a function from its primary keys to its rows, so a deleted   *)
(* row leaves the domain.  A SHA-256 content hash is modelled by the tuple *)
(* it hashes, with everything that is neither the extension nor the node   *)
(* path (body, frontmatter, prompt template, injected sections) folded in  *)
(* one opaque `input'.                                                     *)
(***************************************************************************)
EXTENDS Integers, Sequences

CONSTANTS
    JobId,       \* generated job ids; generation never repeats one
    Ext,         \* qualified ids of the probabilistic extensions
    Fixer,       \* those that are Actions with precondition.analyzerIds
    Finder,      \* those that are Analyzers: only they may carry auto_fix
    Node,        \* node paths
    Input,       \* the rest of what the content hash covers
    FindingId,   \* state_findings ids a fixer may be pointed at
    Section,     \* the findings rendered inside an input, frozen by its hash
    Priority,    \* values of the priority column
    Ttl,         \* positive TTLs, in clock ticks
    Given,       \* reasons a caller may put on the record of a failed job
    Renames,     \* pairs <<from, to>> a scan may migrate rows along
    MaxTime,     \* bound on the clock
    Null         \* SQL NULL

\* The CHECK on failure_reason.  `abandoned' is what the reaper writes and
\* `user-failed' the operator's verb, but a record may carry any of them.
RecordReason == {"runner-error", "report-invalid", "timeout", "job-file-missing"}
Reason       == RecordReason \cup {"abandoned", "user-failed"}

ASSUME StoreAssumption ==
    /\ Fixer \subseteq Ext /\ Finder \subseteq Ext /\ Fixer \cap Finder = {}
    /\ Section \in [Input -> SUBSET FindingId]
    /\ Priority \subseteq Int
    /\ Ttl \subseteq Nat \ {0}
    /\ Renames \subseteq Node \X Node
    /\ MaxTime \in Nat
    /\ Null \notin Int
    /\ Null \notin Reason
    /\ Given \subseteq Reason

VARIABLES
    jobs,        \* state_jobs
    contents,    \* the primary keys of state_job_contents
    executions,  \* state_executions, append-only
    issued,      \* every id state_jobs ever held
    now          \* the wall clock all processes of the machine read

storeVars == <<jobs, contents, executions, issued, now>>

-----------------------------------------------------------------------------
ActiveStatus   == {"queued", "running"}
TerminalStatus == {"completed", "failed", "cancelled"}

\* What a failed record may say: the engines' own reasons and the callers'.
FailReason == {"runner-error", "report-invalid", "job-file-missing"} \cup Given

Hash == [ext : Ext, node : Node, input : Input]

\* finding_ids_json: NULL targets the whole node.
Target == {Null} \cup SUBSET FindingId

Job == [hash     : Hash,
        node     : Node,
        findings : Target,
        autoFix  : BOOLEAN,
        priority : Priority,
        ttl      : Ttl \cup {Null},
        status   : ActiveStatus \cup TerminalStatus,
        reason   : Reason \cup {Null},
        created  : Nat,
        claimed  : Nat \cup {Null},
        finished : Nat \cup {Null},
        expires  : Nat \cup {Null}]

Execution == [job      : JobId,
              status   : {"completed", "failed"},
              reason   : Reason \cup {Null},
              started  : Nat,
              finished : Nat]

Live         == DOMAIN jobs
Active       == {j \in Live : jobs[j].status \in ActiveStatus}
InStatus(s)  == {j \in Live : jobs[j].status = s}

NewJob(h, n, f, af, p, ttl, t) ==
    [hash |-> h, node |-> n, findings |-> f, autoFix |-> af, priority |-> p,
     ttl |-> ttl, status |-> "queued", reason |-> Null, created |-> t,
     claimed |-> Null, finished |-> Null, expires |-> Null]

Closed(r, s, why, t) ==
    [r EXCEPT !.status = s, !.reason = why, !.finished = t]

-----------------------------------------------------------------------------
(***************************************************************************)
(* Submitting.                                                             *)
(***************************************************************************)

\* The unique partial index over (extension_id, node_id, content_hash)
\* WHERE status IN ('queued','running').
SameKey(r, q) == r.node = q.node /\ r.hash = q.hash

Conflicts(r) == {j \in Active : SameKey(jobs[j], r)}

\* Mutant: an absent finding set overlaps nothing instead of everything.
OverlapExplicit(f, g) == f # Null /\ g # Null /\ f \cap g # {}

Overlap(f, g) == f = Null \/ g = Null \/ f \cap g # {}

\* The jobs of the new row's (fixer, node) pair whose finding target
\* overlaps it.
Siblings(r, s) ==
    {j \in InStatus(s) : /\ jobs[j].hash.ext = r.hash.ext
                         /\ jobs[j].node = r.node
                         /\ Overlap(jobs[j].findings, r.findings)}

Stale(r) == {j \in Siblings(r, "queued") : jobs[j].hash # r.hash}

\* INSERT OR IGNORE the content, then INSERT the row; `stale' are the
\* siblings the same transaction cancels first.
Enqueue(id, r, stale) ==
    /\ id \notin issued
    /\ Conflicts(r) \ stale = {}
    /\ jobs' = [j \in Live \cup {id} |->
                   IF j = id THEN r
                   ELSE IF j \in stale
                        THEN Closed(jobs[j], "cancelled", Null, r.created)
                        ELSE jobs[j]]
    /\ contents' = contents \cup {r.hash}
    /\ issued' = issued \cup {id}
    /\ UNCHANGED <<executions, now>>

\* An extension that is not a fixer: plain insert, backed by the index.
SubmitJob(id, r) ==
    /\ r.hash.ext \notin Fixer
    /\ Enqueue(id, r, {})

\* Mutant: a running sibling is superseded like a queued one.
SubmitFixerAlways(id, r) ==
    /\ r.hash.ext \in Fixer
    /\ \A j \in Siblings(r, "queued") : jobs[j].hash # r.hash
    /\ Enqueue(id, r, {j \in Siblings(r, "queued") \cup Siblings(r, "running") :
                         jobs[j].hash # r.hash})

\* A fixer: refused while an overlapping sibling runs or the same request is
\* queued, otherwise it supersedes the queued siblings it overlaps.
SubmitFixerJob(id, r) ==
    /\ r.hash.ext \in Fixer
    /\ Siblings(r, "running") = {}
    /\ \A j \in Siblings(r, "queued") : jobs[j].hash # r.hash
    /\ Enqueue(id, r, Stale(r))

\* What a submit may freeze on a row.  A request for a subset of findings
\* renders at least one of them, and nothing outside the subset.
ValidRequest(e, i, f, af) ==
    /\ af => e \in Finder
    /\ f # Null => e \in Fixer /\ Section[i] # {} /\ Section[i] \subseteq f

NewRows(t) ==
    {NewJob(h, h.node, f, af, p, ttl, t) :
        h \in Hash, f \in Target, af \in BOOLEAN, p \in Priority,
        ttl \in Ttl \cup {Null}}

ValidRow(r) == ValidRequest(r.hash.ext, r.hash.input, r.findings, r.autoFix)

-----------------------------------------------------------------------------
(***************************************************************************)
(* Claiming and reaping.                                                   *)
(***************************************************************************)

\* Mutant: the claim's subquery does not filter on the status.
ClaimableAny(exts) == {j \in Active : jobs[j].hash.ext \in exts}

Claimable(exts) == {j \in InStatus("queued") : jobs[j].hash.ext \in exts}

\* ORDER BY priority DESC, created_at ASC; SQL leaves ties open.
NotBehind(j, k) ==
    \/ jobs[j].priority > jobs[k].priority
    \/ jobs[j].priority = jobs[k].priority /\ jobs[j].created <= jobs[k].created

\* Mutant: created_at DESC, the latest submit first.
NextUpNewest(exts) ==
    {j \in Claimable(exts) : \A k \in Claimable(exts) :
        \/ jobs[j].priority > jobs[k].priority
        \/ /\ jobs[j].priority = jobs[k].priority
           /\ jobs[j].created >= jobs[k].created}

NextUp(exts) ==
    {j \in Claimable(exts) : \A k \in Claimable(exts) : NotBehind(j, k)}

ClaimNext(j, exts, t) ==
    /\ j \in NextUp(exts)
    /\ jobs' = [jobs EXCEPT
                  ![j].status  = "running",
                  ![j].claimed = t,
                  ![j].expires = IF jobs[j].ttl = Null THEN Null
                                 ELSE t + jobs[j].ttl]
    /\ UNCHANGED <<contents, executions, issued, now>>

\* One guarded UPDATE over a set of rows.
Close(S, s, why, t) ==
    /\ jobs' = [j \in Live |-> IF j \in S THEN Closed(jobs[j], s, why, t)
                               ELSE jobs[j]]
    /\ UNCHANGED <<contents, executions, issued, now>>

\* Mutant: a job is given up at its deadline, not after it.
ExpiredAtDeadline(t) ==
    {j \in InStatus("running") : jobs[j].expires # Null /\ jobs[j].expires <= t}

Expired(t) ==
    {j \in InStatus("running") : jobs[j].expires # Null /\ jobs[j].expires < t}

ReapExpired(t) == Close(Expired(t), "failed", "abandoned", t)

-----------------------------------------------------------------------------
(***************************************************************************)
(* Closing: the operator's cancel and fail, the agent's record.            *)
(***************************************************************************)

CancelJob(j, t)    == j \in Active /\ Close({j}, "cancelled", Null, t)
CancelAllActive(t) == Close(Active, "cancelled", Null, t)
FailJob(j, t)      == j \in Active /\ Close({j}, "failed", "user-failed", t)
FailAllActive(t)   == Close(Active, "failed", "user-failed", t)

\* Mutant: the UPDATE is not guarded by status = 'running'.
RecordUnguarded(j, s, why, started, t) ==
    /\ j \in Live
    /\ jobs' = [jobs EXCEPT ![j] = Closed(@, s, why, t)]
    /\ executions' = Append(executions,
                            [job |-> j, status |-> s, reason |-> why,
                             started |-> started, finished |-> t])
    /\ UNCHANGED <<contents, issued, now>>

\* The row update and the execution insert are one transaction; zero rows
\* updated throws JobNotRunningError, which rolls both back.  The
\* write-throughs of the transaction are module JobFindings.
RecordJobTerminal(j, s, why, started, t) ==
    /\ j \in InStatus("running")
    /\ jobs' = [jobs EXCEPT ![j] = Closed(@, s, why, t)]
    /\ executions' = Append(executions,
                            [job |-> j, status |-> s, reason |-> why,
                             started |-> started, finished |-> t])
    /\ UNCHANGED <<contents, issued, now>>

-----------------------------------------------------------------------------
(***************************************************************************)
(* Retention, and the scan's migration of rows to a renamed path.          *)
(***************************************************************************)

Prunable(s, cutoff) == {j \in InStatus(s) : jobs[j].finished < cutoff}

\* Mutant: the pruned jobs' contents go with them, shared or not.
PruneWithContents(s, cutoff) ==
    LET gone == Prunable(s, cutoff)
    IN  /\ jobs' = [j \in Live \ gone |-> jobs[j]]
        /\ contents' = contents \ {jobs[j].hash : j \in gone}
        /\ UNCHANGED <<executions, issued, now>>

\* Terminal rows first, then the contents no surviving row references.
PruneTerminalJobs(s, cutoff) ==
    LET kept == Live \ Prunable(s, cutoff)
    IN  /\ jobs' = [j \in kept |-> jobs[j]]
        /\ contents' = {h \in contents : \E j \in kept : jobs[j].hash = h}
        /\ UNCHANGED <<executions, issued, now>>

Moved(from) == {j \in Live : jobs[j].node = from}

\* UPDATE state_jobs SET node_id = to WHERE node_id = from.  The hash keeps
\* the old path.  The partial index holds here too: two rows that would
\* share a key make the statement throw and the transaction roll back.
MigrationCollides(from, to) ==
    \E j \in Active \cap Moved(from), k \in Active \ Moved(from) :
        jobs[k].node = to /\ jobs[j].hash = jobs[k].hash

\* Mutant: no unique index stands in the way.
MigrateUnchecked(from, to) ==
    /\ from # to
    /\ jobs' = [j \in Live |-> IF j \in Moved(from)
                               THEN [jobs[j] EXCEPT !.node = to] ELSE jobs[j]]
    /\ UNCHANGED <<contents, executions, issued, now>>

MigrateJobs(from, to) ==
    /\ from # to
    /\ ~MigrationCollides(from, to)
    /\ jobs' = [j \in Live |-> IF j \in Moved(from)
                               THEN [jobs[j] EXCEPT !.node = to] ELSE jobs[j]]
    /\ UNCHANGED <<contents, executions, issued, now>>

-----------------------------------------------------------------------------
Tick == /\ now < MaxTime
        /\ now' = now + 1
        /\ UNCHANGED <<jobs, contents, executions, issued>>

\* Mutant: a stamp is rounded up to the next tick of the clock.
StampRoundedUp == 0 .. now + 1

\* Every caller captures its timestamp before the transaction runs, so a
\* stamp is the present or any earlier instant.
Stamp == 0 .. now

Init == /\ jobs = <<>>
        /\ contents = {}
        /\ executions = <<>>
        /\ issued = {}
        /\ now = 0

Submit  == \E id \in JobId, t \in Stamp : \E r \in NewRows(t) :
               ValidRow(r) /\ (SubmitJob(id, r) \/ SubmitFixerJob(id, r))
Claim   == \E j \in Live, t \in Stamp, exts \in SUBSET Ext :
               ClaimNext(j, exts, t)
Reap    == \E t \in Stamp : ReapExpired(t)
Cancel  == \E t \in Stamp : CancelAllActive(t) \/ \E j \in Live : CancelJob(j, t)
Fail    == \E t \in Stamp : FailAllActive(t) \/ \E j \in Live : FailJob(j, t)
Record  == \E j \in Live, t \in Stamp :
               \/ RecordJobTerminal(j, "completed", Null, jobs[j].claimed, t)
               \/ \E why \in FailReason :
                      RecordJobTerminal(j, "failed", why, jobs[j].claimed, t)
Prune   == \E s \in TerminalStatus, cutoff \in 0 .. now + 1 :
               PruneTerminalJobs(s, cutoff)
Migrate == \E p \in Renames : MigrateJobs(p[1], p[2])

Next == Tick \/ Submit \/ Claim \/ Reap \/ Cancel \/ Fail \/ Record \/ Prune
        \/ Migrate

Spec == Init /\ [][Next]_storeVars

-----------------------------------------------------------------------------
(***************************************************************************)
(* Properties.                                                             *)
(***************************************************************************)

\* The tables have the shapes of the schema,
Shapes ==
    /\ Live \subseteq issued /\ issued \subseteq JobId
    /\ jobs \in [Live -> Job]
    /\ contents \subseteq Hash
    /\ executions \in Seq(Execution)
    /\ now \in Nat

\* and nothing in them is stamped with an instant that is still to come,
\* whenever the caller read the clock.  (A deadline, `expires', may well be.)
Past == 0 .. now

StampsPast ==
    /\ \A j \in Live : {jobs[j].created, jobs[j].claimed, jobs[j].finished}
                          \subseteq Past \cup {Null}
    /\ \A i \in DOMAIN executions :
          {executions[i].started, executions[i].finished} \subseteq Past

\* The tables have the shapes of the schema, and no stamp is in the future.
TypeOK == Shapes /\ StampsPast

\* Submit and prune keep the two tables consistent: a job row's content hash
\* always resolves, whatever was pruned, superseded or shared in between.
ContentIntegrity == \A j \in Live : jobs[j].hash \in contents

\* At most one queued or running job per (extension, node, content hash),
\* also after a scan moved rows to a renamed path.
OneActivePerKey ==
    \A j, k \in Active : SameKey(jobs[j], jobs[k]) => j = k

\* One job fixes a finding at a time: two live jobs of a fixer on a node
\* target disjoint finding sets.  Supersede and the running refusal maintain
\* it across submits, claims and closings in any order; a migration, which
\* brings foreign rows to a node, does not.
FixersDisjoint ==
    \A j, k \in Active :
        /\ j # k
        /\ jobs[j].hash.ext \in Fixer
        /\ jobs[j].hash.ext = jobs[k].hash.ext
        /\ jobs[j].node = jobs[k].node
        => /\ jobs[j].findings # Null /\ jobs[k].findings # Null
           /\ jobs[j].findings \cap jobs[k].findings = {}

\* The columns of a row tell one story: what a status implies about the
\* claim, the expiry, the reason and the closing stamp.
RowCoherent(r) ==
    /\ r.status = "queued"  => r.claimed = Null
    /\ r.status = "running" => r.claimed # Null
    /\ r.status \in ActiveStatus <=> r.finished = Null
    /\ r.expires # Null <=> r.claimed # Null /\ r.ttl # Null
    /\ r.expires # Null => r.expires = r.claimed + r.ttl
    /\ r.reason # Null <=> r.status = "failed"
    /\ r.status = "completed" => r.claimed # Null

RecordedBy(j) == {i \in DOMAIN executions : executions[i].job = j}

RowsAgree == \A j \in Live : RowCoherent(jobs[j])

\* A job is `abandoned' after its deadline, unless its own record says so.
ReapedLate ==
    \A j \in Live :
        jobs[j].reason = "abandoned" /\ RecordedBy(j) = {} =>
            jobs[j].expires # Null /\ jobs[j].expires < jobs[j].finished

\* Both: no transaction, however old the instant it was given, leaves a row
\* whose columns contradict each other, or reaps one before its deadline.
RowsCoherent == RowsAgree /\ ReapedLate

\* The history and the queue never disagree: an execution row belongs to a
\* job that closed with that very verdict, a job has at most one, and every
\* job closed by a record has one.
ExecutionsAgree ==
    /\ \A i \in DOMAIN executions :
          LET e == executions[i] IN
          /\ e.job \in issued
          /\ e.job \in Live =>
                /\ jobs[e.job].status = e.status
                /\ jobs[e.job].reason = e.reason
                /\ jobs[e.job].finished = e.finished
    /\ \A i, k \in DOMAIN executions :
          executions[i].job = executions[k].job => i = k
    /\ \A j \in Live :
          (jobs[j].status = "completed" \/ jobs[j].reason \in RecordReason)
          => RecordedBy(j) # {}

\* Once terminal, a job never transitions again: its row only follows its
\* node to a new path, or is pruned.
TerminalIsFinal ==
    [][\A j \in Live \ Active :
          j \in Live' => jobs'[j] = [jobs[j] EXCEPT !.node = jobs'[j].node]
      ]_storeVars

\* A running job is never superseded, and never loses its claim to anything
\* but a closing of its own: no step that admits a new job touches it.
SubmitSparesRunning ==
    [][Live' \ Live # {} =>
          \A j \in InStatus("running") : j \in Live' /\ jobs'[j] = jobs[j]
      ]_storeVars

\* A claim takes the next job: none of the extension's queued jobs has a
\* higher priority, or the same priority and an earlier submit.
ClaimsInOrder ==
    [][\A j \in InStatus("queued") :
          j \in Live' /\ jobs'[j].status = "running" =>
              \A k \in InStatus("queued") :
                  jobs[k].hash.ext = jobs[j].hash.ext => NotBehind(j, k)
      ]_storeVars

-----------------------------------------------------------------------------
(***************************************************************************)
(* The queue implements the lifecycle of each job.                         *)
(***************************************************************************)
Verdicts(j) == {executions[i].status : i \in RecordedBy(j)}

phaseOf == [j \in JobId |-> IF j \in Live THEN jobs[j].status
                            ELSE IF j \in issued THEN "pruned" ELSE "absent"]

verdictOf == [j \in JobId |-> IF "completed" \in Verdicts(j) THEN "completed"
                              ELSE IF "failed" \in Verdicts(j) THEN "failed"
                              ELSE "none"]

Lifecycle == INSTANCE JobLifecycle WITH phase <- phaseOf, verdict <- verdictOf

\* Every job goes through the state machine exactly once, is handed to at
\* most one claimant and closed by at most one record.
ImplementsLifecycle == Lifecycle!Spec
=============================================================================
