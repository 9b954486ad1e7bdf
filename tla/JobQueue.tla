------------------------------ MODULE JobQueue ------------------------------
(***************************************************************************)
(* The processes that share the queue: `sm' commands, the server's routes  *)
(* and its MCP tools.  Each runs one engine of src/src/core/jobs at a      *)
(* time.  An engine is a sequence of separate transactions with awaits     *)
(* between them; everything it read earlier it keeps in its own frame,     *)
(* here op[p], and every other process may step in between.                *)
(***************************************************************************)
EXTENDS JobStore

CONSTANTS
    Proc,        \* the processes
    Engine,      \* bound: the engines an instance lets them start
    Filter,      \* bound: the sets of extensions the filters of claims match
    FixersOf,    \* finder -> the fixers its analyzerIds join resolves to
    HookQueued,  \* <<action, node>> pairs the enabled hooks may ask for
    Corruption,  \* whether content rows may be deleted by external means
    MaxCrashes   \* bound on the processes killed between two transactions

ASSUME QueueAssumption ==
    /\ Engine \subseteq {"claim", "submit", "record", "cascade"}
    /\ Filter \subseteq SUBSET Ext
    /\ FixersOf \in [Finder -> SUBSET Fixer]
    /\ HookQueued \subseteq Ext \X Node
    /\ Corruption \in BOOLEAN
    /\ MaxCrashes \in Nat

VARIABLES
    op,          \* the engine each process is in, and what it holds
    answer,      \* what the last engine of each process returned
    crashes

queueVars == <<op, answer, crashes>>
vars == <<storeVars, queueVars>>

Idle    == [step |-> "idle"]
NoReply == [kind |-> "none"]
Reply(k, j) == [kind |-> k, job |-> j]

At(p, step) == op[p].step = step

Goto(p, frame) ==
    /\ op' = [op EXCEPT ![p] = frame]
    /\ UNCHANGED <<answer, crashes>>

Return(p, reply) ==
    /\ op' = [op EXCEPT ![p] = Idle]
    /\ answer' = [answer EXCEPT ![p] = reply]
    /\ UNCHANGED crashes

Begin(p, frame) ==
    /\ At(p, "idle")
    /\ op' = [op EXCEPT ![p] = frame]
    /\ answer' = [answer EXCEPT ![p] = NoReply]
    /\ UNCHANGED <<crashes, storeVars>>

-----------------------------------------------------------------------------
(***************************************************************************)
(* claimJob: reap, claim, fetch the content, re-read the row.  One nowMs,  *)
(* captured at the call, serves all of them.  A `--wait' claim starts over *)
(* on an empty queue, after its sleep.                                     *)
(***************************************************************************)
\* No filter matches every extension; one matches an id, or the bare end of
\* several.
StartClaim(p) ==
    \E exts \in Filter, wait \in BOOLEAN :
        Begin(p, [step |-> "reap", stamp |-> now, exts |-> exts, wait |-> wait])

ClaimReap(p) ==
    /\ At(p, "reap")
    /\ ReapExpired(op[p].stamp)
    /\ Goto(p, [op[p] EXCEPT !.step = "claim"])

ClaimTake(p) ==
    /\ At(p, "claim")
    /\ \E j \in Live :
          /\ ClaimNext(j, op[p].exts, op[p].stamp)
          /\ Goto(p, [step |-> "content", stamp |-> op[p].stamp, job |-> j,
                      hash |-> jobs[j].hash])

\* Mutant: a claim that failed for another reason is taken for an empty queue.
ClaimEmptyOnError(p) ==
    /\ At(p, "claim")
    /\ UNCHANGED storeVars
    /\ IF op[p].wait THEN Goto(p, [op[p] EXCEPT !.step = "sleep"])
                     ELSE Return(p, [kind |-> "empty"])

ClaimEmpty(p) ==
    /\ At(p, "claim")
    /\ Claimable(op[p].exts) = {}
    /\ UNCHANGED storeVars
    /\ IF op[p].wait THEN Goto(p, [op[p] EXCEPT !.step = "sleep"])
                     ELSE Return(p, [kind |-> "empty"])

\* Mutant: the loop keeps the timestamp of its first attempt.
ClaimWakeStale(p) ==
    /\ At(p, "sleep")
    /\ UNCHANGED storeVars
    /\ \/ Goto(p, [op[p] EXCEPT !.step = "reap"])
       \/ Return(p, [kind |-> "empty"])

\* The poll interval elapsed; or the --timeout did, and the verb gives up.
ClaimWake(p) ==
    /\ At(p, "sleep")
    /\ UNCHANGED storeVars
    /\ \/ Goto(p, [op[p] EXCEPT !.step = "reap", !.stamp = now])
       \/ Return(p, [kind |-> "empty"])

ClaimContent(p) ==
    /\ At(p, "content")
    /\ UNCHANGED storeVars
    /\ Goto(p, [op[p] EXCEPT !.step = IF op[p].hash \in contents
                                      THEN "reread" ELSE "missing"])

\* adapter.jobs.get(claim.id)!: the row may be gone, and is asserted not to be.
ClaimReread(p) ==
    /\ At(p, "reread")
    /\ UNCHANGED storeVars
    /\ Return(p, IF op[p].job \in Live THEN Reply("claimed", op[p].job)
                                       ELSE Reply("nulljob", op[p].job))

\* Mutant: the corrupt job is skipped and stays running.
ClaimMissingSkip(p) ==
    /\ At(p, "missing")
    /\ UNCHANGED storeVars
    /\ Return(p, Reply("corrupt", op[p].job))

\* The content row is missing: fail the job if its row is still there.
ClaimMissing(p) ==
    /\ At(p, "missing")
    /\ UNCHANGED storeVars
    /\ IF op[p].job \in Live
       THEN Goto(p, [op[p] EXCEPT !.step = "markmissing"])
       ELSE Return(p, Reply("corrupt", op[p].job))

\* recordFailedOutcome; a job closed meanwhile throws out of the engine.
ClaimMarkMissing(p) ==
    LET j == op[p].job IN
    /\ At(p, "markmissing")
    /\ \/ /\ RecordJobTerminal(j, "failed", "job-file-missing",
                               jobs[j].claimed, op[p].stamp)
          /\ Return(p, Reply("corrupt", j))
       \/ /\ j \notin InStatus("running")
          /\ UNCHANGED storeVars
          /\ Return(p, [kind |-> "error"])

-----------------------------------------------------------------------------
(***************************************************************************)
(* submitOneJob: the duplicate pre-check unless forced, the drift check,   *)
(* then the insert.  The auto-fix chain runs the same steps, unforced, for *)
(* each request in `todo'; what it returns is swallowed.                   *)
(***************************************************************************)
StartSubmit(p) ==
    \E r \in NewRows(0), force \in BOOLEAN :
        /\ ValidRow(r)
        /\ Begin(p, [step |-> IF force THEN "render" ELSE "check",
                     row |-> r, todo |-> {}, chained |-> FALSE])

\* The end of one submit: back to the caller, or to the rest of the chain.
Submitted(p, reply) ==
    IF op[p].chained THEN Goto(p, [step |-> "chain", todo |-> op[p].todo])
                     ELSE Return(p, reply)

SubmitCheck(p) ==
    LET found == Conflicts(op[p].row) IN
    /\ At(p, "check")
    /\ UNCHANGED storeVars
    /\ IF found = {}
       THEN Goto(p, [op[p] EXCEPT !.step = "render"])
       ELSE \E k \in found : Submitted(p, Reply("duplicate", k))

\* Drift, or an unreadable file, refuses; otherwise the row is stamped.
SubmitRender(p) ==
    /\ At(p, "render")
    /\ UNCHANGED storeVars
    /\ \/ Submitted(p, [kind |-> "drift"])
       \/ Goto(p, [op[p] EXCEPT !.step = "insert", !.row.created = now])

SubmitInsert(p) ==
    /\ At(p, "insert")
    /\ \E id \in JobId \ issued :
          /\ SubmitJob(id, op[p].row) \/ SubmitFixerJob(id, op[p].row)
          /\ Submitted(p, Reply("created", id))

\* Mutant: only a running sibling is reported, not the same queued request.
SubmitFixerRefusedRunning(p) ==
    LET running == Siblings(op[p].row, "running") IN
    /\ At(p, "insert")
    /\ op[p].row.hash.ext \in Fixer
    /\ UNCHANGED storeVars
    /\ \E k \in running : Submitted(p, Reply("duplicate", k))

\* submitFixer's refusals, the running sibling before the queued duplicate.
SubmitFixerRefused(p) ==
    LET r == op[p].row
        running   == Siblings(r, "running")
        duplicate == {j \in Siblings(r, "queued") : jobs[j].hash = r.hash}
    IN  /\ At(p, "insert")
        /\ r.hash.ext \in Fixer
        /\ running \cup duplicate # {}
        /\ UNCHANGED storeVars
        /\ \E k \in (IF running # {} THEN running ELSE duplicate) :
              Submitted(p, Reply("duplicate", k))

\* The UNIQUE violation: the transaction rolled back, its generated id is
\* only a name, and the row that was in the way is looked up afterwards.
SubmitConflict(p) ==
    /\ At(p, "insert")
    /\ op[p].row.hash.ext \notin Fixer
    /\ Conflicts(op[p].row) # {}
    /\ UNCHANGED storeVars
    /\ \E id \in JobId \ issued :
          Goto(p, [step |-> "lookup", row |-> op[p].row, id |-> id,
                   todo |-> op[p].todo, chained |-> op[p].chained])

\* existing ?? id
SubmitLookup(p) ==
    LET found == Conflicts(op[p].row) IN
    /\ At(p, "lookup")
    /\ UNCHANGED storeVars
    /\ \E k \in (IF found # {} THEN found ELSE {op[p].id}) :
          Submitted(p, Reply("duplicate", k))

-----------------------------------------------------------------------------
(***************************************************************************)
(* recordJob: load and check the job, then the record transaction, then    *)
(* the auto-fix chain of a completed finder.                               *)
(***************************************************************************)
StartRecord(p) ==
    \E j \in issued, s \in {"completed", "failed"} :
        Begin(p, [step |-> "load", job |-> j, status |-> s, stamp |-> now])

\* A job that is gone, a wrong nonce or a job not running is refused.  The
\* row read here serves to the end, its node path included.
RecordLoad(p) ==
    LET j == op[p].job IN
    /\ At(p, "load")
    /\ UNCHANGED storeVars
    /\ IF j \in InStatus("running")
       THEN \/ Return(p, [kind |-> "refused"])
            \/ Goto(p, [step |-> "close", job |-> j, status |-> op[p].status,
                        stamp |-> op[p].stamp, node |-> jobs[j].node])
       ELSE Return(p, [kind |-> "refused"])

\* A failed record carries the caller's reason, or `runner-error'.  The report
\* of a completed record may be invalid, which fails the job.
Verdict(s) ==
    IF s = "failed" THEN {"failed"} \X ({"runner-error"} \cup Given)
    ELSE {<<"completed", Null>>, <<"failed", "report-invalid">>}

\* The requests of the chain: the fixers of a flagged finder, and whatever
\* the job.completed hooks queue, on any node; or none, when the runtime or
\* a hook fails, which is swallowed.
Chained(j, n, s) ==
    LET flagged == IF jobs[j].autoFix
                   THEN FixersOf[jobs[j].hash.ext] \X {n} ELSE {}
    IN  IF s # "completed" THEN {{}}
        ELSE {{}} \cup {flagged \cup hooked : hooked \in SUBSET HookQueued}

RecordClose(p) ==
    LET j == op[p].job IN
    /\ At(p, "close")
    /\ \E v \in Verdict(op[p].status) :
          /\ RecordJobTerminal(j, v[1], v[2], jobs[j].claimed, op[p].stamp)
          /\ \E todo \in Chained(j, op[p].node, v[1]) :
                op' = [op EXCEPT ![p] = [step |-> "chain", todo |-> todo]]
          /\ answer' = [answer EXCEPT ![p] = Reply("recorded", j)]
          /\ UNCHANGED crashes

\* The extension or its report schema no longer resolves: nothing is written.
RecordUnresolved(p) ==
    /\ At(p, "close")
    /\ op[p].status = "completed"
    /\ UNCHANGED storeVars
    /\ Return(p, [kind |-> "unresolved"])

\* The caller's reason is none the CHECK admits: the UPDATE of a job that is
\* still running throws, and the transaction is rolled back; nobody is answered.
RecordThrows(p) ==
    /\ At(p, "close")
    /\ op[p].status = "failed"
    /\ op[p].job \in InStatus("running")
    /\ UNCHANGED storeVars
    /\ Goto(p, Idle)

\* Mutant: a job pruned meanwhile is not a lost race.
RecordLostClosed(p) ==
    /\ At(p, "close")
    /\ op[p].job \in Live \ InStatus("running")
    /\ UNCHANGED storeVars
    /\ Return(p, [kind |-> "refused"])

\* JobNotRunningError: the lost race is answered like the pre-check.
RecordLost(p) ==
    /\ At(p, "close")
    /\ op[p].job \notin InStatus("running")
    /\ UNCHANGED storeVars
    /\ Return(p, [kind |-> "refused"])

\* Each request of the chain is submitted, whole-node and unflagged; one whose
\* node, prompt or findings do not resolve is skipped.
ChainNext(p) ==
    /\ At(p, "chain")
    /\ UNCHANGED storeVars
    /\ \E request \in op[p].todo :
          LET rest == op[p].todo \ {request} IN
          \/ Goto(p, [step |-> "chain", todo |-> rest])
          \/ \E r \in NewRows(0) :
                /\ r.hash.ext = request[1] /\ r.node = request[2]
                /\ r.findings = Null /\ ~r.autoFix /\ ValidRow(r)
                /\ Goto(p, [step |-> "check", row |-> r, todo |-> rest,
                            chained |-> TRUE])

ChainDone(p) ==
    /\ At(p, "chain")
    /\ op[p].todo = {}
    /\ UNCHANGED storeVars
    /\ Goto(p, Idle)

-----------------------------------------------------------------------------
(***************************************************************************)
(* cancelQueuedJobsForKeys: list the queued jobs of the disabled           *)
(* extension, then cancel each of them by id.                              *)
(***************************************************************************)
StartCascade(p) ==
    \E e \in Ext : Begin(p, [step |-> "list", ext |-> e, stamp |-> now])

CascadeList(p) ==
    /\ At(p, "list")
    /\ UNCHANGED storeVars
    /\ Goto(p, [step |-> "cancel", stamp |-> op[p].stamp,
                list |-> Claimable({op[p].ext})])

\* Mutant: the cascade cancels by id, without looking at the status.
CascadeCancelBlind(p) ==
    /\ At(p, "cancel")
    /\ \E j \in op[p].list :
          /\ Close({j}, "cancelled", Null, op[p].stamp)
          /\ Goto(p, [op[p] EXCEPT !.list = @ \ {j}])

CascadeCancel(p) ==
    /\ At(p, "cancel")
    /\ \E j \in op[p].list :
          /\ \/ CancelJob(j, op[p].stamp)
             \/ j \notin Active /\ UNCHANGED storeVars
          /\ Goto(p, [op[p] EXCEPT !.list = @ \ {j}])

CascadeDone(p) ==
    /\ At(p, "cancel")
    /\ op[p].list = {}
    /\ UNCHANGED storeVars
    /\ Return(p, [kind |-> "cascaded"])

-----------------------------------------------------------------------------
(***************************************************************************)
(* The one-transaction verbs and routes, whoever calls them.               *)
(***************************************************************************)
Operator ==
    /\ UNCHANGED queueVars
    /\ \/ \E j \in Live : CancelJob(j, now) \/ FailJob(j, now)
       \/ CancelAllActive(now) \/ FailAllActive(now)
       \/ \E s \in TerminalStatus, cutoff \in 0 .. now + 1 :
             PruneTerminalJobs(s, cutoff)
       \/ Migrate

Clock == Tick /\ UNCHANGED queueVars

\* The process dies between two transactions; its claim stays in the table.
Crash(p) ==
    /\ ~At(p, "idle")
    /\ crashes < MaxCrashes
    /\ crashes' = crashes + 1
    /\ op' = [op EXCEPT ![p] = Idle]
    /\ answer' = [answer EXCEPT ![p] = NoReply]
    /\ UNCHANGED storeVars

Corrupt ==
    /\ Corruption
    /\ \E h \in contents : contents' = contents \ {h}
    /\ UNCHANGED <<jobs, executions, issued, now, queueVars>>

ClaimStep(p) ==
    \/ ClaimReap(p) \/ ClaimTake(p) \/ ClaimEmpty(p) \/ ClaimWake(p)
    \/ ClaimContent(p) \/ ClaimReread(p)
    \/ ClaimMissing(p) \/ ClaimMarkMissing(p)
SubmitStep(p) ==
    \/ SubmitCheck(p) \/ SubmitRender(p) \/ SubmitInsert(p)
    \/ SubmitFixerRefused(p) \/ SubmitConflict(p) \/ SubmitLookup(p)
RecordStep(p) ==
    \/ RecordLoad(p) \/ RecordClose(p)
    \/ RecordUnresolved(p) \/ RecordThrows(p) \/ RecordLost(p)
    \/ ChainNext(p) \/ ChainDone(p)
CascadeStep(p) == CascadeList(p) \/ CascadeCancel(p) \/ CascadeDone(p)

Step(p)  == ClaimStep(p) \/ SubmitStep(p) \/ RecordStep(p) \/ CascadeStep(p)
Start(p) ==
    \/ "claim" \in Engine /\ StartClaim(p)
    \/ "submit" \in Engine /\ StartSubmit(p)
    \/ "record" \in Engine /\ StartRecord(p)
    \/ "cascade" \in Engine /\ StartCascade(p)

QueueInit == /\ Init
             /\ op = [p \in Proc |-> Idle]
             /\ answer = [p \in Proc |-> NoReply]
             /\ crashes = 0

QueueNext == \/ Operator \/ Clock \/ Corrupt
             \/ \E p \in Proc : Start(p) \/ Step(p) \/ Crash(p)

QueueSpec == QueueInit /\ [][QueueNext]_vars

\* A transaction of this machine ends, and the clock moves: awaits inside an
\* engine resolve.  Nobody is obliged to start anything.
FairSpec == QueueSpec /\ WF_vars(Clock) /\ \A p \in Proc : WF_vars(Step(p))

-----------------------------------------------------------------------------
(***************************************************************************)
(* Properties.                                                             *)
(***************************************************************************)

\* What p was told, or is about to be told, to work on.
Holds(p, j) ==
    \/ answer[p] = Reply("claimed", j)
    \/ op[p].step \in {"content", "reread"} /\ op[p].job = j

\* Two agents never work on the same job, however their claims interleave
\* with each other, with the reaper and with crashes: claimJob's two
\* transactions and two reads hand a job to one caller only.
ClaimsExclusive ==
    \A p, q \in Proc, j \in issued :
        Holds(p, j) /\ Holds(q, j) => p = q

\* Every acknowledged record is the one that closed the job: two agents are
\* never both told `recorded', and the history has the row.
RecordsAcknowledgedOnce ==
    \A p \in Proc, j \in issued : answer[p] = Reply("recorded", j) =>
        /\ RecordedBy(j) # {}
        /\ \A q \in Proc : answer[q] = Reply("recorded", j) => p = q

\* A claim that answers `corrupt' leaves no job behind in state running: the
\* engine closed it, or somebody had.
CorruptIsClosed ==
    \A p \in Proc, j \in issued :
        answer[p] = Reply("corrupt", j) => j \notin Active

\* The engines drive the tables through the transactions of JobStore only,
\* with arguments those admit: stale frames never produce a row, a stamp or
\* an execution the store's properties do not cover.
EnginesUseStore == Spec

Waiting(p, j) ==
    /\ op[p].step \in {"reap", "claim", "sleep"}
    /\ jobs[j].hash.ext \in op[p].exts

\* An agent waiting on the queue does not sleep through work for it.
WaiterTakesWork ==
    \A p \in Proc, j \in JobId :
        (j \in InStatus("queued") /\ Waiting(p, j))
            ~> (j \notin InStatus("queued") \/ ~Waiting(p, j))

\* A job whose agent vanished is given up once its TTL is over, as long as
\* somebody keeps waiting on the queue (within the bound of the clock).
AbandonedIsReaped ==
    \A p \in Proc, j \in JobId :
        (/\ j \in InStatus("running") /\ jobs[j].expires # Null
         /\ jobs[j].expires < MaxTime /\ Waiting(p, j))
            ~> (j \notin InStatus("running") \/ ~Waiting(p, j))

\* Every engine comes to an answer, a claim that waits excepted: whatever
\* became of the rows it had read, one of its steps applies.  (An insert may
\* run out of the finitely many job ids.)
EnginesFinish ==
    \A p \in Proc :
        ~At(p, "idle") ~> \/ op[p].step \in {"idle", "sleep"}
                          \/ At(p, "insert") /\ issued = JobId
=============================================================================
