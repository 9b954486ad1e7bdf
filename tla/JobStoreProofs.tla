--------------------------- MODULE JobStoreProofs ---------------------------
(***************************************************************************)
(* What holds of the queue tables for every set of jobs, extensions,       *)
(* nodes, inputs and findings, and for an unbounded clock.                 *)
(***************************************************************************)
EXTENDS JobStore, TLAPS

USE StoreAssumption

\* A row and its columns: types, and the coherence that keeps them.  The
\* claim stamp an execution copies is a number only because the row is
\* running, so neither half is inductive without the other.
Typed == Shapes /\ RowsAgree

-----------------------------------------------------------------------------
(***************************************************************************)
(* Rows.                                                                   *)
(***************************************************************************)

\* A closing turns a coherent live row into a coherent terminal one.
LEMMA ClosedRow ==
    ASSUME NEW r \in Job, RowCoherent(r), r.status \in ActiveStatus,
           NEW s \in TerminalStatus, NEW why \in Reason \cup {Null}, NEW t \in Nat,
           why # Null <=> s = "failed",
           s = "completed" => r.status = "running"
    PROVE  Closed(r, s, why, t) \in Job /\ RowCoherent(Closed(r, s, why, t))
  <1> DEFINE c == Closed(r, s, why, t)
  <1>1. c \in Job
    BY DEF Closed, Job
  <1>2. /\ c.status = s /\ c.reason = why /\ c.finished = t
        /\ c.claimed = r.claimed /\ c.expires = r.expires /\ c.ttl = r.ttl
    BY DEF Closed, Job
  <1>3. t # Null /\ s \notin ActiveStatus /\ r.status \in {"queued", "running"}
    BY DEF ActiveStatus, TerminalStatus
  <1>4. RowCoherent(c)
    BY <1>2, <1>3 DEF RowCoherent, ActiveStatus, TerminalStatus
  <1> QED BY <1>1, <1>4

\* A closing writes three columns and no other.
LEMMA ClosedColumns ==
    ASSUME NEW r \in Job, NEW s, NEW why, NEW t
    PROVE  /\ Closed(r, s, why, t).status = s
           /\ Closed(r, s, why, t).reason = why
           /\ Closed(r, s, why, t).finished = t
           /\ Closed(r, s, why, t).hash = r.hash
  BY DEF Closed, Job

\* What a submit prepares is a coherent queued row.
LEMMA NewRow ==
    ASSUME NEW t \in Nat, NEW r \in NewRows(t)
    PROVE  /\ r \in Job /\ RowCoherent(r)
           /\ r.status = "queued" /\ r.created = t
           /\ r.hash \in Hash /\ r.findings \in Target
  <1>1. PICK h \in Hash, f \in Target, af \in BOOLEAN, p \in Priority,
             ttl \in Ttl \cup {Null} : r = NewJob(h, h.node, f, af, p, ttl, t)
    BY DEF NewRows
  <1>2. r \in Job
    BY <1>1 DEF NewJob, Job, Hash, ActiveStatus
  <1>3. RowCoherent(r)
    BY <1>1 DEF NewJob, RowCoherent, ActiveStatus, Reason
  <1> QED BY <1>1, <1>2, <1>3 DEF NewJob, Job

-----------------------------------------------------------------------------
(***************************************************************************)
(* Type correctness.                                                       *)
(***************************************************************************)
LEMMA CloseTyped ==
    ASSUME Typed, NEW S \in SUBSET Active, NEW s \in TerminalStatus,
           NEW why \in Reason \cup {Null}, NEW t \in Nat,
           why # Null <=> s = "failed", s # "completed",
           Close(S, s, why, t)
    PROVE  Typed'
  <1>1. \A j \in S : /\ Closed(jobs[j], s, why, t) \in Job
                     /\ RowCoherent(Closed(jobs[j], s, why, t))
    BY ClosedRow DEF Typed, Shapes, RowsAgree, Active
  <1>2. /\ Live' = Live
        /\ \A j \in Live : jobs'[j] \in Job /\ RowCoherent(jobs'[j])
    BY <1>1 DEF Close, Live, Typed, Shapes, RowsAgree
  <1>3. jobs' \in [Live -> Job]
    BY <1>2 DEF Close
  <1> QED BY <1>2, <1>3 DEF Close, Typed, Shapes, RowsAgree

LEMMA EnqueueTyped ==
    ASSUME Typed, NEW id \in JobId, NEW t \in Nat, NEW r \in NewRows(t),
           NEW stale \in SUBSET InStatus("queued"), Enqueue(id, r, stale)
    PROVE  Typed'
  <1>1. /\ r \in Job /\ RowCoherent(r) /\ r.created = t /\ r.hash \in Hash
    BY NewRow
  <1>2. \A j \in stale :
           /\ Closed(jobs[j], "cancelled", Null, t) \in Job
           /\ RowCoherent(Closed(jobs[j], "cancelled", Null, t))
    <2> TAKE j \in stale
    <2>1. jobs[j] \in Job /\ RowCoherent(jobs[j]) /\ jobs[j].status = "queued"
      BY DEF InStatus, Typed, Shapes, RowsAgree
    <2> QED BY <2>1, ClosedRow DEF ActiveStatus, TerminalStatus, Reason, RecordReason
  <1>3. /\ Live' = Live \cup {id}
        /\ \A j \in Live' : jobs'[j] \in Job /\ RowCoherent(jobs'[j])
    BY <1>1, <1>2 DEF Enqueue, Live, Typed, Shapes, RowsAgree
  <1>4. jobs' \in [Live' -> Job]
    BY <1>3 DEF Enqueue, Live
  <1>5. contents' \subseteq Hash /\ Live' \subseteq issued' /\ issued' \subseteq JobId
    BY <1>1, <1>3 DEF Enqueue, Typed, Shapes
  <1> QED BY <1>3, <1>4, <1>5 DEF Enqueue, Typed, Shapes, RowsAgree

LEMMA ClaimTyped ==
    ASSUME Typed, NEW j \in Live, NEW exts, NEW t \in Nat, ClaimNext(j, exts, t)
    PROVE  Typed'
  <1>1. j \in InStatus("queued")
    BY DEF ClaimNext, NextUp, Claimable
  <1>2. jobs[j] \in Job /\ RowCoherent(jobs[j]) /\ jobs[j].status = "queued"
    BY <1>1 DEF InStatus, Typed, Shapes, RowsAgree
  <1> DEFINE e == IF jobs[j].ttl = Null THEN Null ELSE t + jobs[j].ttl
             r == [jobs[j] EXCEPT !.status = "running", !.claimed = t,
                                  !.expires = e]
  <1>5. jobs' = [jobs EXCEPT ![j] = r]
    BY <1>2 DEF ClaimNext, Typed, Shapes, Job
  <1>6. e \in Nat \cup {Null} /\ (e # Null <=> jobs[j].ttl # Null)
    <2>1. jobs[j].ttl = Null \/ jobs[j].ttl \in Nat
      BY <1>2 DEF Job
    <2>2. CASE jobs[j].ttl = Null
      BY <2>2
    <2>3. CASE jobs[j].ttl \in Nat
      <3>1. t + jobs[j].ttl \in Nat /\ Null \notin Nat
        BY <2>3
      <3> QED BY <2>3, <3>1
    <2> QED BY <2>1, <2>2, <2>3
  <1>7. r \in Job
    BY <1>2, <1>6 DEF Job, ActiveStatus
  <1>8. /\ r.status = "running" /\ r.claimed = t /\ r.expires = e
        /\ r.ttl = jobs[j].ttl /\ r.reason = jobs[j].reason
        /\ r.finished = jobs[j].finished
    BY <1>2 DEF Job
  <1>9. RowCoherent(r)
    BY <1>2, <1>6, <1>8 DEF RowCoherent, ActiveStatus
  <1>3. Live' = Live /\ jobs' \in [Live -> Job] /\ RowCoherent(jobs'[j])
    BY <1>5, <1>7, <1>9 DEF Live, Typed, Shapes
  <1>4. \A k \in Live : RowCoherent(jobs'[k])
    BY <1>3 DEF ClaimNext, Typed, Shapes, RowsAgree
  <1> QED BY <1>3, <1>4 DEF ClaimNext, Typed, Shapes, RowsAgree

LEMMA RecordTyped ==
    ASSUME Typed, NEW j \in Live, NEW t \in Nat,
           NEW s \in {"completed", "failed"}, NEW why \in Reason \cup {Null},
           why # Null <=> s = "failed",
           RecordJobTerminal(j, s, why, jobs[j].claimed, t)
    PROVE  Typed'
  <1>1. /\ jobs[j] \in Job /\ RowCoherent(jobs[j])
        /\ jobs[j].status = "running" /\ jobs[j].claimed \in Nat
    BY DEF RecordJobTerminal, InStatus, Typed, Shapes, RowsAgree, RowCoherent, Job
  <1>2. /\ Closed(jobs[j], s, why, t) \in Job
        /\ RowCoherent(Closed(jobs[j], s, why, t))
    BY <1>1, ClosedRow DEF ActiveStatus, TerminalStatus, Reason, RecordReason
  <1>3. /\ Live' = Live /\ jobs' \in [Live -> Job]
        /\ \A k \in Live : RowCoherent(jobs'[k])
    BY <1>2 DEF RecordJobTerminal, Live, Typed, Shapes, RowsAgree
  <1>4. executions' \in Seq(Execution)
    <2>1. [job |-> j, status |-> s, reason |-> why,
           started |-> jobs[j].claimed, finished |-> t] \in Execution
      BY <1>1 DEF Execution, Typed, Shapes
    <2> QED BY <2>1 DEF RecordJobTerminal, Typed, Shapes
  <1> QED BY <1>3, <1>4 DEF RecordJobTerminal, Typed, Shapes, RowsAgree

LEMMA PruneTyped ==
    ASSUME Typed, NEW s, NEW cutoff, PruneTerminalJobs(s, cutoff)
    PROVE  Typed'
  <1>1. Live' \subseteq Live /\ jobs' = [j \in Live' |-> jobs[j]]
    BY DEF PruneTerminalJobs, Live
  <1>2. jobs' \in [Live' -> Job] /\ \A j \in Live' : RowCoherent(jobs'[j])
    BY <1>1 DEF Typed, Shapes, RowsAgree
  <1> QED BY <1>1, <1>2 DEF PruneTerminalJobs, Typed, Shapes, RowsAgree

LEMMA MigrateTyped ==
    ASSUME Typed, NEW from \in Node, NEW to \in Node, MigrateJobs(from, to)
    PROVE  Typed'
  <1>1. ASSUME NEW r \in Job, RowCoherent(r)
        PROVE  /\ [r EXCEPT !.node = to] \in Job
               /\ RowCoherent([r EXCEPT !.node = to])
    <2> DEFINE m == [r EXCEPT !.node = to]
    <2>1. m \in Job
      BY DEF Job
    <2>2. /\ m.status = r.status /\ m.claimed = r.claimed /\ m.ttl = r.ttl
          /\ m.finished = r.finished /\ m.expires = r.expires
          /\ m.reason = r.reason
      BY DEF Job
    <2> QED BY <1>1, <2>1, <2>2 DEF RowCoherent
  <1>2. /\ Live' = Live /\ jobs' \in [Live -> Job]
        /\ \A j \in Live : RowCoherent(jobs'[j])
    BY <1>1 DEF MigrateJobs, Live, Typed, Shapes, RowsAgree
  <1> QED BY <1>2 DEF MigrateJobs, Typed, Shapes, RowsAgree

LEMMA ActionTyped ==
    ASSUME Typed, [Next]_storeVars
    PROVE  Typed'
  <1>1. CASE UNCHANGED storeVars
    BY <1>1 DEF storeVars, Typed, Shapes, RowsAgree, Live
  <1>2. CASE Tick
    BY <1>2 DEF Tick, Typed, Shapes, RowsAgree, Live
  <1>3. CASE Submit
    <2>1. PICK id \in JobId, t \in Stamp : \E r \in NewRows(t) :
              SubmitJob(id, r) \/ SubmitFixerJob(id, r)
      BY <1>3 DEF Submit
    <2>2. PICK r \in NewRows(t) : SubmitJob(id, r) \/ SubmitFixerJob(id, r)
      BY <2>1
    <2>3. t \in Nat
      BY DEF Stamp, Typed, Shapes
    <2>4. CASE SubmitJob(id, r)
      BY <2>3, <2>4, EnqueueTyped DEF SubmitJob
    <2>5. CASE SubmitFixerJob(id, r)
      <3>1. Stale(r) \subseteq InStatus("queued")
        BY DEF Stale, Siblings
      <3> QED BY <2>3, <2>5, <3>1, EnqueueTyped DEF SubmitFixerJob
    <2> QED BY <2>2, <2>4, <2>5
  <1>4. CASE Claim
    BY <1>4, ClaimTyped DEF Claim, Stamp, Typed, Shapes
  <1>5. CASE Reap
    <2>1. PICK t \in Stamp : Close(Expired(t), "failed", "abandoned", t)
      BY <1>5 DEF Reap, ReapExpired
    <2>2. t \in Nat
      BY DEF Stamp, Typed, Shapes
    <2>3. /\ Expired(t) \subseteq Active
          /\ \A j \in Expired(t) : jobs[j].expires # Null /\ jobs[j].expires < t
      BY DEF Expired, InStatus, Active, ActiveStatus
    <2> QED BY <2>1, <2>2, <2>3, CloseTyped
            DEF TerminalStatus, Reason, RecordReason
  <1>6. CASE Cancel
    <2>1. PICK t \in Stamp, S \in SUBSET Active : Close(S, "cancelled", Null, t)
      <3>1. PICK t \in Stamp :
                CancelAllActive(t) \/ \E j \in Live : CancelJob(j, t)
        BY <1>6 DEF Cancel
      <3> QED BY <3>1 DEF CancelAllActive, CancelJob
    <2>2. t \in Nat
      BY DEF Stamp, Typed, Shapes
    <2> QED BY <2>1, <2>2, CloseTyped DEF TerminalStatus, Reason, RecordReason
  <1>7. CASE Fail
    <2>1. PICK t \in Stamp, S \in SUBSET Active :
              Close(S, "failed", "user-failed", t)
      <3>1. PICK t \in Stamp : FailAllActive(t) \/ \E j \in Live : FailJob(j, t)
        BY <1>7 DEF Fail
      <3> QED BY <3>1 DEF FailAllActive, FailJob
    <2>2. t \in Nat
      BY DEF Stamp, Typed, Shapes
    <2> QED BY <2>1, <2>2, CloseTyped DEF TerminalStatus, Reason, RecordReason
  <1>8. CASE Record
    <2>1. PICK j \in Live, t \in Stamp, s \in {"completed", "failed"},
               why \in Reason \cup {Null} :
              /\ why # Null <=> s = "failed"
              /\ RecordJobTerminal(j, s, why, jobs[j].claimed, t)
      BY <1>8 DEF Record, FailReason, Reason, RecordReason
    <2>2. t \in Nat
      BY DEF Stamp, Typed, Shapes
    <2> QED BY <2>1, <2>2, RecordTyped
  <1>9. CASE Prune
    BY <1>9, PruneTyped DEF Prune
  <1>10. CASE Migrate
    <2>1. PICK p \in Renames : MigrateJobs(p[1], p[2])
      BY <1>10 DEF Migrate
    <2>2. p[1] \in Node /\ p[2] \in Node
      BY <2>1
    <2> QED BY <2>1, <2>2, MigrateTyped
  <1> QED BY <1>1, <1>2, <1>3, <1>4, <1>5, <1>6, <1>7, <1>8, <1>9, <1>10 DEF Next

LEMMA AlwaysTyped == Spec => []Typed
  <1>1. Init => Typed
    BY DEF Init, Typed, Shapes, RowsAgree, Live, Job
  <1>2. Typed /\ [Next]_storeVars => Typed'
    BY ActionTyped
  <1> QED BY <1>1, <1>2, PTL DEF Spec

\* The three stamps of a row that record what happened to it.
Stamped(r) == {r.created, r.claimed, r.finished} \subseteq Past \cup {Null}

\* A closing stamps a row with an instant that has come.
LEMMA ClosedStamped ==
    ASSUME NEW r \in Job, Stamped(r), NEW s, NEW why, NEW t \in Stamp
    PROVE  Stamped(Closed(r, s, why, t))
  <1>1. /\ Closed(r, s, why, t).created = r.created
        /\ Closed(r, s, why, t).claimed = r.claimed
        /\ Closed(r, s, why, t).finished = t
    BY DEF Closed, Job
  <1> QED BY <1>1 DEF Stamped, Stamp, Past

\* While the clock stands, the stamps are those of the rows and executions.
LEMMA StampsFromRows ==
    ASSUME now' = now, \A j \in Live' : Stamped(jobs'[j]),
           \A i \in DOMAIN executions' :
               {executions'[i].started, executions'[i].finished} \subseteq Past
    PROVE  StampsPast'
  BY DEF StampsPast, Stamped, Past

LEMMA CloseStamped ==
    ASSUME Typed, StampsPast, NEW S, NEW s, NEW why, NEW t \in Stamp,
           Close(S, s, why, t)
    PROVE  StampsPast'
  <1>1. \A j \in Live : jobs[j] \in Job /\ Stamped(jobs[j])
    BY DEF Typed, Shapes, StampsPast, Stamped
  <1>2. \A j \in Live' : Stamped(jobs'[j])
    BY <1>1, ClosedStamped DEF Close, Live
  <1>3. \A i \in DOMAIN executions' :
            {executions'[i].started, executions'[i].finished} \subseteq Past
    BY DEF Close, StampsPast
  <1> QED BY <1>2, <1>3, StampsFromRows DEF Close

LEMMA EnqueueStamped ==
    ASSUME Typed, StampsPast, NEW t \in Stamp, NEW r \in NewRows(t),
           NEW id, NEW stale, Enqueue(id, r, stale)
    PROVE  StampsPast'
  <1>1. \A j \in Live : jobs[j] \in Job /\ Stamped(jobs[j])
    BY DEF Typed, Shapes, StampsPast, Stamped
  <1>2. Stamped(r) /\ r.created = t
    BY DEF NewRows, NewJob, Stamped, Stamp, Past
  <1>3. \A j \in Live' : Stamped(jobs'[j])
    BY <1>1, <1>2, ClosedStamped DEF Enqueue, Live
  <1>4. \A i \in DOMAIN executions' :
            {executions'[i].started, executions'[i].finished} \subseteq Past
    BY DEF Enqueue, StampsPast
  <1> QED BY <1>3, <1>4, StampsFromRows DEF Enqueue

LEMMA ClaimStamped ==
    ASSUME Typed, StampsPast, NEW j \in Live, NEW exts,
           NEW t \in Stamp, ClaimNext(j, exts, t)
    PROVE  StampsPast'
  <1>1. \A k \in Live : jobs[k] \in Job /\ Stamped(jobs[k])
    BY DEF Typed, Shapes, StampsPast, Stamped
  <1>2. /\ Live' = Live /\ jobs'[j].created = jobs[j].created
        /\ jobs'[j].claimed = t /\ jobs'[j].finished = jobs[j].finished
        /\ \A k \in Live \ {j} : jobs'[k] = jobs[k]
    BY <1>1 DEF ClaimNext, Live, Job
  <1>3. \A k \in Live' : Stamped(jobs'[k])
    BY <1>1, <1>2 DEF Stamped, Stamp, Past
  <1>4. \A i \in DOMAIN executions' :
            {executions'[i].started, executions'[i].finished} \subseteq Past
    BY DEF ClaimNext, StampsPast
  <1> QED BY <1>3, <1>4, StampsFromRows DEF ClaimNext

LEMMA RecordStamped ==
    ASSUME Typed, StampsPast, NEW j \in Live, NEW s, NEW why,
           NEW t \in Stamp, RecordJobTerminal(j, s, why, jobs[j].claimed, t)
    PROVE  StampsPast'
  <1>1. \A k \in Live : jobs[k] \in Job /\ Stamped(jobs[k])
    BY DEF Typed, Shapes, StampsPast, Stamped
  <1>2. jobs[j].claimed \in Past
    <2>1. jobs[j].status = "running" /\ RowCoherent(jobs[j])
      BY DEF RecordJobTerminal, InStatus, Typed, RowsAgree
    <2> QED BY <1>1, <2>1 DEF RowCoherent, Stamped
  <1>3. \A k \in Live' : Stamped(jobs'[k])
    BY <1>1, ClosedStamped DEF RecordJobTerminal, Live
  <1>4. \A i \in DOMAIN executions' :
            {executions'[i].started, executions'[i].finished} \subseteq Past
    <2> DEFINE e == [job |-> j, status |-> s, reason |-> why,
                     started |-> jobs[j].claimed, finished |-> t]
    <2>1. executions' = Append(executions, e) /\ executions \in Seq(Execution)
      BY DEF RecordJobTerminal, Typed, Shapes
    <2>2. e.started \in Past /\ e.finished \in Past
      BY <1>2 DEF Stamp, Past
    <2>3. \A i \in DOMAIN executions' :
              IF i \in DOMAIN executions THEN executions'[i] = executions[i]
                                         ELSE executions'[i] = e
      <3> HIDE DEF e
      <3> QED BY <2>1
    <2> HIDE DEF e
    <2> QED BY <2>2, <2>3 DEF StampsPast
  <1> QED BY <1>3, <1>4, StampsFromRows DEF RecordJobTerminal

LEMMA PruneStamped ==
    ASSUME StampsPast, NEW s, NEW cutoff, PruneTerminalJobs(s, cutoff)
    PROVE  StampsPast'
  <1>1. \A j \in Live' : Stamped(jobs'[j])
    BY DEF PruneTerminalJobs, StampsPast, Stamped, Live
  <1>2. \A i \in DOMAIN executions' :
            {executions'[i].started, executions'[i].finished} \subseteq Past
    BY DEF PruneTerminalJobs, StampsPast
  <1> QED BY <1>1, <1>2, StampsFromRows DEF PruneTerminalJobs

LEMMA MigrateStamped ==
    ASSUME Typed, StampsPast, NEW from, NEW to, MigrateJobs(from, to)
    PROVE  StampsPast'
  <1>1. ASSUME NEW j \in Live PROVE Live' = Live /\ Stamped(jobs'[j])
    <2>1. jobs[j] \in Job /\ Stamped(jobs[j])
      BY DEF Typed, Shapes, StampsPast, Stamped
    <2> DEFINE m == [jobs[j] EXCEPT !.node = to]
    <2>2. /\ m.created = jobs[j].created /\ m.claimed = jobs[j].claimed
          /\ m.finished = jobs[j].finished
      BY <2>1 DEF Job
    <2>3. Live' = Live /\ jobs'[j] \in {m, jobs[j]}
      BY DEF MigrateJobs, Live
    <2> QED BY <2>1, <2>2, <2>3 DEF Stamped
  <1>2. \A j \in Live' : Stamped(jobs'[j])
    BY <1>1 DEF MigrateJobs, Live
  <1>3. \A i \in DOMAIN executions' :
            {executions'[i].started, executions'[i].finished} \subseteq Past
    BY DEF MigrateJobs, StampsPast
  <1> QED BY <1>2, <1>3, StampsFromRows DEF MigrateJobs

\* No step stamps a row or an execution ahead of the clock, and the clock
\* never runs back over a stamp.
LEMMA ActionStamped ==
    ASSUME Typed, StampsPast, [Next]_storeVars
    PROVE  StampsPast'
  <1>1. CASE UNCHANGED storeVars
    BY <1>1 DEF storeVars, StampsPast, Live, Past
  <1>2. CASE Tick
    <2>1. now \in Nat /\ Past \subseteq Past'
      BY <1>2 DEF Tick, Past, Typed, Shapes
    <2> QED BY <1>2, <2>1 DEF Tick, StampsPast, Live
  <1>3. CASE Submit
    BY <1>3, EnqueueStamped DEF Submit, SubmitJob, SubmitFixerJob
  <1>4. CASE Claim
    BY <1>4, ClaimStamped DEF Claim
  <1>5. CASE Reap
    BY <1>5, CloseStamped DEF Reap, ReapExpired
  <1>6. CASE Cancel
    BY <1>6, CloseStamped DEF Cancel, CancelAllActive, CancelJob
  <1>7. CASE Fail
    BY <1>7, CloseStamped DEF Fail, FailAllActive, FailJob
  <1>8. CASE Record
    BY <1>8, RecordStamped DEF Record
  <1>9. CASE Prune
    BY <1>9, PruneStamped DEF Prune
  <1>10. CASE Migrate
    BY <1>10, MigrateStamped DEF Migrate
  <1> QED BY <1>1, <1>2, <1>3, <1>4, <1>5, <1>6, <1>7, <1>8, <1>9, <1>10 DEF Next

\* Every reachable table has the schema's types: no transaction of jobs.ts,
\* in any order and with timestamps captured any time before it runs, leaves
\* a column outside its CHECK, an execution without a claim stamp to copy, or
\* a row that says it was submitted, claimed or closed at a later instant.
THEOREM TypeCorrect == Spec => []TypeOK
  <1>1. Init => StampsPast
    BY DEF Init, StampsPast, Live
  <1>2. Typed /\ StampsPast /\ [Next]_storeVars => StampsPast'
    BY ActionStamped
  <1> QED BY <1>1, <1>2, AlwaysTyped, PTL DEF Spec, Typed, TypeOK

-----------------------------------------------------------------------------
(***************************************************************************)
(* Deadlines.                                                              *)
(***************************************************************************)

\* What it takes of a step: the executions stay, and a row that becomes
\* `abandoned' does so by a record or past its deadline.
LEMMA LateKept ==
    ASSUME ReapedLate,
           \A i \in DOMAIN executions : i \in DOMAIN executions'
                                       /\ executions'[i] = executions[i],
           \A j \in Live' :
              \/ /\ j \in Live /\ jobs'[j].reason = jobs[j].reason
                 /\ jobs'[j].expires = jobs[j].expires
                 /\ jobs'[j].finished = jobs[j].finished
              \/ jobs'[j].reason # "abandoned"
              \/ \E i \in DOMAIN executions' : executions'[i].job = j
              \/ jobs'[j].expires # Null /\ jobs'[j].expires < jobs'[j].finished
    PROVE  ReapedLate'
  BY DEF ReapedLate, RecordedBy

LEMMA CloseLate ==
    ASSUME Typed, ReapedLate, NEW S \in SUBSET Active, NEW s, NEW why, NEW t,
           why = "abandoned" =>
               \A j \in S : jobs[j].expires # Null /\ jobs[j].expires < t,
           Close(S, s, why, t)
    PROVE  ReapedLate'
  <1>1. /\ Live' = Live /\ executions' = executions
        /\ \A j \in Live \ S : jobs'[j] = jobs[j]
    BY DEF Close, Live
  <1>2. \A j \in S : /\ jobs'[j].reason = why /\ jobs'[j].finished = t
                     /\ jobs'[j].expires = jobs[j].expires
    BY DEF Close, Closed, Job, Active, Typed, Shapes
  <1> QED BY <1>1, <1>2, LateKept

LEMMA EnqueueLate ==
    ASSUME Typed, ReapedLate, NEW t \in Nat, NEW r \in NewRows(t),
           NEW id, NEW stale \in SUBSET Live, Enqueue(id, r, stale)
    PROVE  ReapedLate'
  <1>1. /\ Live' = Live \cup {id} /\ executions' = executions
        /\ id \notin Live /\ jobs'[id] = r
        /\ \A j \in Live \ stale : jobs'[j] = jobs[j]
    BY DEF Enqueue, Live, Typed, Shapes
  <1>2. ASSUME NEW j \in stale PROVE jobs'[j].reason = Null
    <2>1. jobs[j] \in Job /\ jobs'[j] = Closed(jobs[j], "cancelled", Null, r.created)
      BY <1>1 DEF Enqueue, Live, Typed, Shapes
    <2> QED BY <2>1, ClosedColumns
  <1>3. r.reason = Null
    BY DEF NewRows, NewJob
  <1>4. Null # "abandoned"
    BY DEF Reason
  <1> QED BY <1>1, <1>2, <1>3, <1>4, LateKept

LEMMA ClaimLate ==
    ASSUME Typed, ReapedLate, NEW j \in Live, NEW exts, NEW t,
           ClaimNext(j, exts, t)
    PROVE  ReapedLate'
  <1>1. j \in InStatus("queued")
    BY DEF ClaimNext, NextUp, Claimable
  <1>2. jobs[j] \in Job /\ jobs[j].reason # "abandoned"
    BY <1>1 DEF InStatus, Typed, Shapes, RowsAgree, RowCoherent, Reason
  <1>3. /\ Live' = Live /\ executions' = executions
        /\ \A k \in Live \ {j} : jobs'[k] = jobs[k]
        /\ jobs'[j].reason = jobs[j].reason
    BY <1>2 DEF ClaimNext, Live, Job
  <1> QED BY <1>2, <1>3, LateKept

LEMMA RecordLate ==
    ASSUME Typed, ReapedLate, NEW j \in Live, NEW s, NEW why, NEW t,
           RecordJobTerminal(j, s, why, jobs[j].claimed, t)
    PROVE  ReapedLate'
  <1> DEFINE e == [job |-> j, status |-> s, reason |-> why,
                   started |-> jobs[j].claimed, finished |-> t]
             last == Len(executions) + 1
  <1>1. e.job = j
    OBVIOUS
  <1>2. executions' = Append(executions, e) /\ executions \in Seq(Execution)
    BY DEF RecordJobTerminal, Typed, Shapes
  <1>3. Live' = Live /\ \A k \in Live \ {j} : jobs'[k] = jobs[k]
    BY DEF RecordJobTerminal, Live
  <1> HIDE DEF e
  <1>4. /\ \A i \in DOMAIN executions : i \in DOMAIN executions'
                                       /\ executions'[i] = executions[i]
        /\ last \in DOMAIN executions' /\ executions'[last] = e
    BY <1>2
  <1> QED BY <1>1, <1>3, <1>4, LateKept

LEMMA MigrateLate ==
    ASSUME Typed, ReapedLate, NEW from, NEW to, MigrateJobs(from, to)
    PROVE  ReapedLate'
  <1>1. Live' = Live /\ executions' = executions
    BY DEF MigrateJobs, Live
  <1>2. \A j \in Live : /\ jobs'[j].reason = jobs[j].reason
                        /\ jobs'[j].expires = jobs[j].expires
                        /\ jobs'[j].finished = jobs[j].finished
    BY DEF MigrateJobs, Job, Typed, Shapes
  <1> QED BY <1>1, <1>2, LateKept

\* Only the reaper gives a job up by itself, and only past the deadline.
LEMMA ActionLate ==
    ASSUME Typed, ReapedLate, [Next]_storeVars
    PROVE  ReapedLate'
  <1>0. \A t \in Stamp : t \in Nat
    BY DEF Stamp, Typed, Shapes
  <1>1. CASE Tick \/ UNCHANGED storeVars
    BY <1>1 DEF Tick, storeVars, ReapedLate, RecordedBy, Live
  <1>2. CASE Submit
    <2>1. \A r : Stale(r) \in SUBSET Live
      BY DEF Stale, Siblings, InStatus
    <2> QED BY <1>0, <1>2, <2>1, EnqueueLate DEF Submit, SubmitJob, SubmitFixerJob
  <1>3. CASE Claim
    BY <1>3, ClaimLate DEF Claim
  <1>4. CASE Reap
    <2>1. PICK t \in Stamp : Close(Expired(t), "failed", "abandoned", t)
      BY <1>4 DEF Reap, ReapExpired
    <2>2. /\ Expired(t) \subseteq Active
          /\ \A j \in Expired(t) : jobs[j].expires # Null /\ jobs[j].expires < t
      BY DEF Expired, InStatus, Active, ActiveStatus
    <2> QED BY <2>1, <2>2, CloseLate
  <1>5. CASE Cancel \/ Fail
    <2>1. PICK t \in Stamp, S \in SUBSET Active, why \in {Null, "user-failed"} :
              \E s : Close(S, s, why, t)
      BY <1>5 DEF Cancel, CancelAllActive, CancelJob, Fail, FailAllActive, FailJob
    <2>2. why # "abandoned"
      BY DEF Reason
    <2> QED BY <2>1, <2>2, CloseLate
  <1>6. CASE Record
    BY <1>6, RecordLate DEF Record
  <1>7. CASE Prune
    <2>1. /\ Live' \subseteq Live /\ \A j \in Live' : jobs'[j] = jobs[j]
          /\ executions' = executions
      BY <1>7 DEF Prune, PruneTerminalJobs, Live
    <2> QED BY <2>1, LateKept
  <1>8. CASE Migrate
    BY <1>8, MigrateLate DEF Migrate
  <1> QED BY <1>1, <1>2, <1>3, <1>4, <1>5, <1>6, <1>7, <1>8 DEF Next

\* A row's columns tell one story: what the status says of the claim, the
\* expiry, the reason and the closing stamp is what those columns hold, and
\* a job nobody recorded is `abandoned' after its deadline only.
THEOREM RowsTellOneStory == Spec => []RowsCoherent
  <1>1. Init => ReapedLate
    BY DEF Init, ReapedLate, Live
  <1>2. Typed /\ ReapedLate /\ [Next]_storeVars => ReapedLate'
    BY ActionLate
  <1> QED BY <1>1, <1>2, AlwaysTyped, PTL DEF Spec, Typed, RowsCoherent

-----------------------------------------------------------------------------
(***************************************************************************)
(* The shapes of a step.  Everything below is about a handful of columns,  *)
(* so a step is one of: nothing, an admission, a claim, a closing, a       *)
(* record, a prune, a move.                                                *)
(***************************************************************************)
Admits(id, r, stale) ==
    /\ id \in JobId \ issued
    /\ r \in Job /\ r.status = "queued"
    /\ stale \subseteq InStatus("queued")
    /\ r.hash.ext \notin Fixer => stale = {}
    /\ r.hash.ext \in Fixer => Siblings(r, "running") = {}
                               /\ Siblings(r, "queued") \subseteq stale
    /\ Enqueue(id, r, stale)

Claims(j) == \E exts \in SUBSET Ext, t \in Nat : ClaimNext(j, exts, t)

\* Closings leave no execution, so they never carry a record's verdict.
Closes(S) ==
    \E s \in {"failed", "cancelled"}, why \in {Null, "abandoned", "user-failed"},
       t \in Nat :
        Close(S, s, why, t)

Records(j) ==
    \E s \in {"completed", "failed"}, why \in Reason \cup {Null}, t \in Nat :
        RecordJobTerminal(j, s, why, jobs[j].claimed, t)

Moves == \E from, to \in Node : <<from, to>> \in Renames /\ MigrateJobs(from, to)

Prunes == \E s \in TerminalStatus, cutoff \in Nat : PruneTerminalJobs(s, cutoff)

LEMMA StepShapes ==
    ASSUME Typed, Next
    PROVE  \/ UNCHANGED <<jobs, contents, executions, issued>>
           \/ \E id \in JobId, r \in Job : \E stale \in SUBSET Live :
                  Admits(id, r, stale)
           \/ \E j \in Live : Claims(j)
           \/ \E S \in SUBSET Active : Closes(S)
           \/ \E j \in Live : Records(j)
           \/ Prunes
           \/ Moves
  <1>0. now \in Nat /\ \A t \in Stamp : t \in Nat
    BY DEF Typed, Shapes, Stamp
  <1>1. CASE Tick
    BY <1>1 DEF Tick
  <1>2. CASE Submit
    <2>1. PICK id \in JobId, t \in Stamp : \E r \in NewRows(t) :
              SubmitJob(id, r) \/ SubmitFixerJob(id, r)
      BY <1>2 DEF Submit
    <2>2. PICK r \in NewRows(t) : SubmitJob(id, r) \/ SubmitFixerJob(id, r)
      BY <2>1
    <2>3. r \in Job /\ r.status = "queued"
      BY <1>0, NewRow
    <2>4. CASE SubmitJob(id, r)
      <3>1. Admits(id, r, {})
        BY <2>3, <2>4 DEF SubmitJob, Admits, Enqueue
      <3> QED BY <2>3, <3>1
    <2>5. CASE SubmitFixerJob(id, r)
      <3>1. Stale(r) \in SUBSET Live /\ Siblings(r, "queued") \subseteq Stale(r)
            /\ Stale(r) \subseteq InStatus("queued")
        BY <2>5 DEF SubmitFixerJob, Stale, Siblings, InStatus
      <3>2. Admits(id, r, Stale(r))
        BY <2>3, <2>5, <3>1 DEF SubmitFixerJob, Admits, Enqueue
      <3> QED BY <2>3, <3>1, <3>2
    <2> QED BY <2>2, <2>4, <2>5
  <1>3. CASE Claim
    BY <1>0, <1>3 DEF Claim, Claims
  <1>4. CASE Reap
    <2>1. PICK t \in Stamp : Close(Expired(t), "failed", "abandoned", t)
      BY <1>4 DEF Reap, ReapExpired
    <2>2. Expired(t) \in SUBSET Active
      BY DEF Expired, InStatus, Active, ActiveStatus
    <2> QED BY <1>0, <2>1, <2>2 DEF Closes
  <1>5. CASE Cancel
    <2>1. PICK t \in Stamp : CancelAllActive(t) \/ \E j \in Live : CancelJob(j, t)
      BY <1>5 DEF Cancel
    <2>2. \E S \in SUBSET Active : Close(S, "cancelled", Null, t)
      BY <2>1 DEF CancelAllActive, CancelJob
    <2> QED BY <1>0, <2>2 DEF Closes
  <1>6. CASE Fail
    <2>1. PICK t \in Stamp : FailAllActive(t) \/ \E j \in Live : FailJob(j, t)
      BY <1>6 DEF Fail
    <2>2. \E S \in SUBSET Active : Close(S, "failed", "user-failed", t)
      BY <2>1 DEF FailAllActive, FailJob
    <2> QED BY <1>0, <2>2 DEF Closes
  <1>7. CASE Record
    BY <1>0, <1>7 DEF Record, Records, FailReason, Reason, RecordReason
  <1>8. CASE Prune
    <2>1. PICK s \in TerminalStatus, cutoff \in 0 .. now + 1 :
              PruneTerminalJobs(s, cutoff)
      BY <1>8 DEF Prune
    <2>2. cutoff \in Nat
      BY <1>0
    <2> QED BY <2>1, <2>2 DEF Prunes
  <1>9. CASE Migrate
    <2>1. PICK p \in Renames : MigrateJobs(p[1], p[2])
      BY <1>9 DEF Migrate
    <2>2. p = <<p[1], p[2]>> /\ p[1] \in Node /\ p[2] \in Node
      BY <2>1
    <2> QED BY <2>1, <2>2 DEF Moves
  <1> QED BY <1>1, <1>2, <1>3, <1>4, <1>5, <1>6, <1>7, <1>8, <1>9 DEF Next

\* How each of those shapes changes the set of live jobs and the columns
\* the properties read.
LEMMA AdmitFrame ==
    ASSUME Typed, NEW id, NEW r, NEW stale, Admits(id, r, stale)
    PROVE  /\ id \notin Live /\ Live' = Live \cup {id} /\ jobs'[id] = r
           /\ Active' = (Active \ stale) \cup {id}
           /\ \A j \in Live \ stale : jobs'[j] = jobs[j]
           /\ \A j \in stale : /\ jobs'[j].status = "cancelled"
                               /\ jobs'[j].hash = jobs[j].hash
  <1>1. /\ id \notin Live /\ Live' = Live \cup {id} /\ jobs'[id] = r
        /\ \A j \in Live \ stale : jobs'[j] = jobs[j]
        /\ \A j \in stale : jobs'[j] = Closed(jobs[j], "cancelled", Null, r.created)
    BY DEF Admits, Enqueue, Live, InStatus, Typed, Shapes
  <1>2. \A j \in stale : /\ jobs'[j].status = "cancelled"
                         /\ jobs'[j].hash = jobs[j].hash
    <2> TAKE j \in stale
    <2>1. jobs[j] \in Job
      BY DEF Admits, InStatus, Typed, Shapes
    <2> QED BY <1>1, <2>1, ClosedColumns
  <1>3. Active' = (Active \ stale) \cup {id}
    BY <1>1, <1>2 DEF Active, ActiveStatus, Admits, InStatus
  <1> QED BY <1>1, <1>2, <1>3

LEMMA ClaimFrame ==
    ASSUME Typed, NEW j \in Live, Claims(j)
    PROVE  /\ Live' = Live /\ Active' = Active
           /\ jobs[j].status = "queued" /\ jobs'[j].status = "running"
           /\ \A k \in Live \ {j} : jobs'[k] = jobs[k]
           /\ jobs'[j].hash = jobs[j].hash /\ jobs'[j].node = jobs[j].node
           /\ jobs'[j].findings = jobs[j].findings
           /\ UNCHANGED <<contents, executions, issued>>
  <1>1. PICK exts \in SUBSET Ext, t \in Nat : ClaimNext(j, exts, t)
    BY DEF Claims
  <1>2. jobs[j] \in Job /\ jobs[j].status = "queued"
    BY <1>1 DEF ClaimNext, NextUp, Claimable, InStatus, Typed, Shapes
  <1> DEFINE e == IF jobs[j].ttl = Null THEN Null ELSE t + jobs[j].ttl
             r == [jobs[j] EXCEPT !.status = "running", !.claimed = t,
                                  !.expires = e]
  <1>3. jobs' = [jobs EXCEPT ![j] = r]
    BY <1>1, <1>2 DEF ClaimNext, Typed, Shapes, Job
  <1>4. /\ r.status = "running" /\ r.hash = jobs[j].hash
        /\ r.node = jobs[j].node /\ r.findings = jobs[j].findings
    BY <1>2 DEF Job
  <1>5. Live' = Live /\ jobs'[j] = r /\ \A k \in Live \ {j} : jobs'[k] = jobs[k]
    BY <1>3 DEF Live, Typed, Shapes
  <1>6. j \in Active /\ j \in Active'
    BY <1>2, <1>4, <1>5 DEF Active, ActiveStatus
  <1>7. Active' = Active
    BY <1>5, <1>6 DEF Active
  <1> QED BY <1>1, <1>2, <1>4, <1>5, <1>7 DEF ClaimNext

LEMMA CloseFrame ==
    ASSUME Typed, NEW S \in SUBSET Active, Closes(S)
    PROVE  /\ Live' = Live /\ Active' = Active \ S
           /\ \A k \in Live \ S : jobs'[k] = jobs[k]
           /\ \A k \in S : /\ jobs'[k].status \in {"failed", "cancelled"}
                           /\ jobs'[k].reason \notin RecordReason
                           /\ jobs'[k].hash = jobs[k].hash
           /\ \E s \in {"failed", "cancelled"} : \A k \in S : jobs'[k].status = s
           /\ UNCHANGED <<contents, executions, issued>>
  <1>1. PICK s \in {"failed", "cancelled"}, why \in {Null, "abandoned", "user-failed"},
             t \in Nat : Close(S, s, why, t)
    BY DEF Closes
  <1>2. /\ Live' = Live /\ \A k \in Live \ S : jobs'[k] = jobs[k]
        /\ \A k \in S : jobs'[k] = Closed(jobs[k], s, why, t)
    BY <1>1 DEF Close, Live, Active
  <1>3. \A k \in S : /\ jobs'[k].status = s /\ jobs'[k].reason = why
                     /\ jobs'[k].hash = jobs[k].hash
    <2> TAKE k \in S
    <2>1. jobs[k] \in Job
      BY DEF Active, Typed, Shapes
    <2> QED BY <1>2, <2>1, ClosedColumns
  <1>4. Active' = Active \ S
    BY <1>2, <1>3 DEF Active, ActiveStatus
  <1>5. why \notin RecordReason
    BY DEF Reason, RecordReason
  <1> QED BY <1>1, <1>2, <1>3, <1>4, <1>5 DEF Close

LEMMA RecordFrame ==
    ASSUME Typed, NEW j \in Live, Records(j)
    PROVE  /\ Live' = Live /\ Active' = Active \ {j}
           /\ jobs[j].status = "running"
           /\ \A k \in Live \ {j} : jobs'[k] = jobs[k]
           /\ jobs'[j].hash = jobs[j].hash
           /\ \E e \in Execution :
                 /\ executions' = Append(executions, e)
                 /\ e.job = j
                 /\ jobs'[j].status = e.status
                 /\ jobs'[j].reason = e.reason
                 /\ jobs'[j].finished = e.finished
           /\ UNCHANGED <<contents, issued>>
  <1>1. PICK s \in {"completed", "failed"}, why \in Reason \cup {Null},
             t \in Nat : RecordJobTerminal(j, s, why, jobs[j].claimed, t)
    BY DEF Records
  <1>2. /\ jobs[j] \in Job /\ jobs[j].status = "running" /\ jobs[j].claimed \in Nat
    BY <1>1 DEF RecordJobTerminal, InStatus, Typed, Shapes, RowsAgree,
                RowCoherent, Job
  <1>3. /\ Live' = Live /\ jobs'[j] = Closed(jobs[j], s, why, t)
        /\ \A k \in Live \ {j} : jobs'[k] = jobs[k]
    BY <1>1 DEF RecordJobTerminal, Live, Typed, Shapes
  <1>4. /\ jobs'[j].status = s /\ jobs'[j].reason = why /\ jobs'[j].finished = t
        /\ jobs'[j].hash = jobs[j].hash
    BY <1>2, <1>3 DEF Closed, Job
  <1>5. Active' = Active \ {j}
    BY <1>3, <1>4 DEF Active, ActiveStatus
  <1> DEFINE e == [job |-> j, status |-> s, reason |-> why,
                   started |-> jobs[j].claimed, finished |-> t]
  <1>6. e \in Execution /\ executions' = Append(executions, e)
    BY <1>1, <1>2 DEF RecordJobTerminal, Execution, Typed, Shapes
  <1>7. e.job = j /\ e.status = s /\ e.reason = why /\ e.finished = t
    OBVIOUS
  <1>8. UNCHANGED <<contents, issued>>
    BY <1>1 DEF RecordJobTerminal
  <1> QED BY <1>2, <1>3, <1>4, <1>5, <1>6, <1>7, <1>8

LEMMA PruneFrame ==
    ASSUME Typed, Prunes
    PROVE  /\ Live' \subseteq Live /\ Active' = Active
           /\ \A k \in Live' : jobs'[k] = jobs[k]
           /\ contents' = {h \in contents : \E j \in Live' : jobs[j].hash = h}
           /\ UNCHANGED <<executions, issued>>
  <1>1. PICK s \in TerminalStatus, cutoff \in Nat : PruneTerminalJobs(s, cutoff)
    BY DEF Prunes
  <1>2. /\ Live' = Live \ Prunable(s, cutoff)
        /\ \A k \in Live' : jobs'[k] = jobs[k]
    BY <1>1 DEF PruneTerminalJobs, Live
  <1>3. Prunable(s, cutoff) \cap Active = {}
    BY DEF Prunable, InStatus, Active, ActiveStatus, TerminalStatus
  <1>4. Active' = Active
    BY <1>2, <1>3 DEF Active
  <1> QED BY <1>1, <1>2, <1>4 DEF PruneTerminalJobs, Live

LEMMA MoveFrame ==
    ASSUME Typed, NEW from \in Node, NEW to \in Node, MigrateJobs(from, to)
    PROVE  /\ Live' = Live /\ Active' = Active
           /\ \A k \in Live \ Moved(from) : jobs'[k] = jobs[k]
           /\ \A k \in Moved(from) :
                 /\ jobs'[k].node = to
                 /\ jobs'[k].status = jobs[k].status
                 /\ jobs'[k].reason = jobs[k].reason
                 /\ jobs'[k].finished = jobs[k].finished
                 /\ jobs'[k].hash = jobs[k].hash
           /\ UNCHANGED <<contents, executions, issued>>
  <1> DEFINE M == Moved(from)
  <1>1. /\ Live' = Live /\ \A k \in Live \ M : jobs'[k] = jobs[k]
        /\ \A k \in M : jobs'[k] = [jobs[k] EXCEPT !.node = to]
    BY DEF MigrateJobs, Live, Moved
  <1>2. ASSUME NEW k \in M
        PROVE  /\ jobs'[k].node = to
               /\ jobs'[k].status = jobs[k].status
               /\ jobs'[k].reason = jobs[k].reason
               /\ jobs'[k].finished = jobs[k].finished
               /\ jobs'[k].hash = jobs[k].hash
    <2>1. jobs[k] \in Job
      BY DEF Moved, Typed, Shapes
    <2> QED BY <1>1, <2>1, ZenonT(60) DEF Job
  <1>3. Active' = Active
    BY <1>1, <1>2 DEF Active, Moved
  <1>4. \A k \in Live \ M : jobs'[k] = jobs[k]
    BY <1>1
  <1> QED BY <1>1, <1>2, <1>3, <1>4 DEF MigrateJobs

-----------------------------------------------------------------------------
(***************************************************************************)
(* Submit, prune and migrate keep the two tables consistent.               *)
(***************************************************************************)
LEMMA ContentStep ==
    ASSUME Typed, ContentIntegrity, [Next]_storeVars
    PROVE  ContentIntegrity'
  <1> USE DEF ContentIntegrity
  <1>1. CASE UNCHANGED <<jobs, contents, executions, issued>>
    BY <1>1 DEF Live
  <1>2. ASSUME NEW id \in JobId, NEW r \in Job, NEW stale \in SUBSET Live,
               Admits(id, r, stale)
        PROVE  ContentIntegrity'
    <2>1. /\ Live' = Live \cup {id} /\ jobs'[id] = r
          /\ \A j \in Live : jobs'[j].hash = jobs[j].hash
      BY <1>2, AdmitFrame
    <2>2. contents' = contents \cup {r.hash}
      BY <1>2 DEF Admits, Enqueue
    <2> QED BY <2>1, <2>2
  <1>3. ASSUME NEW j \in Live, Claims(j)
        PROVE  ContentIntegrity'
    BY <1>3, ClaimFrame
  <1>4. ASSUME NEW S \in SUBSET Active, Closes(S)
        PROVE  ContentIntegrity'
    BY <1>4, CloseFrame
  <1>5. ASSUME NEW j \in Live, Records(j)
        PROVE  ContentIntegrity'
    BY <1>5, RecordFrame
  <1>6. CASE Prunes
    BY <1>6, PruneFrame
  <1>7. CASE Moves
    <2>1. PICK from \in Node, to \in Node : MigrateJobs(from, to)
      BY <1>7 DEF Moves
    <2>2. /\ Live' = Live /\ contents' = contents
          /\ \A k \in Live : jobs'[k].hash = jobs[k].hash
      BY <2>1, MoveFrame
    <2> QED BY <2>2
  <1> QED BY <1>1, <1>2, <1>3, <1>4, <1>5, <1>6, <1>7, StepShapes DEF storeVars

\* A job row's content hash always resolves: spec/job-lifecycle.md's "submit
\* and prune both keep the two tables consistent", for content shared by any
\* number of jobs.
THEOREM ContentAlwaysResolves == Spec => []ContentIntegrity
  <1>1. Init => ContentIntegrity
    BY DEF Init, ContentIntegrity, Live
  <1>2. Typed /\ ContentIntegrity /\ [Next]_storeVars => ContentIntegrity'
    BY ContentStep
  <1> QED BY <1>1, <1>2, AlwaysTyped, PTL DEF Spec

-----------------------------------------------------------------------------
(***************************************************************************)
(* One live job per key.                                                   *)
(***************************************************************************)
LEMMA KeyStep ==
    ASSUME Typed, OneActivePerKey, [Next]_storeVars
    PROVE  OneActivePerKey'
  <1> USE DEF OneActivePerKey, SameKey
  <1>0. Active \subseteq Live
    BY DEF Active
  <1>1. CASE UNCHANGED <<jobs, contents, executions, issued>>
    BY <1>1 DEF Active, Live
  <1>2. ASSUME NEW id \in JobId, NEW r \in Job, NEW stale \in SUBSET Live,
               Admits(id, r, stale)
        PROVE  OneActivePerKey'
    <2>1. /\ Active' = (Active \ stale) \cup {id} /\ jobs'[id] = r
          /\ \A j \in Active \ stale : jobs'[j] = jobs[j]
      BY <1>0, <1>2, AdmitFrame
    <2>2. \A j \in Active \ stale : ~SameKey(jobs[j], r)
      BY <1>2 DEF Admits, Enqueue, Conflicts
    <2> QED BY <2>1, <2>2
  <1>3. ASSUME NEW j \in Live, Claims(j)
        PROVE  OneActivePerKey'
    <2>1. \A k \in Active : /\ jobs'[k].hash = jobs[k].hash
                            /\ jobs'[k].node = jobs[k].node
      BY <1>0, <1>3, ClaimFrame
    <2> QED BY <1>3, <2>1, ClaimFrame
  <1>4. ASSUME NEW S \in SUBSET Active, Closes(S)
        PROVE  OneActivePerKey'
    BY <1>0, <1>4, CloseFrame
  <1>5. ASSUME NEW j \in Live, Records(j)
        PROVE  OneActivePerKey'
    BY <1>0, <1>5, RecordFrame
  <1>6. CASE Prunes
    <2>1. \A k \in Active : jobs'[k] = jobs[k]
      BY <1>6, PruneFrame DEF Active
    <2> QED BY <1>6, <2>1, PruneFrame
  <1>7. CASE Moves
    <2>1. PICK from \in Node, to \in Node : MigrateJobs(from, to)
      BY <1>7 DEF Moves
    <2> DEFINE M == Moved(from)
    <2>2. /\ Active' = Active
          /\ \A k \in Live \ M : jobs'[k] = jobs[k]
          /\ \A k \in M : jobs'[k].hash = jobs[k].hash /\ jobs'[k].node = to
      BY <2>1, MoveFrame
    <2>3. /\ \A k, l \in M : jobs[k].node = jobs[l].node
          /\ ~\E k \in Active \cap M, l \in Active \ M :
                  jobs[l].node = to /\ jobs[k].hash = jobs[l].hash
      BY <2>1 DEF MigrateJobs, MigrationCollides, Moved
    <2> HIDE DEF M
    <2>4. SUFFICES ASSUME NEW k \in Active, NEW l \in Active,
                          jobs'[k].node = jobs'[l].node,
                          jobs'[k].hash = jobs'[l].hash
                   PROVE  k = l
      BY <2>2
    <2>5. CASE k \in M /\ l \in M
      BY <1>0, <2>2, <2>3, <2>4, <2>5
    <2>6. CASE k \in M /\ l \notin M
      BY <1>0, <2>2, <2>3, <2>4, <2>6
    <2>7. CASE k \notin M /\ l \in M
      BY <1>0, <2>2, <2>3, <2>4, <2>7
    <2>8. CASE k \notin M /\ l \notin M
      BY <1>0, <2>2, <2>3, <2>4, <2>8
    <2> QED BY <2>5, <2>6, <2>7, <2>8
  <1> QED BY <1>1, <1>2, <1>3, <1>4, <1>5, <1>6, <1>7, StepShapes DEF storeVars

\* At most one queued or running job per (extension, node, content hash), the
\* promise of the duplicate check, kept by submits, supersedes and migrations
\* to any path.
THEOREM NoDuplicateWork == Spec => []OneActivePerKey
  <1>1. Init => OneActivePerKey
    BY DEF Init, OneActivePerKey, Active, Live
  <1>2. Typed /\ OneActivePerKey /\ [Next]_storeVars => OneActivePerKey'
    BY KeyStep
  <1> QED BY <1>1, <1>2, AlwaysTyped, PTL DEF Spec

-----------------------------------------------------------------------------
(***************************************************************************)
(* One job per finding.                                                    *)
(***************************************************************************)
LEMMA FixerStep ==
    ASSUME Renames = {}, Typed, FixersDisjoint, [Next]_storeVars
    PROVE  FixersDisjoint'
  <1> USE DEF FixersDisjoint
  <1>0. Active \subseteq Live
    BY DEF Active
  <1>1. CASE UNCHANGED <<jobs, contents, executions, issued>>
    BY <1>1 DEF Active, Live
  <1>2. ASSUME NEW id \in JobId, NEW r \in Job, NEW stale \in SUBSET Live,
               Admits(id, r, stale)
        PROVE  FixersDisjoint'
    <2>1. /\ Active' = (Active \ stale) \cup {id} /\ jobs'[id] = r
          /\ \A j \in Active \ stale : jobs'[j] = jobs[j]
      BY <1>0, <1>2, AdmitFrame
    <2>2. ASSUME NEW j \in Active \ stale, r.hash.ext \in Fixer,
                 jobs[j].hash.ext = r.hash.ext, jobs[j].node = r.node
          PROVE  ~Overlap(jobs[j].findings, r.findings)
      <3>1. j \in InStatus("queued") \/ j \in InStatus("running")
        BY DEF Active, ActiveStatus, InStatus
      <3>2. j \notin Siblings(r, "queued") /\ j \notin Siblings(r, "running")
        BY <1>2, <2>2 DEF Admits
      <3> QED BY <2>2, <3>1, <3>2 DEF Siblings
    <2> QED BY <2>1, <2>2 DEF Overlap
  <1>3. ASSUME NEW j \in Live, Claims(j)
        PROVE  FixersDisjoint'
    <2>1. \A k \in Active : /\ jobs'[k].hash = jobs[k].hash
                            /\ jobs'[k].node = jobs[k].node
                            /\ jobs'[k].findings = jobs[k].findings
      BY <1>0, <1>3, ClaimFrame
    <2> QED BY <1>3, <2>1, ClaimFrame
  <1>4. ASSUME NEW S \in SUBSET Active, Closes(S)
        PROVE  FixersDisjoint'
    BY <1>0, <1>4, CloseFrame
  <1>5. ASSUME NEW j \in Live, Records(j)
        PROVE  FixersDisjoint'
    BY <1>0, <1>5, RecordFrame
  <1>6. CASE Prunes
    <2>1. \A k \in Active : jobs'[k] = jobs[k]
      BY <1>6, PruneFrame DEF Active
    <2> QED BY <1>6, <2>1, PruneFrame
  <1>7. CASE Moves
    BY <1>7 DEF Moves
  <1> QED BY <1>1, <1>2, <1>3, <1>4, <1>5, <1>6, <1>7, StepShapes DEF storeVars

\* While no file is renamed, a finding is in the hands of one live job of a
\* fixer at most: supersede and the refusal of submitFixerJob, against every
\* claim, closing and prune.
THEOREM OneFixPerFinding ==
    ASSUME Renames = {}
    PROVE  Spec => []FixersDisjoint
  <1>1. Init => FixersDisjoint
    BY DEF Init, FixersDisjoint, Active, Live
  <1>2. Typed /\ FixersDisjoint /\ [Next]_storeVars => FixersDisjoint'
    BY FixerStep
  <1> QED BY <1>1, <1>2, AlwaysTyped, PTL DEF Spec

-----------------------------------------------------------------------------
(***************************************************************************)
(* The history agrees with the queue.                                      *)
(***************************************************************************)

\* What one execution and the rows say of each other.
Agrees(e) ==
    /\ e.job \in issued
    /\ e.job \in Live => /\ jobs[e.job].status = e.status
                         /\ jobs[e.job].reason = e.reason
                         /\ jobs[e.job].finished = e.finished

\* A verdict only a record gives.
ByRecord(r) == r.status = "completed" \/ r.reason \in RecordReason

HistoryAgrees ==
    /\ \A i \in DOMAIN executions : Agrees(executions[i])
    /\ \A i, k \in DOMAIN executions :
          executions[i].job = executions[k].job => i = k
    /\ \A j \in Live : ByRecord(jobs[j]) =>
          \E i \in DOMAIN executions : executions[i].job = j

LEMMA HistoryUnfolds == ExecutionsAgree <=> HistoryAgrees
  <1>1. \A j : RecordedBy(j) # {} <=>
               \E i \in DOMAIN executions : executions[i].job = j
    BY DEF RecordedBy
  <1> QED BY <1>1 DEF ExecutionsAgree, HistoryAgrees, Agrees, ByRecord

\* A job that is still live has no execution yet.
LEMMA ActiveUnrecorded ==
    ASSUME Typed, HistoryAgrees, NEW i \in DOMAIN executions
    PROVE  executions[i].job \notin Active
  <1>1. executions[i] \in Execution
    BY DEF Typed, Shapes
  <1> QED BY <1>1 DEF HistoryAgrees, Agrees, Active, ActiveStatus, Execution

\* Enough for every step that leaves the history alone: closed rows that stay
\* keep their verdict, and no row gains one a record gives.
LEMMA HistoryKept ==
    ASSUME Typed, HistoryAgrees, UNCHANGED executions, issued \subseteq issued',
           \A j \in Live' \cap issued :
              j \in Live /\ (j \notin Active =>
                               /\ jobs'[j].status = jobs[j].status
                               /\ jobs'[j].reason = jobs[j].reason
                               /\ jobs'[j].finished = jobs[j].finished),
           \A j \in Live' : ByRecord(jobs'[j]) => j \in Live /\ ByRecord(jobs[j])
    PROVE  HistoryAgrees'
  <1>1. \A i \in DOMAIN executions : Agrees(executions[i])'
    BY ActiveUnrecorded DEF HistoryAgrees, Agrees
  <1>2. \A j \in Live' : ByRecord(jobs'[j]) =>
           \E i \in DOMAIN executions : executions[i].job = j
    BY DEF HistoryAgrees
  <1> QED BY <1>1, <1>2 DEF HistoryAgrees, ByRecord

LEMMA HistoryStep ==
    ASSUME Typed, HistoryAgrees, [Next]_storeVars
    PROVE  HistoryAgrees'
  <1>0. Active \subseteq Live /\ Live \subseteq issued
    BY DEF Active, Typed, Shapes
  <1>1. CASE UNCHANGED <<jobs, contents, executions, issued>>
    BY <1>0, <1>1, HistoryKept DEF Live
  <1>2. ASSUME NEW id \in JobId, NEW r \in Job, NEW stale \in SUBSET Live,
               Admits(id, r, stale)
        PROVE  HistoryAgrees'
    <2>1. /\ id \notin issued /\ issued' = issued \cup {id}
          /\ executions' = executions /\ stale \subseteq Active
      BY <1>2 DEF Admits, Enqueue, InStatus, Active, ActiveStatus
    <2>2. /\ Live' = Live \cup {id}
          /\ \A j \in Live \ stale : jobs'[j] = jobs[j]
          /\ \A j \in stale \cup {id} : jobs'[j].status \in {"queued", "cancelled"}
      BY <1>2, AdmitFrame DEF Admits
    <2>3. \A j \in stale \cup {id} : ~ByRecord(jobs'[j])
      <3> TAKE j \in stale \cup {id}
      <3>1. RowCoherent(jobs'[j])
        BY <1>0, <2>1, <2>2, ActionTyped DEF Typed, RowsAgree
      <3> QED BY <2>2, <3>1 DEF RowCoherent, ByRecord, Reason, RecordReason
    <2> QED BY <1>0, <2>1, <2>2, <2>3, HistoryKept
  <1>3. ASSUME NEW j \in Live, Claims(j)
        PROVE  HistoryAgrees'
    <2>1. /\ Live' = Live /\ j \in Active /\ UNCHANGED <<executions, issued>>
          /\ \A k \in Live \ {j} : jobs'[k] = jobs[k]
          /\ jobs'[j].status = "running"
      BY <1>3, ClaimFrame DEF Active, ActiveStatus
    <2>2. ~ByRecord(jobs'[j])
      <3>1. RowCoherent(jobs'[j])
        BY <2>1, ActionTyped DEF Typed, RowsAgree
      <3> QED BY <2>1, <3>1 DEF RowCoherent, ByRecord, Reason, RecordReason
    <2> QED BY <2>1, <2>2, HistoryKept
  <1>4. ASSUME NEW S \in SUBSET Active, Closes(S)
        PROVE  HistoryAgrees'
    <2>1. /\ Live' = Live /\ UNCHANGED <<executions, issued>>
          /\ \A k \in Live \ S : jobs'[k] = jobs[k]
          /\ \A k \in S : ~ByRecord(jobs'[k])
      BY <1>4, CloseFrame DEF ByRecord
    <2> QED BY <2>1, HistoryKept
  <1>5. ASSUME NEW j \in Live, Records(j)
        PROVE  HistoryAgrees'
    <2>1. /\ Live' = Live /\ issued' = issued /\ j \in Active
          /\ \A k \in Live \ {j} : jobs'[k] = jobs[k]
      BY <1>5, RecordFrame DEF Active, ActiveStatus
    <2>2. PICK e \in Execution :
              /\ executions' = Append(executions, e)
              /\ e.job = j
              /\ jobs'[j].status = e.status
              /\ jobs'[j].reason = e.reason
              /\ jobs'[j].finished = e.finished
      BY <1>5, RecordFrame
    <2> DEFINE n == Len(executions) + 1
    <2>3. /\ DOMAIN executions' = DOMAIN executions \cup {n}
          /\ n \notin DOMAIN executions /\ executions'[n] = e
          /\ \A i \in DOMAIN executions : executions'[i] = executions[i]
      BY <2>2 DEF Typed, Shapes
    <2> HIDE DEF n
    <2>4. \A i \in DOMAIN executions : executions[i].job # j
      BY <2>1, ActiveUnrecorded
    <2>5. (\A i \in DOMAIN executions : Agrees(executions[i]))'
      BY <1>0, <2>1, <2>2, <2>3, <2>4 DEF HistoryAgrees, Agrees
    <2>6. \A i, k \in DOMAIN executions' :
             executions'[i].job = executions'[k].job => i = k
      BY <2>2, <2>3, <2>4 DEF HistoryAgrees
    <2>7. \A k \in Live' : ByRecord(jobs'[k]) =>
             \E i \in DOMAIN executions' : executions'[i].job = k
      BY <2>1, <2>2, <2>3 DEF HistoryAgrees
    <2> QED BY <2>5, <2>6, <2>7 DEF HistoryAgrees, ByRecord
  <1>6. CASE Prunes
    BY <1>0, <1>6, PruneFrame, HistoryKept
  <1>7. CASE Moves
    <2>1. PICK from \in Node, to \in Node : MigrateJobs(from, to)
      BY <1>7 DEF Moves
    <2>2. /\ Live' = Live /\ UNCHANGED <<executions, issued>>
          /\ \A k \in Live : /\ jobs'[k].status = jobs[k].status
                             /\ jobs'[k].reason = jobs[k].reason
                             /\ jobs'[k].finished = jobs[k].finished
      BY <2>1, MoveFrame
    <2> QED BY <2>2, HistoryKept DEF ByRecord
  <1> QED BY <1>1, <1>2, <1>3, <1>4, <1>5, <1>6, <1>7, StepShapes DEF storeVars

\* The history and the queue tell the same story: an execution row belongs to
\* a job that closed with that verdict at that instant, a job has one at most,
\* and no job is `completed', or failed for a reason only a record gives,
\* without one.
THEOREM HistoryMatchesQueue == Spec => []ExecutionsAgree
  <1>1. Init => HistoryAgrees
    BY DEF Init, HistoryAgrees, Live
  <1>2. Typed /\ HistoryAgrees /\ [Next]_storeVars => HistoryAgrees'
    BY HistoryStep
  <1>3. HistoryAgrees => ExecutionsAgree
    BY HistoryUnfolds
  <1> QED BY <1>1, <1>2, <1>3, AlwaysTyped, PTL DEF Spec

-----------------------------------------------------------------------------
(***************************************************************************)
(* What a step may never do.                                               *)
(***************************************************************************)
LEMMA TerminalStep ==
    ASSUME Typed, [Next]_storeVars, NEW j \in Live \ Active, j \in Live'
    PROVE  jobs'[j] = [jobs[j] EXCEPT !.node = jobs'[j].node]
  <1>0. jobs[j] \in Job
    BY DEF Typed, Shapes
  <1>a. ASSUME jobs'[j] = jobs[j]
        PROVE  jobs'[j] = [jobs[j] EXCEPT !.node = jobs'[j].node]
    <2>1. \A r \in Job : r = [r EXCEPT !.node = r.node]
      BY DEF Job
    <2> QED BY <1>0, <1>a, <2>1
  <1>1. CASE UNCHANGED <<jobs, contents, executions, issued>>
    BY <1>a, <1>1
  <1>2. ASSUME NEW id \in JobId, NEW r \in Job, NEW stale \in SUBSET Live,
               Admits(id, r, stale)
        PROVE  jobs'[j] = jobs[j]
    <2>1. j \notin stale
      BY <1>2 DEF Admits, InStatus, Active, ActiveStatus
    <2> QED BY <1>2, <2>1, AdmitFrame
  <1>3. ASSUME NEW k \in Live, Claims(k)
        PROVE  jobs'[j] = jobs[j]
    BY <1>3, ClaimFrame DEF Active, ActiveStatus
  <1>4. ASSUME NEW S \in SUBSET Active, Closes(S)
        PROVE  jobs'[j] = jobs[j]
    BY <1>4, CloseFrame
  <1>5. ASSUME NEW k \in Live, Records(k)
        PROVE  jobs'[j] = jobs[j]
    BY <1>5, RecordFrame DEF Active, ActiveStatus
  <1>6. CASE Prunes
    BY <1>a, <1>6, PruneFrame
  <1>7. CASE Moves
    <2>1. PICK from \in Node, to \in Node : MigrateJobs(from, to)
      BY <1>7 DEF Moves
    <2>2. CASE j \in Moved(from)
      <3>1. jobs'[j] = [jobs[j] EXCEPT !.node = to]
        BY <2>1, <2>2 DEF MigrateJobs
      <3>2. \A r \in Job : [r EXCEPT !.node = to].node = to
        BY DEF Job
      <3> QED BY <1>0, <3>1, <3>2
    <2>3. CASE j \notin Moved(from)
      BY <1>a, <2>1, <2>3, MoveFrame
    <2> QED BY <2>2, <2>3
  <1> QED BY <1>a, <1>1, <1>2, <1>3, <1>4, <1>5, <1>6, <1>7, StepShapes
          DEF storeVars

\* Terminal is final: no verb, no late record and no reaper revises a closed
\* row, whichever of them read it first; only its path may follow a rename.
THEOREM ClosedForGood == Spec => TerminalIsFinal
  <1>1. Typed /\ [Next]_storeVars =>
           [\A j \in Live \ Active :
               j \in Live' => jobs'[j] = [jobs[j] EXCEPT !.node = jobs'[j].node]
           ]_storeVars
    BY TerminalStep
  <1> QED BY <1>1, AlwaysTyped, PTL DEF Spec, TerminalIsFinal

LEMMA AdmissionStep ==
    ASSUME Typed, [Next]_storeVars, Live' \ Live # {},
           NEW j \in InStatus("running")
    PROVE  j \in Live' /\ jobs'[j] = jobs[j]
  <1>1. PICK id \in JobId, r \in Job : \E stale \in SUBSET Live :
            Admits(id, r, stale)
    <2>1. \/ UNCHANGED <<jobs, contents, executions, issued>>
          \/ \E k \in Live : Claims(k)
          \/ \E S \in SUBSET Active : Closes(S)
          \/ \E k \in Live : Records(k)
          \/ Prunes
          \/ Moves
          => Live' \subseteq Live
      BY ClaimFrame, CloseFrame, RecordFrame, PruneFrame, MoveFrame DEF Live, Moves
    <2> QED BY <2>1, StepShapes DEF storeVars
  <1>2. PICK stale \in SUBSET Live : Admits(id, r, stale)
    BY <1>1
  <1>3. j \notin stale /\ j \in Live
    BY <1>2 DEF Admits, InStatus
  <1> QED BY <1>2, <1>3, AdmitFrame

\* An agent that holds a claim is never superseded: the step that admits a
\* job leaves every running row alone.
THEOREM RunningIsNeverSuperseded == Spec => SubmitSparesRunning
  <1>1. Typed /\ [Next]_storeVars =>
           [Live' \ Live # {} =>
               \A j \in InStatus("running") : j \in Live' /\ jobs'[j] = jobs[j]
           ]_storeVars
    BY AdmissionStep
  <1> QED BY <1>1, AlwaysTyped, PTL DEF Spec, SubmitSparesRunning

LEMMA ClaimOrderStep ==
    ASSUME Typed, [Next]_storeVars, NEW j \in InStatus("queued"), j \in Live',
           jobs'[j].status = "running",
           NEW k \in InStatus("queued"), jobs[k].hash.ext = jobs[j].hash.ext
    PROVE  NotBehind(j, k)
  <1>0. j \in Live /\ jobs[j].status = "queued"
    BY DEF InStatus
  <1>1. Claims(j)
    <2>1. CASE UNCHANGED <<jobs, contents, executions, issued>>
      BY <1>0, <2>1
    <2>2. ASSUME NEW id \in JobId, NEW r \in Job, NEW stale \in SUBSET Live,
                 Admits(id, r, stale)
          PROVE  FALSE
      BY <1>0, <2>2, AdmitFrame
    <2>3. ASSUME NEW i \in Live, Claims(i)
          PROVE  i = j
      BY <1>0, <2>3, ClaimFrame
    <2>4. ASSUME NEW S \in SUBSET Active, Closes(S)
          PROVE  FALSE
      BY <1>0, <2>4, CloseFrame
    <2>5. ASSUME NEW i \in Live, Records(i)
          PROVE  FALSE
      BY <1>0, <2>5, RecordFrame DEF Execution
    <2>6. CASE Prunes
      BY <1>0, <2>6, PruneFrame
    <2>7. CASE Moves
      BY <1>0, <2>7, MoveFrame DEF Moves
    <2> QED BY <2>1, <2>2, <2>3, <2>4, <2>5, <2>6, <2>7, StepShapes DEF storeVars
  <1>2. PICK exts \in SUBSET Ext : j \in NextUp(exts)
    BY <1>1 DEF Claims, ClaimNext
  <1>3. k \in Claimable(exts)
    BY <1>2 DEF NextUp, Claimable
  <1> QED BY <1>2, <1>3 DEF NextUp

\* The atomic claim takes the next job: within the jobs of one extension no
\* claim overtakes a higher priority, or an earlier submit of the same one.
THEOREM ClaimsRespectOrder == Spec => ClaimsInOrder
  <1>1. Typed /\ [Next]_storeVars =>
           [\A j \in InStatus("queued") :
               j \in Live' /\ jobs'[j].status = "running" =>
                   \A k \in InStatus("queued") :
                       jobs[k].hash.ext = jobs[j].hash.ext => NotBehind(j, k)
           ]_storeVars
    BY ClaimOrderStep
  <1> QED BY <1>1, AlwaysTyped, PTL DEF Spec, ClaimsInOrder

-----------------------------------------------------------------------------
(***************************************************************************)
(* The queue implements the lifecycle of each job.                         *)
(***************************************************************************)
LEMMA VerdictsKept ==
    ASSUME UNCHANGED executions
    PROVE  verdictOf' = verdictOf
  BY DEF verdictOf, Verdicts, RecordedBy

LEMMA NoVerdictYet ==
    ASSUME Typed, HistoryAgrees, NEW j \in Active
    PROVE  Verdicts(j) = {} /\ (j \in JobId => verdictOf[j] = "none")
  BY ActiveUnrecorded DEF Verdicts, RecordedBy, verdictOf

LEMMA LifecycleStep ==
    ASSUME Typed, HistoryAgrees, [Next]_storeVars
    PROVE  [Lifecycle!Next]_(Lifecycle!vars)
  <1>0. /\ Active \subseteq Live /\ Live \subseteq issued /\ issued \subseteq JobId
        /\ \A j \in Live : jobs[j].status \in ActiveStatus \cup TerminalStatus
    BY DEF Active, Typed, Shapes, Job
  <1>1. CASE UNCHANGED <<jobs, contents, executions, issued>>
    <2>1. phaseOf' = phaseOf
      BY <1>1 DEF phaseOf, Live
    <2> QED BY <1>1, <2>1, VerdictsKept DEF Lifecycle!vars
  <1>2. ASSUME NEW id \in JobId, NEW r \in Job, NEW stale \in SUBSET Live,
               Admits(id, r, stale)
        PROVE  Lifecycle!Next
    <2>1. /\ id \notin issued /\ issued' = issued \cup {id}
          /\ executions' = executions /\ r.status = "queued"
          /\ \A j \in stale : j \in Live /\ jobs[j].status = "queued"
      BY <1>2 DEF Admits, Enqueue, InStatus
    <2>2. /\ Live' = Live \cup {id} /\ jobs'[id] = r
          /\ \A j \in Live \ stale : jobs'[j] = jobs[j]
          /\ \A j \in stale : jobs'[j].status = "cancelled"
      BY <1>2, AdmitFrame
    <2>3. phaseOf[id] = "absent" /\ stale \in SUBSET {k \in JobId : phaseOf[k] = "queued"}
      BY <1>0, <2>1 DEF phaseOf
    <2>4. phaseOf' = [k \in JobId |-> IF k = id THEN "queued"
                                      ELSE IF k \in stale THEN "cancelled"
                                      ELSE phaseOf[k]]
      BY <1>0, <2>1, <2>2 DEF phaseOf
    <2>5. Lifecycle!Submit(id)
      BY <2>1, <2>3, <2>4, VerdictsKept DEF Lifecycle!Submit
    <2> QED BY <2>5 DEF Lifecycle!Next
  <1>3. ASSUME NEW j \in Live, Claims(j)
        PROVE  Lifecycle!Next
    <2>1. /\ Live' = Live /\ UNCHANGED <<executions, issued>> /\ j \in Active
          /\ jobs[j].status = "queued" /\ jobs'[j].status = "running"
          /\ \A k \in Live \ {j} : jobs'[k] = jobs[k]
      BY <1>3, ClaimFrame DEF Active, ActiveStatus
    <2>2. phaseOf[j] = "queued" /\ phaseOf' = [phaseOf EXCEPT ![j] = "running"]
      BY <1>0, <2>1 DEF phaseOf
    <2>3. verdictOf' = [verdictOf EXCEPT ![j] = "none"]
      <3>1. verdictOf' = verdictOf /\ verdictOf[j] = "none"
        BY <1>0, <2>1, VerdictsKept, NoVerdictYet
      <3> QED BY <3>1 DEF verdictOf
    <2>4. Lifecycle!Claim(j)
      BY <2>2, <2>3 DEF Lifecycle!Claim, Lifecycle!Only
    <2> QED BY <1>0, <2>4 DEF Lifecycle!Next
  <1>4. ASSUME NEW S \in SUBSET Active, Closes(S)
        PROVE  Lifecycle!Next
    <2>1. /\ Live' = Live /\ UNCHANGED <<executions, issued>>
          /\ \A k \in Live \ S : jobs'[k] = jobs[k]
      BY <1>4, CloseFrame
    <2>2. PICK p \in {"failed", "cancelled"} : \A k \in S : jobs'[k].status = p
      BY <1>4, CloseFrame
    <2>3. S \in SUBSET {k \in JobId : phaseOf[k] \in {"queued", "running"}}
      BY <1>0 DEF phaseOf, Active, ActiveStatus
    <2>4. phaseOf' = [k \in JobId |-> IF k \in S THEN p ELSE phaseOf[k]]
      BY <1>0, <2>1, <2>2 DEF phaseOf
    <2>5. Lifecycle!Close
      BY <2>1, <2>3, <2>4, VerdictsKept DEF Lifecycle!Close
    <2> QED BY <2>5 DEF Lifecycle!Next
  <1>5. ASSUME NEW j \in Live, Records(j)
        PROVE  Lifecycle!Next
    <2>1. /\ Live' = Live /\ issued' = issued /\ j \in Active
          /\ jobs[j].status = "running"
          /\ \A k \in Live \ {j} : jobs'[k] = jobs[k]
      BY <1>5, RecordFrame DEF Active, ActiveStatus
    <2>2. PICK e \in Execution :
              /\ executions' = Append(executions, e)
              /\ e.job = j /\ jobs'[j].status = e.status
      BY <1>5, RecordFrame
    <2>3. e.status \in {"completed", "failed"}
      BY DEF Execution
    <2>4. phaseOf[j] = "running" /\ phaseOf' = [phaseOf EXCEPT ![j] = e.status]
      BY <1>0, <2>1, <2>2 DEF phaseOf
    <2> DEFINE n == Len(executions) + 1
    <2>5. /\ DOMAIN executions' = DOMAIN executions \cup {n}
          /\ n \notin DOMAIN executions /\ executions'[n] = e
          /\ \A i \in DOMAIN executions : executions'[i] = executions[i]
      BY <2>2 DEF Typed, Shapes
    <2> HIDE DEF n
    <2>6. Verdicts(j)' = {e.status}
      <3>1. RecordedBy(j) = {}
        BY <2>1, ActiveUnrecorded DEF RecordedBy
      <3>2. RecordedBy(j)' = {n}
        BY <2>2, <2>5, <3>1 DEF RecordedBy
      <3> QED BY <2>5, <3>2 DEF Verdicts
    <2>7. ASSUME NEW k \in JobId, k # j
          PROVE  Verdicts(k)' = Verdicts(k)
      <3>1. RecordedBy(k)' = RecordedBy(k)
        BY <2>2, <2>5, <2>7 DEF RecordedBy
      <3>2. \A i \in RecordedBy(k) : executions'[i] = executions[i]
        BY <2>5 DEF RecordedBy
      <3> QED BY <3>1, <3>2 DEF Verdicts
    <2>8. verdictOf' = [verdictOf EXCEPT ![j] = e.status]
      BY <2>3, <2>6, <2>7 DEF verdictOf
    <2>9. Lifecycle!Record(j)
      BY <2>3, <2>4, <2>8 DEF Lifecycle!Record, Lifecycle!Only
    <2> QED BY <1>0, <2>9 DEF Lifecycle!Next
  <1>6. CASE Prunes
    <2>1. /\ Live' \subseteq Live /\ Active \subseteq Live'
          /\ UNCHANGED <<executions, issued>>
          /\ \A k \in Live' : jobs'[k] = jobs[k]
      BY <1>6, PruneFrame DEF Active
    <2> DEFINE S == Live \ Live'
    <2>2. S \in SUBSET {k \in JobId :
                          phaseOf[k] \in {"completed", "failed", "cancelled"}}
      BY <1>0, <2>1 DEF phaseOf, Active, TerminalStatus
    <2>3. phaseOf' = [k \in JobId |-> IF k \in S THEN "pruned" ELSE phaseOf[k]]
      BY <1>0, <2>1 DEF phaseOf
    <2> HIDE DEF S
    <2>4. Lifecycle!Prune
      BY <2>1, <2>2, <2>3, VerdictsKept DEF Lifecycle!Prune
    <2> QED BY <2>4 DEF Lifecycle!Next
  <1>7. CASE Moves
    <2>1. PICK from \in Node, to \in Node : MigrateJobs(from, to)
      BY <1>7 DEF Moves
    <2>2. /\ Live' = Live /\ UNCHANGED <<executions, issued>>
          /\ \A k \in Live : jobs'[k].status = jobs[k].status
      BY <2>1, MoveFrame
    <2>3. phaseOf' = phaseOf
      BY <2>2 DEF phaseOf
    <2> QED BY <2>2, <2>3, VerdictsKept DEF Lifecycle!vars
  <1> QED BY <1>1, <1>2, <1>3, <1>4, <1>5, <1>6, <1>7, StepShapes DEF storeVars

\* The tables implement the lifecycle of each job: whatever interleaving of
\* submits, claims, records, closings, reaps, prunes and migrations runs, a
\* job passes through its state machine once, changes hands once and has its
\* one verdict written in the step that closes it.
THEOREM QueueImplementsLifecycle == Spec => ImplementsLifecycle
  <1>1. Init => Lifecycle!Init
    <2> SUFFICES ASSUME Init PROVE Lifecycle!Init
      OBVIOUS
    <2>1. phaseOf = [j \in JobId |-> "absent"]
      BY DEF Init, phaseOf, Live
    <2>2. verdictOf = [j \in JobId |-> "none"]
      BY DEF Init, verdictOf, Verdicts, RecordedBy
    <2> QED BY <2>1, <2>2 DEF Lifecycle!Init
  <1>2. Typed /\ ExecutionsAgree /\ [Next]_storeVars
          => [Lifecycle!Next]_(Lifecycle!vars)
    BY LifecycleStep, HistoryUnfolds
  <1> QED BY <1>1, <1>2, AlwaysTyped, HistoryMatchesQueue, PTL
          DEF Spec, ImplementsLifecycle, Lifecycle!Spec
=============================================================================
