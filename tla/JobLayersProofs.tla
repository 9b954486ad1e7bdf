-------------------------- MODULE JobLayersProofs --------------------------
(***************************************************************************)
(* Proofs about the two layers above the job tables: the engines that run  *)
(* over them (JobQueue) and the judgments that a completed record writes   *)
(* (JobFindings).  Each is a client of JobStore, whose invariants it       *)
(* inherits, and each has an invariant of its own.  They share no state    *)
(* but the tables, and no theorem is about both.                           *)
(***************************************************************************)
EXTENDS JobQueue, JobFindings, JobStoreProofs, FiniteSetTheorems, WellFoundedInduction

-----------------------------------------------------------------------------
(***************************************************************************)
(* The engines, for every set of processes, any number of crashes and any  *)
(* interleaving.  A frame is what an engine keeps across its awaits; the   *)
(* invariant says what a stale frame is still worth.                       *)
(***************************************************************************)

\* A row some submit prepared at instant t or before.
Requested(r, t) == ValidRow(r) /\ \E u \in 0 .. t : r \in NewRows(u)

\* What a frame may hold at instant t when `ids' were issued: its stamps are
\* past, its jobs were issued, its extensions exist, its row is a request.
Frame(f, t, ids) ==
    \/ f.step \in {"idle", "chain", "lookup"}
    \/ f \in [step : {"reap", "claim", "sleep"}, stamp : 0 .. t,
              exts : SUBSET Ext, wait : BOOLEAN]
    \/ f \in [step : {"content", "reread", "missing", "markmissing"},
              stamp : 0 .. t, job : ids, hash : Hash]
    \/ /\ f.step \in {"check", "render", "insert"}
       /\ DOMAIN f = {"step", "row", "todo", "chained"}
       /\ Requested(f.row, t)
    \/ f \in [step : {"load"}, job : ids,
              status : {"completed", "failed"}, stamp : 0 .. t]
    \/ f.step = "close" /\ f.job \in ids /\ f.stamp \in 0 .. t
    \/ f \in [step : {"list"}, ext : Ext, stamp : 0 .. t]
    \/ f \in [step : {"cancel"}, stamp : 0 .. t, list : SUBSET ids]

Framed == /\ DOMAIN op = Proc /\ DOMAIN answer = Proc
          /\ \A p \in Proc : Frame(op[p], now, issued)

\* Content rows vanish by external means, and nothing else changes.
Vanish == /\ contents' \subseteq contents
          /\ UNCHANGED <<jobs, executions, issued, now>>

StoreStep == [Next]_storeVars \/ Vanish

-----------------------------------------------------------------------------
(***************************************************************************)
(* Frames outlive what other processes do.                                 *)
(***************************************************************************)
LEMMA RequestedLater ==
    ASSUME NEW t \in Nat, NEW u \in Nat, t <= u, NEW r, Requested(r, t)
    PROVE  Requested(r, u)
  <1>1. 0 .. t \subseteq 0 .. u
    OBVIOUS
  <1> QED BY <1>1 DEF Requested

LEMMA FrameLater ==
    ASSUME NEW t \in Nat, NEW u \in Nat, t <= u, NEW ids, NEW more,
           ids \subseteq more, NEW f, Frame(f, t, ids)
    PROVE  Frame(f, u, more)
  <1>1. 0 .. t \subseteq 0 .. u
    OBVIOUS
  <1>2. ASSUME Requested(f.row, t)
        PROVE  Requested(f.row, u)
    BY <1>2, RequestedLater
  <1> HIDE DEF Requested
  <1> QED BY <1>1, <1>2 DEF Frame

LEMMA Resume ==
    ASSUME Framed, NEW p \in Proc, NEW f, op' = [op EXCEPT ![p] = f],
           DOMAIN answer' = DOMAIN answer, now \in Nat, now' \in Nat, now <= now',
           issued \subseteq issued', Frame(f, now', issued')
    PROVE  Framed'
  <1>1. \A q \in Proc : Frame(op[q], now', issued')
    BY FrameLater DEF Framed
  <1>2. DOMAIN op' = Proc /\ \A q \in Proc : op'[q] = IF q = p THEN f ELSE op[q]
    BY DEF Framed
  <1>3. \A q \in Proc : Frame(op'[q], now', issued')
    BY <1>1, <1>2
  <1> QED BY <1>2, <1>3 DEF Framed

\* A step that leaves the processes alone leaves the frames good.
LEMMA Stay ==
    ASSUME Framed, UNCHANGED <<op, answer>>, now \in Nat, now' \in Nat,
           now <= now', issued \subseteq issued'
    PROVE  Framed'
  BY FrameLater DEF Framed

-----------------------------------------------------------------------------
(***************************************************************************)
(* One step: it keeps the frames good, and what it does to the tables is a *)
(* transaction of JobStore, with arguments JobStore admits.                *)
(***************************************************************************)
Good == Framed' /\ [Next]_storeVars

LEMMA StartGood ==
    ASSUME Typed, Framed, NEW p \in Proc, Start(p)
    PROVE  Good
  <1>0. now \in Nat /\ now \in 0 .. now
    BY DEF Typed, Shapes
  <1>1. ASSUME NEW f, Begin(p, f), Frame(f, now, issued)
        PROVE  Good
    <2>1. /\ op' = [op EXCEPT ![p] = f] /\ UNCHANGED storeVars
          /\ DOMAIN answer' = DOMAIN answer
      BY <1>1 DEF Begin
    <2>2. /\ now' = now /\ issued' = issued
          /\ now <= now' /\ issued \subseteq issued' /\ now' \in Nat
      BY <1>0, <2>1 DEF storeVars
    <2>3. Frame(f, now', issued')
      BY <1>1, <2>2
    <2>4. Framed'
      BY <1>0, <2>1, <2>2, <2>3, Resume
    <2> QED BY <2>1, <2>4 DEF Good
  <1>2. CASE StartClaim(p)
    <2>1. PICK exts \in Filter, wait \in BOOLEAN :
              Begin(p, [step |-> "reap", stamp |-> now, exts |-> exts, wait |-> wait])
      BY <1>2 DEF StartClaim
    <2>2. exts \in SUBSET Ext
      BY QueueAssumption
    <2> DEFINE f == [step |-> "reap", stamp |-> now, exts |-> exts, wait |-> wait]
    <2>3. Frame(f, now, issued)
      BY <1>0, <2>2 DEF Frame
    <2> QED BY <1>1, <2>1, <2>3
  <1>3. CASE StartSubmit(p)
    <2>1. PICK r \in NewRows(0), force \in BOOLEAN :
              /\ ValidRow(r)
              /\ Begin(p, [step |-> IF force THEN "render" ELSE "check",
                           row |-> r, todo |-> {}, chained |-> FALSE])
      BY <1>3 DEF StartSubmit
    <2>2. Requested(r, now)
      BY <1>0, <2>1 DEF Requested
    <2> DEFINE f == [step |-> IF force THEN "render" ELSE "check",
                     row |-> r, todo |-> {}, chained |-> FALSE]
    <2>3. Frame(f, now, issued)
      BY <2>2 DEF Frame
    <2> QED BY <1>1, <2>1, <2>3
  <1>4. CASE StartRecord(p)
    <2>1. PICK j \in issued, s \in {"completed", "failed"} :
              Begin(p, [step |-> "load", job |-> j, status |-> s, stamp |-> now])
      BY <1>4 DEF StartRecord
    <2> QED BY <1>0, <1>1, <2>1 DEF Frame
  <1>5. CASE StartCascade(p)
    <2>1. PICK e \in Ext : Begin(p, [step |-> "list", ext |-> e, stamp |-> now])
      BY <1>5 DEF StartCascade
    <2> QED BY <1>0, <1>1, <2>1 DEF Frame
  <1> QED BY <1>2, <1>3, <1>4, <1>5 DEF Start

\* Enough for every step of an engine: a good frame to go on with, and a
\* transaction that leaves the clock alone.
LEMMA TurnGood ==
    ASSUME Typed, Framed, NEW p \in Proc, NEW f, Goto(p, f) \/ \E r : Return(p, r),
           [Next]_storeVars, now' = now,
           issued \subseteq issued', Frame(f, now, issued')
    PROVE  Good
  <1>0. now \in Nat /\ now <= now
    BY DEF Typed, Shapes
  <1>1. CASE Goto(p, f)
    <2>1. op' = [op EXCEPT ![p] = f] /\ DOMAIN answer' = DOMAIN answer
      BY <1>1 DEF Goto
    <2> QED BY <1>0, <2>1, Resume DEF Good
  <1>2. CASE \E r : Return(p, r)
    <2>1. op' = [op EXCEPT ![p] = Idle] /\ DOMAIN answer' = DOMAIN answer
      BY <1>2 DEF Return
    <2>2. Frame(Idle, now', issued')
      BY DEF Frame, Idle
    <2> QED BY <1>0, <2>1, <2>2, Resume DEF Good
  <1> QED BY <1>1, <1>2

LEMMA ClaimGood ==
    ASSUME Typed, Framed, NEW p \in Proc, ClaimStep(p)
    PROVE  Good
  <1> DEFINE f == op[p]
  <1>0. Frame(f, now, issued) /\ now \in Nat
    BY DEF Framed, Typed, Shapes
  <1>1. ASSUME f.step \in {"reap", "claim", "sleep"}
        PROVE  f \in [step : {"reap", "claim", "sleep"}, stamp : 0 .. now,
                      exts : SUBSET Ext, wait : BOOLEAN]
    BY <1>0, <1>1 DEF Frame
  <1>2. ASSUME f.step \in {"content", "reread", "missing", "markmissing"}
        PROVE  f \in [step : {"content", "reread", "missing", "markmissing"},
                      stamp : 0 .. now, job : issued, hash : Hash]
    BY <1>0, <1>2 DEF Frame
  <1>3. Frame(Idle, now, issued)
    BY DEF Frame, Idle
  <1>4. ASSUME UNCHANGED storeVars
        PROVE  [Next]_storeVars /\ now' = now /\ issued' = issued
    BY <1>4 DEF storeVars
  <1>5. CASE ClaimReap(p)
    <2>1. f.stamp \in Stamp /\ f.step = "reap"
      BY <1>1, <1>5 DEF ClaimReap, At, Stamp
    <2>2. Next /\ now' = now /\ issued' = issued
      BY <1>5, <2>1 DEF ClaimReap, ReapExpired, Close, Next, Reap
    <2>3. Frame([f EXCEPT !.step = "claim"], now, issued)
      BY <1>1, <2>1 DEF Frame
    <2> QED BY <1>5, <2>2, <2>3, TurnGood DEF ClaimReap
  <1>6. CASE ClaimTake(p)
    <2>1. f.stamp \in Stamp /\ f.exts \in SUBSET Ext
      BY <1>1, <1>6 DEF ClaimTake, At, Stamp
    <2>2. PICK j \in Live :
              /\ ClaimNext(j, f.exts, f.stamp)
              /\ Goto(p, [step |-> "content", stamp |-> f.stamp, job |-> j,
                          hash |-> jobs[j].hash])
      BY <1>6 DEF ClaimTake
    <2>3. Next /\ now' = now /\ issued' = issued
      BY <2>1, <2>2 DEF ClaimNext, Next, Claim
    <2>4. j \in issued /\ jobs[j].hash \in Hash
      BY DEF Typed, Shapes, Job
    <2>5. Frame([step |-> "content", stamp |-> f.stamp, job |-> j,
                 hash |-> jobs[j].hash], now, issued)
      BY <2>1, <2>4 DEF Frame, Stamp
    <2> QED BY <2>2, <2>3, <2>5, TurnGood
  <1>7. CASE ClaimEmpty(p)
    <2>1. /\ UNCHANGED storeVars /\ f.step = "claim"
          /\ \/ Goto(p, [f EXCEPT !.step = "sleep"])
             \/ Return(p, [kind |-> "empty"])
      BY <1>7 DEF ClaimEmpty, At
    <2>2. Frame([f EXCEPT !.step = "sleep"], now, issued)
      BY <1>1, <2>1 DEF Frame
    <2> QED BY <1>4, <2>1, <2>2, TurnGood
  <1>8. CASE ClaimWake(p)
    <2>1. /\ UNCHANGED storeVars /\ f.step = "sleep"
          /\ \/ Goto(p, [f EXCEPT !.step = "reap", !.stamp = now])
             \/ Return(p, [kind |-> "empty"])
      BY <1>8 DEF ClaimWake, At
    <2>2. Frame([f EXCEPT !.step = "reap", !.stamp = now], now, issued)
      <3>1. now \in 0 .. now
        BY <1>0
      <3> QED BY <1>1, <2>1, <3>1 DEF Frame
    <2> QED BY <1>4, <2>1, <2>2, TurnGood
  <1>9. CASE ClaimContent(p)
    <2> DEFINE s == IF f.hash \in contents THEN "reread" ELSE "missing"
    <2>1. /\ UNCHANGED storeVars /\ f.step = "content"
          /\ Goto(p, [f EXCEPT !.step = s])
      BY <1>9 DEF ClaimContent, At
    <2>2. Frame([f EXCEPT !.step = s], now, issued)
      BY <1>2, <2>1 DEF Frame
    <2> QED BY <1>4, <2>1, <2>2, TurnGood
  <1>10. CASE ClaimReread(p)
    <2>1. UNCHANGED storeVars /\ \E r : Return(p, r)
      BY <1>10 DEF ClaimReread
    <2> QED BY <1>3, <1>4, <2>1, TurnGood
  <1>11. CASE ClaimMissing(p)
    <2>1. /\ UNCHANGED storeVars /\ f.step = "missing"
          /\ Goto(p, [f EXCEPT !.step = "markmissing"]) \/ \E r : Return(p, r)
      BY <1>11 DEF ClaimMissing, At
    <2>2. Frame([f EXCEPT !.step = "markmissing"], now, issued)
      BY <1>2, <2>1 DEF Frame
    <2> QED BY <1>4, <2>1, <2>2, TurnGood
  <1>12. CASE ClaimMarkMissing(p)
    <2>1. \E r : Return(p, r)
      BY <1>12 DEF ClaimMarkMissing
    <2>2. CASE UNCHANGED storeVars
      BY <1>3, <1>4, <2>1, <2>2, TurnGood
    <2>3. CASE RecordJobTerminal(f.job, "failed", "job-file-missing",
                                 jobs[f.job].claimed, f.stamp)
      <3>1. f.job \in Live /\ f.stamp \in Stamp
        BY <1>2, <1>12, <2>3 DEF ClaimMarkMissing, At, RecordJobTerminal,
                                InStatus, Stamp
      <3>2. Next /\ now' = now /\ issued' = issued
        BY <2>3, <3>1 DEF RecordJobTerminal, FailReason, Next, Record
      <3> QED BY <1>3, <2>1, <3>2, TurnGood
    <2> QED BY <1>12, <2>2, <2>3 DEF ClaimMarkMissing
  <1> QED BY <1>5, <1>6, <1>7, <1>8, <1>9, <1>10, <1>11, <1>12 DEF ClaimStep

\* A row that is stamped anew is a request of the new instant.
LEMMA Restamped ==
    ASSUME NEW t \in Nat, NEW r, Requested(r, t)
    PROVE  Requested([r EXCEPT !.created = t], t)
  <1>1. PICK u \in 0 .. t : r \in NewRows(u)
    BY DEF Requested
  <1>2. PICK h \in Hash, g \in Target, af \in BOOLEAN, q \in Priority,
             ttl \in Ttl \cup {Null} :
             r = NewJob(h, h.node, g, af, q, ttl, u)
    BY <1>1 DEF NewRows
  <1> DEFINE c == [r EXCEPT !.created = t]
  <1>3. c = NewJob(h, h.node, g, af, q, ttl, t)
    BY <1>2 DEF NewJob
  <1>4. c \in NewRows(t) /\ t \in 0 .. t
    BY <1>3 DEF NewRows
  <1>5. /\ c.hash = r.hash /\ c.findings = r.findings /\ c.autoFix = r.autoFix
    BY <1>2, <1>3 DEF NewJob
  <1>6. ValidRow(c)
    BY <1>5 DEF ValidRow, Requested
  <1> QED BY <1>4, <1>6 DEF Requested

LEMMA SubmitGood ==
    ASSUME Typed, Framed, NEW p \in Proc, SubmitStep(p)
    PROVE  Good
  <1> DEFINE f == op[p]
  <1>0. Frame(f, now, issued) /\ now \in Nat
    BY DEF Framed, Typed, Shapes
  <1>1. ASSUME f.step \in {"check", "render", "insert"}
        PROVE  /\ DOMAIN f = {"step", "row", "todo", "chained"}
               /\ Requested(f.row, now)
    BY <1>0, <1>1 DEF Frame
  <1>2. ASSUME NEW reply, Submitted(p, reply), [Next]_storeVars, now' = now,
               issued \subseteq issued'
        PROVE  Good
    <2>1. \/ Goto(p, [step |-> "chain", todo |-> f.todo])
          \/ \E r : Return(p, r)
      BY <1>2 DEF Submitted
    <2>2. Frame([step |-> "chain", todo |-> f.todo], now, issued')
      BY DEF Frame
    <2> QED BY <1>2, <2>1, <2>2, TurnGood
  <1>3. ASSUME UNCHANGED storeVars
        PROVE  [Next]_storeVars /\ now' = now /\ issued' = issued
    BY <1>3 DEF storeVars
  <1>4. CASE SubmitCheck(p)
    <2>1. /\ UNCHANGED storeVars /\ f.step = "check"
          /\ Goto(p, [f EXCEPT !.step = "render"]) \/ \E r : Submitted(p, r)
      BY <1>4 DEF SubmitCheck, At
    <2>2. Frame([f EXCEPT !.step = "render"], now, issued)
      BY <1>1, <2>1 DEF Frame
    <2> QED BY <1>2, <1>3, <2>1, <2>2, TurnGood
  <1>5. CASE SubmitRender(p)
    <2>1. /\ UNCHANGED storeVars /\ f.step = "render"
          /\ \/ Goto(p, [f EXCEPT !.step = "insert", !.row.created = now])
             \/ \E r : Submitted(p, r)
      BY <1>5 DEF SubmitRender, At
    <2> DEFINE g == [f EXCEPT !.step = "insert", !.row.created = now]
    <2>2. /\ DOMAIN g = {"step", "row", "todo", "chained"}
          /\ g.step = "insert" /\ g.row = [f.row EXCEPT !.created = now]
      BY <1>1, <2>1
    <2>3. Requested([f.row EXCEPT !.created = now], now)
      BY <1>0, <1>1, <2>1, Restamped
    <2>4. Frame(g, now, issued)
      BY <2>2, <2>3 DEF Frame
    <2> QED BY <1>2, <1>3, <2>1, <2>4, TurnGood
  <1>6. CASE SubmitInsert(p)
    <2>1. PICK id \in JobId \ issued :
              /\ SubmitJob(id, f.row) \/ SubmitFixerJob(id, f.row)
              /\ Submitted(p, Reply("created", id))
      BY <1>6 DEF SubmitInsert
    <2>2. Requested(f.row, now)
      BY <1>1, <1>6 DEF SubmitInsert, At
    <2>3. Next
      BY <2>1, <2>2 DEF Requested, Stamp, Next, Submit
    <2>4. now' = now /\ issued \subseteq issued'
      BY <2>1 DEF SubmitJob, SubmitFixerJob, Enqueue
    <2> QED BY <1>2, <2>1, <2>3, <2>4
  <1>7. CASE SubmitFixerRefused(p)
    <2>1. UNCHANGED storeVars /\ \E r : Submitted(p, r)
      BY <1>7 DEF SubmitFixerRefused
    <2> QED BY <1>2, <1>3, <2>1
  <1>8. CASE SubmitConflict(p)
    <2>1. PICK id \in JobId \ issued :
              Goto(p, [step |-> "lookup", row |-> f.row, id |-> id,
                       todo |-> f.todo, chained |-> f.chained])
      BY <1>8 DEF SubmitConflict
    <2>2. Frame([step |-> "lookup", row |-> f.row, id |-> id,
                 todo |-> f.todo, chained |-> f.chained], now, issued)
      BY DEF Frame
    <2> QED BY <1>3, <1>8, <2>1, <2>2, TurnGood DEF SubmitConflict
  <1>9. CASE SubmitLookup(p)
    <2>1. UNCHANGED storeVars /\ \E r : Submitted(p, r)
      BY <1>9 DEF SubmitLookup
    <2> QED BY <1>2, <1>3, <2>1
  <1> QED BY <1>4, <1>5, <1>6, <1>7, <1>8, <1>9 DEF SubmitStep

LEMMA RecordGood ==
    ASSUME Typed, Framed, NEW p \in Proc, RecordStep(p)
    PROVE  Good
  <1> DEFINE f == op[p]
  <1>0. Frame(f, now, issued) /\ now \in Nat
    BY DEF Framed, Typed, Shapes
  <1>1. ASSUME f.step \in {"load", "close"}
        PROVE  f.job \in issued /\ f.stamp \in 0 .. now
    BY <1>0, <1>1 DEF Frame
  <1>2. ASSUME UNCHANGED storeVars
        PROVE  [Next]_storeVars /\ now' = now /\ issued' = issued
    BY <1>2 DEF storeVars
  <1>3. Frame(Idle, now, issued)
    BY DEF Frame, Idle
  <1>4. CASE RecordLoad(p)
    <2> DEFINE g == [step |-> "close", job |-> f.job, status |-> f.status,
                     stamp |-> f.stamp, node |-> jobs[f.job].node]
    <2>1. /\ UNCHANGED storeVars /\ f.step = "load"
          /\ Goto(p, g) \/ \E r : Return(p, r)
      BY <1>4 DEF RecordLoad, At
    <2>2. Frame(g, now, issued)
      BY <1>1, <2>1 DEF Frame
    <2> QED BY <1>2, <2>1, <2>2, TurnGood
  <1>5. CASE RecordClose(p)
    <2>1. PICK v \in Verdict(f.status) :
              /\ RecordJobTerminal(f.job, v[1], v[2], jobs[f.job].claimed, f.stamp)
              /\ \E todo : op' = [op EXCEPT ![p] = [step |-> "chain",
                                                    todo |-> todo]]
              /\ answer' = [answer EXCEPT ![p] = Reply("recorded", f.job)]
      BY <1>5 DEF RecordClose
    <2>2. f.job \in Live /\ f.stamp \in Stamp
      BY <1>1, <1>5, <2>1 DEF RecordClose, At, RecordJobTerminal, InStatus, Stamp
    <2>3. \/ v[1] = "completed" /\ v[2] = Null
          \/ v[1] = "failed" /\ v[2] \in FailReason
      BY <2>1 DEF Verdict, FailReason
    <2>4. Next
      BY <2>1, <2>2, <2>3 DEF Next, Record
    <2>5. now' = now /\ issued' = issued
      BY <2>1 DEF RecordJobTerminal
    <2>6. \A todo : Frame([step |-> "chain", todo |-> todo], now', issued')
      BY DEF Frame
    <2>7. DOMAIN answer' = DOMAIN answer
      BY <2>1
    <2>8. now \in Nat /\ now' \in Nat /\ now <= now' /\ issued \subseteq issued'
      BY <1>0, <2>5
    <2>9. Framed'
      BY <2>1, <2>6, <2>7, <2>8, Resume
    <2> QED BY <2>4, <2>9 DEF Good
  <1>6. CASE RecordUnresolved(p)
    <2>1. UNCHANGED storeVars /\ \E r : Return(p, r)
      BY <1>6 DEF RecordUnresolved
    <2> QED BY <1>2, <1>3, <2>1, TurnGood
  <1>7. CASE RecordLost(p)
    <2>1. UNCHANGED storeVars /\ \E r : Return(p, r)
      BY <1>7 DEF RecordLost
    <2> QED BY <1>2, <1>3, <2>1, TurnGood
  <1>8. CASE ChainNext(p)
    <2>1. PICK e \in f.todo :
              \/ Goto(p, [step |-> "chain", todo |-> f.todo \ {e}])
              \/ \E r \in NewRows(0) :
                    /\ ValidRow(r)
                    /\ Goto(p, [step |-> "check", row |-> r,
                                todo |-> f.todo \ {e}, chained |-> TRUE])
      BY <1>8 DEF ChainNext
    <2>2. UNCHANGED storeVars
      BY <1>8 DEF ChainNext
    <2>3. CASE Goto(p, [step |-> "chain", todo |-> f.todo \ {e}])
      <3>1. Frame([step |-> "chain", todo |-> f.todo \ {e}], now, issued)
        BY DEF Frame
      <3> QED BY <1>2, <2>2, <2>3, <3>1, TurnGood
    <2>4. ASSUME NEW r \in NewRows(0), ValidRow(r),
                 Goto(p, [step |-> "check", row |-> r, todo |-> f.todo \ {e},
                          chained |-> TRUE])
          PROVE  Good
      <3>1. Requested(r, now)
        BY <1>0, <2>4 DEF Requested
      <3>2. Frame([step |-> "check", row |-> r, todo |-> f.todo \ {e},
                   chained |-> TRUE], now, issued)
        BY <3>1 DEF Frame
      <3> QED BY <1>2, <2>2, <2>4, <3>2, TurnGood
    <2> QED BY <2>1, <2>3, <2>4
  <1>9. CASE ChainDone(p) \/ RecordThrows(p)
    <2>1. UNCHANGED storeVars /\ Goto(p, Idle)
      BY <1>9 DEF ChainDone, RecordThrows
    <2> QED BY <1>2, <1>3, <2>1, TurnGood
  <1> QED BY <1>4, <1>5, <1>6, <1>7, <1>8, <1>9 DEF RecordStep

LEMMA CascadeGood ==
    ASSUME Typed, Framed, NEW p \in Proc, CascadeStep(p)
    PROVE  Good
  <1> DEFINE f == op[p]
  <1>0. Frame(f, now, issued) /\ now \in Nat /\ Live \subseteq issued
    BY DEF Framed, Typed, Shapes
  <1>1. ASSUME UNCHANGED storeVars
        PROVE  [Next]_storeVars /\ now' = now /\ issued' = issued
    BY <1>1 DEF storeVars
  <1>2. CASE CascadeList(p)
    <2> DEFINE g == [step |-> "cancel", stamp |-> f.stamp,
                     list |-> Claimable({f.ext})]
    <2>1. f.step = "list" /\ UNCHANGED storeVars /\ Goto(p, g)
      BY <1>2 DEF CascadeList, At
    <2>2. f.stamp \in 0 .. now
      BY <1>0, <2>1 DEF Frame
    <2>3. Claimable({f.ext}) \subseteq issued
      BY <1>0 DEF Claimable, InStatus
    <2>4. Frame(g, now, issued)
      BY <2>2, <2>3 DEF Frame
    <2> QED BY <1>1, <2>1, <2>4, TurnGood
  <1>3. CASE CascadeCancel(p)
    <2>1. f \in [step : {"cancel"}, stamp : 0 .. now, list : SUBSET issued]
      BY <1>0, <1>3 DEF CascadeCancel, At, Frame
    <2>2. PICK j \in f.list :
              /\ CancelJob(j, f.stamp) \/ UNCHANGED storeVars
              /\ Goto(p, [f EXCEPT !.list = @ \ {j}])
      BY <1>3 DEF CascadeCancel
    <2>3. Frame([f EXCEPT !.list = @ \ {j}], now, issued)
      BY <2>1 DEF Frame
    <2>4. [Next]_storeVars /\ now' = now /\ issued' = issued
      <3>1. CASE CancelJob(j, f.stamp)
        <4>1. j \in Live /\ f.stamp \in Stamp
          BY <2>1, <3>1 DEF CancelJob, Active, Stamp
        <4> QED BY <3>1, <4>1 DEF CancelJob, Close, Next, Cancel
      <3> QED BY <1>1, <2>2, <3>1
    <2> QED BY <2>2, <2>3, <2>4, TurnGood
  <1>4. CASE CascadeDone(p)
    <2>1. UNCHANGED storeVars /\ Return(p, [kind |-> "cascaded"])
      BY <1>4 DEF CascadeDone
    <2>2. Frame(Idle, now, issued)
      BY DEF Frame, Idle
    <2> QED BY <1>1, <2>1, <2>2, TurnGood
  <1> QED BY <1>2, <1>3, <1>4 DEF CascadeStep

LEMMA OperatorGood ==
    ASSUME Typed, Framed, Operator
    PROVE  Good
  <1>0. now \in Nat /\ now \in Stamp
    BY DEF Typed, Shapes, Stamp
  <1>1. CASE (\E j \in Live : CancelJob(j, now)) \/ CancelAllActive(now)
    <2>1. Next
      BY <1>0, <1>1 DEF Next, Cancel
    <2>2. now' = now /\ issued' = issued
      BY <1>1 DEF CancelJob, CancelAllActive, Close
    <2> QED BY <1>0, <2>1, <2>2, Stay DEF Operator, queueVars, Good
  <1>2. CASE (\E j \in Live : FailJob(j, now)) \/ FailAllActive(now)
    <2>1. Next
      BY <1>0, <1>2 DEF Next, Fail
    <2>2. now' = now /\ issued' = issued
      BY <1>2 DEF FailJob, FailAllActive, Close
    <2> QED BY <1>0, <2>1, <2>2, Stay DEF Operator, queueVars, Good
  <1>3. CASE \E s \in TerminalStatus, cutoff \in 0 .. now + 1 :
                 PruneTerminalJobs(s, cutoff)
    <2>1. Next
      BY <1>3 DEF Next, Prune
    <2>2. now' = now /\ issued' = issued
      BY <1>3 DEF PruneTerminalJobs
    <2> QED BY <1>0, <2>1, <2>2, Stay DEF Operator, queueVars, Good
  <1>4. CASE Migrate
    <2>1. Next
      BY <1>4 DEF Next
    <2>2. now' = now /\ issued' = issued
      BY <1>4 DEF Migrate, MigrateJobs
    <2> QED BY <1>0, <2>1, <2>2, Stay DEF Operator, queueVars, Good
  <1> QED BY <1>1, <1>2, <1>3, <1>4 DEF Operator

LEMMA QueueGood ==
    ASSUME Typed, Framed, [QueueNext]_vars
    PROVE  Good \/ (Framed' /\ Corrupt)
  <1>0. now \in Nat
    BY DEF Typed, Shapes
  <1>1. CASE UNCHANGED vars
    <2>1. UNCHANGED <<op, answer, now, issued>> /\ UNCHANGED storeVars
      BY <1>1 DEF vars, queueVars, storeVars
    <2>2. Framed'
      BY <1>0, <2>1, Stay
    <2> QED BY <2>1, <2>2 DEF Good
  <1>2. CASE Clock
    <2>1. UNCHANGED <<op, answer, issued>> /\ now' = now + 1 /\ Next
      BY <1>2 DEF Clock, Tick, queueVars, Next
    <2>2. now' \in Nat /\ now <= now'
      BY <1>0, <2>1
    <2>3. Framed'
      BY <1>0, <2>1, <2>2, Stay
    <2> QED BY <2>1, <2>3 DEF Good
  <1>3. CASE Corrupt
    <2>1. UNCHANGED <<op, answer, issued, now>>
      BY <1>3 DEF Corrupt, queueVars
    <2>2. now <= now' /\ now' \in Nat /\ issued \subseteq issued'
      BY <1>0, <2>1
    <2> QED BY <1>0, <1>3, <2>1, <2>2, Stay
  <1>4. ASSUME NEW p \in Proc, Crash(p)
        PROVE  Good
    <2>1. /\ op' = [op EXCEPT ![p] = Idle] /\ DOMAIN answer' = DOMAIN answer
          /\ UNCHANGED storeVars
      BY <1>4 DEF Crash
    <2>2. /\ now' \in Nat /\ now <= now' /\ issued \subseteq issued'
          /\ Frame(Idle, now', issued')
      BY <1>0, <2>1 DEF storeVars, Frame, Idle
    <2>3. Framed'
      BY <1>0, <2>1, <2>2, Resume
    <2> QED BY <2>1, <2>3 DEF Good
  <1>5. ASSUME NEW p \in Proc, Step(p)
        PROVE  Good
    BY <1>5, ClaimGood, SubmitGood, RecordGood, CascadeGood DEF Step
  <1>6. CASE \E p \in Proc : Start(p) \/ Step(p) \/ Crash(p)
    BY <1>4, <1>5, <1>6, StartGood
  <1>7. CASE Operator
    BY <1>7, OperatorGood
  <1> QED BY <1>1, <1>2, <1>3, <1>6, <1>7 DEF QueueNext

-----------------------------------------------------------------------------
(***************************************************************************)
(* What the tables never take back, whoever acts on them.                  *)
(***************************************************************************)
Recorded(j) == \E i \in DOMAIN executions : executions[i].job = j

LEMMA NeverAgain ==
    ASSUME Typed, StoreStep
    PROVE  /\ issued \subseteq issued'
           /\ \A j \in issued : j \notin Active => j \notin Active'
           /\ \A j \in issued :
                 j \notin InStatus("queued") => j \notin InStatus("queued")'
           /\ \A j : Recorded(j) => Recorded(j)'
  <1>0. Active \subseteq Live /\ Live \subseteq issued
    BY DEF Active, Typed, Shapes
  <1>1. CASE UNCHANGED <<jobs, executions, issued>>
    BY <1>1 DEF Active, Live, InStatus, Recorded
  <1>2. ASSUME NEW id \in JobId, NEW r \in Job, NEW stale \in SUBSET Live,
               Admits(id, r, stale)
        PROVE  /\ issued \subseteq issued' /\ id \notin issued
               /\ \A j \in issued : j \in Active' => j \in Active
               /\ \A j \in issued : j \in InStatus("queued")' => j \in InStatus("queued")
               /\ executions' = executions
    <2>1. /\ id \notin issued /\ issued' = issued \cup {id}
          /\ executions' = executions
      BY <1>2 DEF Admits, Enqueue
    <2>2. /\ Live' = Live \cup {id}
          /\ Active' = (Active \ stale) \cup {id}
          /\ \A j \in Live \ stale : jobs'[j] = jobs[j]
          /\ \A j \in stale : jobs'[j].status = "cancelled"
      BY <1>2, AdmitFrame
    <2> QED BY <2>1, <2>2 DEF InStatus
  <1>3. ASSUME NEW k \in Live, Claims(k)
        PROVE  /\ issued' = issued /\ executions' = executions /\ Active' = Active
               /\ InStatus("queued")' \subseteq InStatus("queued")
    BY <1>3, ClaimFrame DEF InStatus
  <1>4. ASSUME NEW S \in SUBSET Active, Closes(S)
        PROVE  /\ issued' = issued /\ executions' = executions
               /\ Active' \subseteq Active
               /\ InStatus("queued")' \subseteq InStatus("queued")
    BY <1>4, CloseFrame DEF InStatus
  <1>5. ASSUME NEW k \in Live, Records(k)
        PROVE  /\ issued' = issued /\ Active' \subseteq Active
               /\ InStatus("queued")' \subseteq InStatus("queued")
               /\ \A j : Recorded(j) => Recorded(j)'
    <2>1. /\ Live' = Live /\ Active' = Active \ {k} /\ issued' = issued
          /\ \A j \in Live \ {k} : jobs'[j] = jobs[j]
          /\ \E e \in Execution : /\ executions' = Append(executions, e)
                                  /\ jobs'[k].status = e.status
      BY <1>5, RecordFrame
    <2>2. PICK e \in Execution : /\ executions' = Append(executions, e)
                                 /\ jobs'[k].status = e.status
      BY <2>1
    <2>3. /\ DOMAIN executions \subseteq DOMAIN executions'
          /\ \A i \in DOMAIN executions : executions'[i] = executions[i]
      BY <2>2 DEF Typed, Shapes
    <2>4. \A j : Recorded(j) => Recorded(j)'
      BY <2>3 DEF Recorded
    <2>5. InStatus("queued")' \subseteq InStatus("queued")
      BY <2>1, <2>2 DEF InStatus, Execution
    <2> QED BY <2>1, <2>4, <2>5
  <1>6. CASE Prunes
    <2>1. /\ issued' = issued /\ executions' = executions /\ Active' = Active
          /\ Live' \subseteq Live /\ \A k \in Live' : jobs'[k] = jobs[k]
      BY <1>6, PruneFrame
    <2> QED BY <2>1 DEF InStatus, Recorded
  <1>7. CASE Moves
    <2>1. PICK from \in Node, to \in Node : MigrateJobs(from, to)
      BY <1>7 DEF Moves
    <2>2. /\ Live' = Live /\ Active' = Active /\ UNCHANGED <<executions, issued>>
          /\ \A k \in Live : jobs'[k].status = jobs[k].status
      BY <2>1, MoveFrame
    <2> QED BY <2>2 DEF InStatus, Recorded
  <1>8. CASE \E id \in JobId, r \in Job : \E stale \in SUBSET Live :
                 Admits(id, r, stale)
    BY <1>2, <1>8 DEF Recorded
  <1>9. CASE \/ \E k \in Live : Claims(k)
             \/ \E S \in SUBSET Active : Closes(S)
             \/ \E k \in Live : Records(k)
    BY <1>3, <1>4, <1>5, <1>9 DEF Recorded
  <1>10. CASE Next
    BY <1>1, <1>6, <1>7, <1>8, <1>9, <1>10, StepShapes
  <1>11. CASE UNCHANGED storeVars \/ Vanish
    BY <1>1, <1>11 DEF storeVars, Vanish
  <1> QED BY <1>10, <1>11 DEF StoreStep

LEMMA StoreTyped ==
    ASSUME Typed, StoreStep
    PROVE  Typed'
  <1>1. CASE Vanish
    BY <1>1 DEF Vanish, Typed, Shapes, RowsAgree, Live
  <1> QED BY <1>1, ActionTyped DEF StoreStep

LEMMA StoreKeys ==
    ASSUME Typed, OneActivePerKey, StoreStep
    PROVE  OneActivePerKey'
  <1>1. CASE Vanish
    BY <1>1 DEF Vanish, OneActivePerKey, Active, Live
  <1> QED BY <1>1, KeyStep DEF StoreStep

LEMMA StoreHistory ==
    ASSUME Typed, HistoryAgrees, StoreStep
    PROVE  HistoryAgrees'
  <1>1. CASE Vanish
    BY <1>1 DEF Vanish, HistoryAgrees, Agrees, Live
  <1> QED BY <1>1, HistoryStep DEF StoreStep

\* The part of the invariant that says nothing of the answers.
Sound == Typed /\ Framed /\ OneActivePerKey /\ HistoryAgrees

LEMMA SoundInit == QueueInit => Sound
  <1> SUFFICES ASSUME QueueInit PROVE Sound
    OBVIOUS
  <1>1. Typed /\ OneActivePerKey /\ HistoryAgrees
    BY DEF QueueInit, Init, Typed, Shapes, RowsAgree, Live, Job,
           OneActivePerKey, Active, HistoryAgrees
  <1>2. Framed
    BY DEF QueueInit, Framed, Frame, Idle
  <1> QED BY <1>1, <1>2 DEF Sound

LEMMA SoundStep ==
    ASSUME Sound, [QueueNext]_vars
    PROVE  Sound' /\ StoreStep
  <1>1. Corrupt => Vanish
    BY DEF Corrupt, Vanish
  <1>2. Framed' /\ StoreStep
    BY <1>1, QueueGood DEF Sound, Good, StoreStep
  <1> QED BY <1>2, StoreTyped, StoreKeys, StoreHistory DEF Sound

LEMMA AlwaysSound == QueueSpec => []Sound
  <1>1. Sound /\ [QueueNext]_vars => Sound'
    BY SoundStep
  <1> QED BY <1>1, SoundInit, PTL DEF QueueSpec

-----------------------------------------------------------------------------
(***************************************************************************)
(* The refinement, and what the tables keep under it.                      *)
(***************************************************************************)

\* Every engine drives the tables through the transactions of JobStore only:
\* whatever changed between its reads and its writes, the arguments a frame
\* kept are arguments those transactions admit.  (Content rows that vanish by
\* external means are no transaction of anybody.)
THEOREM EnginesImplementStore ==
    ASSUME ~Corruption
    PROVE  QueueSpec => EnginesUseStore
  <1>1. QueueInit => Init
    BY DEF QueueInit
  <1>2. Sound /\ [QueueNext]_vars => [Next]_storeVars
    <2>1. ~Corrupt
      BY DEF Corrupt
    <2> QED BY <2>1, QueueGood DEF Sound, Good
  <1> QED BY <1>1, <1>2, AlwaysSound, PTL DEF QueueSpec, Spec, EnginesUseStore

\* At most one live job per key, with content rows vanishing at any time.
THEOREM NoDuplicateWorkByEngines == QueueSpec => []OneActivePerKey
  BY AlwaysSound, PTL DEF Sound

-----------------------------------------------------------------------------
(***************************************************************************)
(* Who was told what.  Six steps hand out or settle a job; every other one *)
(* holds nothing afterwards and says nothing that matters.                 *)
(***************************************************************************)
Unmoved(p) == op'[p] = op[p] /\ answer'[p] = answer[p]

Silent(p) == /\ op'[p].step \notin {"content", "reread"}
             /\ \/ answer'[p] = answer[p]
                \/ answer'[p].kind \notin {"claimed", "recorded", "corrupt"}

Telling(p) == \/ ClaimTake(p) \/ ClaimContent(p) \/ ClaimReread(p)
              \/ ClaimMissing(p) \/ ClaimMarkMissing(p) \/ RecordClose(p)

Turn(p) == /\ Silent(p) \/ Telling(p)
           /\ \A q \in Proc \ {p} : Unmoved(q)

LEMMA OthersUnmoved ==
    ASSUME Framed, NEW p \in Proc, NEW f,
           Goto(p, f) \/ (\E r : Begin(p, f) \/ Return(p, r))
    PROVE  \A q \in Proc \ {p} : Unmoved(q)
  BY DEF Goto, Begin, Return, Unmoved, Framed

LEMMA GotoTurn ==
    ASSUME Framed, NEW p \in Proc, NEW f, Goto(p, f),
           f.step \notin {"content", "reread"}
    PROVE  Turn(p)
  BY DEF Goto, Turn, Silent, Unmoved, Framed

LEMMA ReturnTurn ==
    ASSUME Framed, NEW p \in Proc, NEW r, Return(p, r),
           r.kind \notin {"claimed", "recorded", "corrupt"}
    PROVE  Turn(p)
  BY DEF Return, Turn, Silent, Unmoved, Framed, Idle

LEMMA BeginTurn ==
    ASSUME Framed, NEW p \in Proc, NEW f, Begin(p, f),
           f.step \notin {"content", "reread"}
    PROVE  Turn(p)
  BY DEF Begin, Turn, Silent, Unmoved, Framed, NoReply

LEMMA SubmittedTurn ==
    ASSUME Framed, NEW p \in Proc, NEW r, Submitted(p, r),
           r.kind \notin {"claimed", "recorded", "corrupt"}
    PROVE  Turn(p)
  <1>1. [step |-> "chain", todo |-> op[p].todo].step = "chain"
    OBVIOUS
  <1> QED BY <1>1, GotoTurn, ReturnTurn DEF Submitted

LEMMA TellingTurn ==
    ASSUME Framed, NEW p \in Proc, Telling(p)
    PROVE  Turn(p)
  <1>1. \A q \in Proc \ {p} : Unmoved(q)
    BY DEF Telling, ClaimTake, ClaimContent, ClaimReread, ClaimMissing,
           ClaimMarkMissing, RecordClose, Goto, Return, Unmoved, Framed
  <1> QED BY <1>1 DEF Turn

LEMMA EngineTurn ==
    ASSUME Framed, NEW p \in Proc, Start(p) \/ Step(p) \/ Crash(p)
    PROVE  Turn(p)
  <1> DEFINE f == op[p]
  <1>0. Frame(f, now, issued)
    BY DEF Framed
  <1>1. CASE Start(p)
    <2>1. CASE StartClaim(p)
      <3>1. PICK g : Begin(p, g) /\ g.step = "reap"
        BY <2>1 DEF StartClaim
      <3> QED BY <3>1, BeginTurn
    <2>2. CASE StartSubmit(p)
      <3>1. PICK g : Begin(p, g) /\ g.step \in {"render", "check"}
        BY <2>2 DEF StartSubmit
      <3> QED BY <3>1, BeginTurn
    <2>3. CASE StartRecord(p)
      <3>1. PICK g : Begin(p, g) /\ g.step = "load"
        BY <2>3 DEF StartRecord
      <3> QED BY <3>1, BeginTurn
    <2>4. CASE StartCascade(p)
      <3>1. PICK g : Begin(p, g) /\ g.step = "list"
        BY <2>4 DEF StartCascade
      <3> QED BY <3>1, BeginTurn
    <2> QED BY <1>1, <2>1, <2>2, <2>3, <2>4 DEF Start
  <1>2. CASE Crash(p)
    <2>1. op' = [op EXCEPT ![p] = Idle] /\ answer' = [answer EXCEPT ![p] = NoReply]
      BY <1>2 DEF Crash
    <2> QED BY <2>1 DEF Turn, Silent, Unmoved, Framed, Idle, NoReply
  <1>3. CASE ClaimReap(p)
    <2>1. f.step = "reap" /\ Goto(p, [f EXCEPT !.step = "claim"])
      BY <1>3 DEF ClaimReap, At
    <2>2. [f EXCEPT !.step = "claim"].step = "claim"
      BY <1>0, <2>1 DEF Frame
    <2> QED BY <2>1, <2>2, GotoTurn
  <1>4. CASE ClaimEmpty(p)
    <2>1. /\ f.step = "claim"
          /\ \/ Goto(p, [f EXCEPT !.step = "sleep"])
             \/ Return(p, [kind |-> "empty"])
      BY <1>4 DEF ClaimEmpty, At
    <2>2. [f EXCEPT !.step = "sleep"].step = "sleep"
      BY <1>0, <2>1 DEF Frame
    <2> QED BY <2>1, <2>2, GotoTurn, ReturnTurn
  <1>5. CASE ClaimWake(p)
    <2>1. /\ f.step = "sleep"
          /\ \/ Goto(p, [f EXCEPT !.step = "reap", !.stamp = now])
             \/ Return(p, [kind |-> "empty"])
      BY <1>5 DEF ClaimWake, At
    <2>2. [f EXCEPT !.step = "reap", !.stamp = now].step = "reap"
      BY <1>0, <2>1 DEF Frame
    <2> QED BY <2>1, <2>2, GotoTurn, ReturnTurn
  <1>6. CASE SubmitStep(p)
    <2>1. ASSUME NEW k, k \notin {"claimed", "recorded", "corrupt"}, NEW j,
                 Submitted(p, Reply(k, j)) \/ Submitted(p, [kind |-> k])
          PROVE  Turn(p)
      <3>1. Reply(k, j).kind = k /\ [kind |-> k].kind = k
        BY DEF Reply
      <3> QED BY <2>1, <3>1, SubmittedTurn
    <2>2. CASE SubmitCheck(p)
      <3>1. /\ f.step = "check"
            /\ \/ Goto(p, [f EXCEPT !.step = "render"])
               \/ \E k : Submitted(p, Reply("duplicate", k))
        BY <2>2 DEF SubmitCheck, At
      <3>2. [f EXCEPT !.step = "render"].step = "render"
        BY <1>0, <3>1 DEF Frame
      <3> QED BY <2>1, <3>1, <3>2, GotoTurn
    <2>3. CASE SubmitRender(p)
      <3>1. /\ f.step = "render"
            /\ \/ Goto(p, [f EXCEPT !.step = "insert", !.row.created = now])
               \/ Submitted(p, [kind |-> "drift"])
        BY <2>3 DEF SubmitRender, At
      <3>2. [f EXCEPT !.step = "insert", !.row.created = now].step = "insert"
        BY <1>0, <3>1 DEF Frame
      <3> QED BY <2>1, <3>1, <3>2, GotoTurn
    <2>4. CASE SubmitInsert(p)
      BY <2>1, <2>4 DEF SubmitInsert
    <2>5. CASE SubmitFixerRefused(p)
      BY <2>1, <2>5 DEF SubmitFixerRefused
    <2>6. CASE SubmitConflict(p)
      <3>1. PICK id : Goto(p, [step |-> "lookup", row |-> f.row, id |-> id,
                               todo |-> f.todo, chained |-> f.chained])
        BY <2>6 DEF SubmitConflict
      <3> QED BY <3>1, GotoTurn
    <2>7. CASE SubmitLookup(p)
      BY <2>1, <2>7 DEF SubmitLookup
    <2> QED BY <1>6, <2>2, <2>3, <2>4, <2>5, <2>6, <2>7 DEF SubmitStep
  <1>7. ASSUME NEW r, Return(p, r), r \in {[kind |-> "unresolved"],
                                          [kind |-> "cascaded"],
                                          [kind |-> "refused"]}
        PROVE  Turn(p)
    <2>1. r.kind \notin {"claimed", "recorded", "corrupt"}
      BY <1>7 DEF Reply
    <2> QED BY <1>7, <2>1, ReturnTurn
  <1>8. CASE RecordLoad(p)
    <2>1. \/ \E g : Goto(p, g) /\ g.step = "close"
          \/ Return(p, [kind |-> "refused"])
      BY <1>8 DEF RecordLoad
    <2> QED BY <1>7, <2>1, GotoTurn
  <1>9. CASE RecordUnresolved(p) \/ RecordThrows(p) \/ RecordLost(p)
    <2>1. CASE RecordUnresolved(p) \/ RecordLost(p)
      BY <1>7, <2>1 DEF RecordUnresolved, RecordLost
    <2>2. CASE RecordThrows(p)
      BY <2>2, GotoTurn DEF RecordThrows, Idle
    <2> QED BY <1>9, <2>1, <2>2
  <1>10. CASE ChainNext(p) \/ ChainDone(p)
    <2>1. CASE ChainNext(p)
      <3>1. PICK rest, r : \/ Goto(p, [step |-> "chain", todo |-> rest])
                          \/ Goto(p, [step |-> "check", row |-> r, todo |-> rest,
                                      chained |-> TRUE])
        BY <2>1 DEF ChainNext
      <3> QED BY <3>1, GotoTurn
    <2>2. CASE ChainDone(p)
      BY <2>2, GotoTurn DEF ChainDone, Idle
    <2> QED BY <1>10, <2>1, <2>2
  <1>11. CASE CascadeList(p)
    <2>1. PICK g : Goto(p, g) /\ g.step = "cancel"
      BY <1>11 DEF CascadeList
    <2> QED BY <2>1, GotoTurn
  <1>12. CASE CascadeCancel(p)
    <2>1. PICK j : f.step = "cancel" /\ Goto(p, [f EXCEPT !.list = @ \ {j}])
      BY <1>12 DEF CascadeCancel, At
    <2>2. [f EXCEPT !.list = @ \ {j}].step = "cancel"
      BY <1>0, <2>1 DEF Frame
    <2> QED BY <2>1, <2>2, GotoTurn
  <1>13. CASE CascadeDone(p)
    BY <1>7, <1>13 DEF CascadeDone
  <1>14. CASE Telling(p)
    BY <1>14, TellingTurn
  <1> QED BY <1>1, <1>2, <1>3, <1>4, <1>5, <1>6, <1>8, <1>9, <1>10, <1>11, <1>12,
             <1>13, <1>14
          DEF Step, ClaimStep, RecordStep, CascadeStep, Telling

LEMMA QueueTurn ==
    ASSUME Framed, [QueueNext]_vars
    PROVE  \/ \A p \in Proc : Unmoved(p)
           \/ \E p \in Proc : Turn(p)
  <1>1. CASE UNCHANGED queueVars
    BY <1>1 DEF queueVars, Unmoved
  <1>2. CASE \E p \in Proc : Start(p) \/ Step(p) \/ Crash(p)
    BY <1>2, EngineTurn
  <1> QED BY <1>1, <1>2 DEF QueueNext, vars, Operator, Clock, Corrupt, queueVars

-----------------------------------------------------------------------------
(***************************************************************************)
(* A held job left the queue for good, a recorded one has its execution,   *)
(* a corrupt one is closed: none of it can be taken back, so a second      *)
(* process is never told the same.                                         *)
(***************************************************************************)
SaidRecorded(p, j) == answer[p] = Reply("recorded", j)
SaidCorrupt(p, j)  == answer[p] = Reply("corrupt", j)

HeldLeftQueue == \A p \in Proc : \A j : Holds(p, j) =>
                     j \in issued /\ j \notin InStatus("queued")
OneHolder     == \A p, q \in Proc : \A j : Holds(p, j) /\ Holds(q, j) => p = q
SaidIsClosed  == \A p \in Proc : \A j :
                     /\ SaidRecorded(p, j) => j \in issued /\ Recorded(j)
                     /\ SaidCorrupt(p, j) => j \in issued /\ j \notin Active
OneRecorder   == \A p, q \in Proc : \A j :
                     SaidRecorded(p, j) /\ SaidRecorded(q, j) => p = q

Told == HeldLeftQueue /\ OneHolder /\ SaidIsClosed /\ OneRecorder

\* Whoever holds a job after a step held it before, or just claimed it.
LEMMA HoldsStep ==
    ASSUME Framed, NEW p \in Proc, Turn(p), NEW q \in Proc, NEW j, Holds(q, j)'
    PROVE  \/ Holds(q, j)
           \/ /\ q = p /\ j \in Live /\ j \in InStatus("queued")
              /\ \E exts, t : ClaimNext(j, exts, t)
  <1>1. CASE q # p
    BY <1>1 DEF Turn, Unmoved, Holds
  <1>2. CASE q = p /\ Silent(p)
    BY <1>2 DEF Silent, Holds, Reply
  <1>3. CASE q = p /\ ClaimTake(p)
    <2>1. PICK k \in Live :
              /\ ClaimNext(k, op[p].exts, op[p].stamp)
              /\ Goto(p, [step |-> "content", stamp |-> op[p].stamp, job |-> k,
                          hash |-> jobs[k].hash])
      BY <1>3 DEF ClaimTake
    <2>2. /\ op'[p] = [step |-> "content", stamp |-> op[p].stamp, job |-> k,
                       hash |-> jobs[k].hash]
          /\ answer'[p] = answer[p]
      BY <2>1 DEF Goto, Framed
    <2>3. Holds(p, j) \/ j = k
      BY <1>3, <2>2 DEF Holds
    <2>4. k \in InStatus("queued")
      BY <2>1 DEF ClaimNext, NextUp, Claimable
    <2> QED BY <1>3, <2>1, <2>3, <2>4
  <1>4. CASE q = p /\ ClaimContent(p)
    <2>1. /\ op[p].step = "content"
          /\ op' = [op EXCEPT ![p] = [op[p] EXCEPT !.step =
                        IF op[p].hash \in contents THEN "reread" ELSE "missing"]]
          /\ answer' = answer
      BY <1>4 DEF ClaimContent, At, Goto
    <2>2. op'[p].job = op[p].job
      BY <2>1 DEF Framed, Frame
    <2> QED BY <1>4, <2>1, <2>2 DEF Holds
  <1>5. CASE q = p /\ ClaimReread(p)
    <2>1. /\ op[p].step = "reread" /\ op'[p] = Idle
          /\ \/ answer'[p] = Reply("claimed", op[p].job)
             \/ answer'[p] = Reply("nulljob", op[p].job)
      BY <1>5 DEF ClaimReread, At, Return, Framed
    <2> QED BY <1>5, <2>1 DEF Holds, Idle, Reply
  <1>6. CASE q = p /\ ClaimMissing(p)
    <2>1. /\ op'[p].step \notin {"content", "reread"}
          /\ \/ answer'[p] = answer[p]
             \/ answer'[p] = Reply("corrupt", op[p].job)
      <3>1. CASE Goto(p, [op[p] EXCEPT !.step = "markmissing"])
        <4>1. op[p].step = "missing"
          BY <1>6 DEF ClaimMissing, At
        <4>2. [op[p] EXCEPT !.step = "markmissing"].step = "markmissing"
          BY <4>1 DEF Framed, Frame
        <4> QED BY <3>1, <4>2 DEF Goto, Framed
      <3>2. CASE Return(p, Reply("corrupt", op[p].job))
        BY <3>2 DEF Return, Framed, Idle
      <3> QED BY <1>6, <3>1, <3>2 DEF ClaimMissing
    <2> QED BY <1>6, <2>1 DEF Holds, Reply
  <1>7. CASE q = p /\ ClaimMarkMissing(p)
    <2>1. /\ op'[p].step = "idle"
          /\ \/ answer'[p] = Reply("corrupt", op[p].job)
             \/ answer'[p] = [kind |-> "error"]
      BY <1>7 DEF ClaimMarkMissing, Return, Framed, Idle
    <2> QED BY <1>7, <2>1 DEF Holds, Reply
  <1>8. CASE q = p /\ RecordClose(p)
    <2>1. op'[p].step = "chain" /\ answer'[p] = Reply("recorded", op[p].job)
      BY <1>8 DEF RecordClose, Framed
    <2> QED BY <1>8, <2>1 DEF Holds, Reply
  <1> QED BY <1>1, <1>2, <1>3, <1>4, <1>5, <1>6, <1>7, <1>8 DEF Turn, Telling

\* A claimed job is in the queue no longer.
LEMMA ClaimedLeaves ==
    ASSUME Typed, NEW j \in Live, NEW exts, NEW t, ClaimNext(j, exts, t)
    PROVE  j \in issued' /\ j \notin InStatus("queued")'
  <1>1. jobs[j] \in Job /\ jobs \in [Live -> Job] /\ j \in issued
    BY DEF Typed, Shapes
  <1>2. jobs'[j].status = "running"
    BY <1>1 DEF ClaimNext, Job
  <1>3. issued' = issued
    BY DEF ClaimNext
  <1> QED BY <1>1, <1>2, <1>3 DEF InStatus

LEMMA HeldStep ==
    ASSUME Sound, Told, StoreStep, NEW p \in Proc, Turn(p)
    PROVE  HeldLeftQueue' /\ OneHolder'
  <1>0. Framed /\ Typed
    BY DEF Sound
  <1>1. ASSUME NEW q \in Proc, NEW j, Holds(q, j)'
        PROVE  j \in issued' /\ j \notin InStatus("queued")'
    <2>1. CASE Holds(q, j)
      BY <1>0, <2>1, NeverAgain DEF Told, HeldLeftQueue
    <2>2. CASE j \in Live /\ \E exts, t : ClaimNext(j, exts, t)
      BY <1>0, <2>2, ClaimedLeaves
    <2> QED BY <1>0, <1>1, <2>1, <2>2, HoldsStep
  <1>2. ASSUME NEW q \in Proc, NEW r \in Proc, NEW j, Holds(q, j)', Holds(r, j)'
        PROVE  q = r
    <2>1. /\ Holds(q, j) \/ (q = p /\ j \in InStatus("queued"))
          /\ Holds(r, j) \/ (r = p /\ j \in InStatus("queued"))
      BY <1>0, <1>2, HoldsStep
    <2>2. j \in InStatus("queued") => ~Holds(q, j) /\ ~Holds(r, j)
      BY DEF Told, HeldLeftQueue
    <2> QED BY <2>1, <2>2 DEF Told, OneHolder
  <1> QED BY <1>1, <1>2 DEF HeldLeftQueue, OneHolder

\* Who says `recorded' said it before, or just closed a running job; who
\* says `corrupt' said it before, or met a job that is not live any more.
LEMMA SaidStep ==
    ASSUME Sound, NEW p \in Proc, Turn(p), NEW q \in Proc, NEW j
    PROVE  /\ SaidRecorded(q, j)' =>
                 \/ SaidRecorded(q, j)
                 \/ /\ q = p /\ j \in InStatus("running")
                    /\ \E s, why, b, t : RecordJobTerminal(j, s, why, b, t)
           /\ SaidCorrupt(q, j)' =>
                 \/ SaidCorrupt(q, j)
                 \/ /\ j \in issued
                    /\ \/ j \notin Active /\ UNCHANGED storeVars
                       \/ \E s \in TerminalStatus : \E why, b, t :
                              RecordJobTerminal(j, s, why, b, t)
  <1> USE DEF SaidRecorded, SaidCorrupt
  <1>0. Framed /\ Typed
    BY DEF Sound
  <1>1. CASE q # p
    BY <1>1 DEF Turn, Unmoved
  <1>2. CASE q = p /\ Silent(p)
    BY <1>2 DEF Silent, Reply
  <1>3. CASE q = p /\ (ClaimTake(p) \/ ClaimContent(p))
    <2>1. answer' = answer
      BY <1>3 DEF ClaimTake, ClaimContent, Goto
    <2> QED BY <2>1
  <1>4. CASE q = p /\ ClaimReread(p)
    <2>1. \/ answer'[p] = Reply("claimed", op[p].job)
          \/ answer'[p] = Reply("nulljob", op[p].job)
      BY <1>0, <1>4 DEF ClaimReread, Return, Framed
    <2> QED BY <1>4, <2>1 DEF Reply
  <1>5. CASE q = p /\ ClaimMissing(p)
    <2>1. op[p].step = "missing"
      BY <1>5 DEF ClaimMissing, At
    <2>2. op[p].job \in issued
      BY <1>0, <2>1 DEF Framed, Frame
    <2>3. CASE answer' = answer
      BY <2>3
    <2>4. CASE op[p].job \notin Live /\ Return(p, Reply("corrupt", op[p].job))
      <3>1. answer'[p] = Reply("corrupt", op[p].job)
        BY <1>0, <2>4 DEF Return, Framed
      <3>2. UNCHANGED storeVars
        BY <1>5 DEF ClaimMissing
      <3>3. op[p].job \notin Active
        BY <2>4 DEF Active
      <3> QED BY <1>5, <2>2, <3>1, <3>2, <3>3 DEF Reply
    <2> QED BY <1>5, <2>3, <2>4 DEF ClaimMissing, Goto
  <1>6. CASE q = p /\ ClaimMarkMissing(p)
    <2>1. op[p].step = "markmissing"
      BY <1>6 DEF ClaimMarkMissing, At
    <2>2. op[p].job \in issued
      BY <1>0, <2>1 DEF Framed, Frame
    <2>3. CASE Return(p, [kind |-> "error"])
      <3>1. answer'[p] = [kind |-> "error"]
        BY <1>0, <2>3 DEF Return, Framed
      <3> QED BY <1>6, <3>1 DEF Reply
    <2>4. CASE /\ Return(p, Reply("corrupt", op[p].job))
               /\ RecordJobTerminal(op[p].job, "failed", "job-file-missing",
                                    jobs[op[p].job].claimed, op[p].stamp)
      <3>1. answer'[p] = Reply("corrupt", op[p].job)
        BY <1>0, <2>4 DEF Return, Framed
      <3> QED BY <1>6, <2>2, <2>4, <3>1 DEF Reply, TerminalStatus
    <2> QED BY <1>6, <2>3, <2>4 DEF ClaimMarkMissing
  <1>7. CASE q = p /\ RecordClose(p)
    <2>1. PICK v : /\ RecordJobTerminal(op[p].job, v[1], v[2],
                                        jobs[op[p].job].claimed, op[p].stamp)
                   /\ answer' = [answer EXCEPT ![p] = Reply("recorded", op[p].job)]
      BY <1>7 DEF RecordClose
    <2>2. answer'[p] = Reply("recorded", op[p].job)
      BY <1>0, <2>1 DEF Framed
    <2>3. op[p].job \in InStatus("running")
      BY <2>1 DEF RecordJobTerminal
    <2> QED BY <1>7, <2>1, <2>2, <2>3 DEF Reply
  <1> QED BY <1>1, <1>2, <1>3, <1>4, <1>5, <1>6, <1>7 DEF Turn, Telling

\* A record leaves its execution, and its job closed.
LEMMA RecordLeaves ==
    ASSUME Typed, NEW j, NEW s, NEW why, NEW b, NEW t,
           RecordJobTerminal(j, s, why, b, t)
    PROVE  /\ j \in issued' /\ Recorded(j)' /\ j \in Active
           /\ s \in TerminalStatus => j \notin Active'
  <1>1. /\ j \in Live /\ jobs[j].status = "running" /\ jobs[j] \in Job
        /\ jobs \in [Live -> Job] /\ j \in issued /\ issued' = issued
    BY DEF RecordJobTerminal, InStatus, Typed, Shapes
  <1>2. jobs'[j].status = s
    BY <1>1, ClosedColumns DEF RecordJobTerminal
  <1> DEFINE e == [job |-> j, status |-> s, reason |-> why, started |-> b,
                   finished |-> t]
             n == Len(executions) + 1
  <1>3. executions' = Append(executions, e) /\ executions \in Seq(Execution)
    BY DEF RecordJobTerminal, Typed, Shapes
  <1>4. n \in DOMAIN executions' /\ executions'[n] = e
    BY <1>3
  <1>5. e.job = j
    OBVIOUS
  <1>6. Recorded(j)'
    BY <1>4, <1>5 DEF Recorded
  <1>7. s \in TerminalStatus => j \notin Active'
    BY <1>2 DEF Active, ActiveStatus, TerminalStatus
  <1> QED BY <1>1, <1>6, <1>7 DEF Active, ActiveStatus

LEMMA ToldStep ==
    ASSUME Sound, Told, [QueueNext]_vars
    PROVE  Told'
  <1>0. Framed /\ Typed /\ HistoryAgrees /\ StoreStep
    BY SoundStep DEF Sound
  <1>1. CASE \A p \in Proc : Unmoved(p)
    <2>1. ASSUME NEW q \in Proc, NEW j
          PROVE  /\ Holds(q, j)' => Holds(q, j)
                 /\ SaidRecorded(q, j)' => SaidRecorded(q, j)
                 /\ SaidCorrupt(q, j)' => SaidCorrupt(q, j)
      BY <1>1 DEF Unmoved, Holds, SaidRecorded, SaidCorrupt
    <2>2. ASSUME NEW q \in Proc, NEW j, Holds(q, j)'
          PROVE  j \in issued' /\ j \notin InStatus("queued")'
      BY <1>0, <2>1, <2>2, NeverAgain DEF Told, HeldLeftQueue
    <2>3. ASSUME NEW q \in Proc, NEW j, SaidRecorded(q, j)'
          PROVE  j \in issued' /\ Recorded(j)'
      BY <1>0, <2>1, <2>3, NeverAgain DEF Told, SaidIsClosed
    <2>4. ASSUME NEW q \in Proc, NEW j, SaidCorrupt(q, j)'
          PROVE  j \in issued' /\ j \notin Active'
      BY <1>0, <2>1, <2>4, NeverAgain DEF Told, SaidIsClosed
    <2>5. OneHolder' /\ OneRecorder'
      BY <2>1 DEF Told, OneHolder, OneRecorder
    <2> QED BY <2>2, <2>3, <2>4, <2>5 DEF Told, HeldLeftQueue, SaidIsClosed
  <1>2. ASSUME NEW p \in Proc, Turn(p)
        PROVE  Told'
    <2>1. HeldLeftQueue' /\ OneHolder'
      BY <1>0, <1>2, HeldStep
    <2>2. ASSUME NEW q \in Proc, NEW j, SaidRecorded(q, j)'
          PROVE  j \in issued' /\ Recorded(j)'
      <3>1. CASE SaidRecorded(q, j)
        BY <1>0, <3>1, NeverAgain DEF Told, SaidIsClosed
      <3>2. CASE \E s, why, b, t : RecordJobTerminal(j, s, why, b, t)
        <4>1. PICK s, why, b, t : RecordJobTerminal(j, s, why, b, t)
          BY <3>2
        <4> QED BY <1>0, <4>1, RecordLeaves
      <3> QED BY <1>2, <2>2, <3>1, <3>2, SaidStep
    <2>3. ASSUME NEW q \in Proc, NEW j, SaidCorrupt(q, j)'
          PROVE  j \in issued' /\ j \notin Active'
      <3>1. CASE SaidCorrupt(q, j)
        BY <1>0, <3>1, NeverAgain DEF Told, SaidIsClosed
      <3>2. CASE j \in issued /\ j \notin Active /\ UNCHANGED storeVars
        BY <1>0, <3>2, NeverAgain
      <3>3. CASE \E s \in TerminalStatus : \E why, b, t :
                     RecordJobTerminal(j, s, why, b, t)
        BY <1>0, <3>3, RecordLeaves
      <3> QED BY <1>2, <2>3, <3>1, <3>2, <3>3, SaidStep
    <2>4. ASSUME NEW q \in Proc, NEW r \in Proc, NEW j,
                 SaidRecorded(q, j)', SaidRecorded(r, j)'
          PROVE  q = r
      <3>1. /\ SaidRecorded(q, j) \/ (q = p /\ j \in InStatus("running"))
            /\ SaidRecorded(r, j) \/ (r = p /\ j \in InStatus("running"))
        BY <1>2, <2>4, SaidStep
      <3>2. j \in InStatus("running") => ~Recorded(j)
        BY <1>0, ActiveUnrecorded DEF Recorded, InStatus, Active, ActiveStatus
      <3>3. SaidRecorded(q, j) \/ SaidRecorded(r, j) => Recorded(j)
        BY DEF Told, SaidIsClosed
      <3> QED BY <3>1, <3>2, <3>3 DEF Told, OneRecorder
    <2> QED BY <2>1, <2>2, <2>3, <2>4 DEF Told, SaidIsClosed, OneRecorder
  <1> QED BY <1>0, <1>1, <1>2, QueueTurn

LEMMA AlwaysTold == QueueSpec => [](Sound /\ Told)
  <1>1. QueueInit => Told
    BY DEF QueueInit, Told, HeldLeftQueue, OneHolder, SaidIsClosed, OneRecorder,
           Holds, SaidRecorded, SaidCorrupt, Idle, NoReply, Reply
  <1>2. Sound /\ Told /\ [QueueNext]_vars => Sound' /\ Told'
    BY SoundStep, ToldStep
  <1> QED BY <1>1, <1>2, SoundInit, PTL DEF QueueSpec

\* No job is in two agents' hands, for any number of claimants, reapers,
\* crashes and interleavings of claimJob's two transactions and two reads.
THEOREM OneAgentPerJob == QueueSpec => []ClaimsExclusive
  <1>1. Told => ClaimsExclusive
    BY DEF Told, OneHolder, ClaimsExclusive
  <1> QED BY <1>1, AlwaysTold, PTL

\* No two agents are told `recorded' of one job, and the history keeps the row
\* of whoever was.
THEOREM OneAcknowledgement == QueueSpec => []RecordsAcknowledgedOnce
  <1>1. Told => RecordsAcknowledgedOnce
    BY DEF Told, SaidIsClosed, OneRecorder, SaidRecorded, RecordsAcknowledgedOnce,
           RecordedBy, Recorded
  <1> QED BY <1>1, AlwaysTold, PTL

\* A `corrupt' answer is about a job that is closed, and stays closed.
THEOREM CorruptJobsAreClosed == QueueSpec => []CorruptIsClosed
  <1>1. Told => CorruptIsClosed
    BY DEF Told, SaidIsClosed, SaidCorrupt, CorruptIsClosed
  <1> QED BY <1>1, AlwaysTold, PTL

-----------------------------------------------------------------------------
(***************************************************************************)
(* The findings, for any jobs, extensions, paths, bodies and messages: the *)
(* judgment tables and their scans, and what a completed record leaves of  *)
(* a node's earlier verdicts.                                              *)
(***************************************************************************)

\* An extension's row says what its report said: only the safety lane says
\* "unsafe", so a fixer is shown messages.
Worded == \A i \in Ids : findings[i].origin = "extension" =>
                             findings[i].message \in Message

\* The job a record has loaded is still its extension's, and still on the path
\* it was read from unless a scan has moved its row.
Addressed ==
    loaded # Null /\ loaded.job \in Live =>
        /\ jobs[loaded.job].hash.ext = loaded.ext
        /\ \/ jobs[loaded.job].node = loaded.node
           \/ jobs[loaded.job].node \in displaced

\* Every path starts out scanned, so one that is not there was left.
Vanished == Node \ DOMAIN nodes \subseteq displaced

Judged == Typed /\ HistoryAgrees /\ FindingsTypeOK /\ Worded

-----------------------------------------------------------------------------
(***************************************************************************)
(* The id of a new row: one more than the largest.                         *)
(***************************************************************************)
LEMMA LeastExists ==
    ASSUME NEW S \in SUBSET Nat, S # {}
    PROVE  \E x \in S : \A y \in S : x <= y
<1> DEFINE R == OpToRel(<, Nat)
<1>1. \E x \in S : \A y \in S : ~(<<y, x>> \in R)
  <2>1. IsWellFoundedOn(R, Nat)
    BY NatLessThanWellFounded
  <2> HIDE DEF R
  <2> QED BY <2>1, WFMin
<1>2. \A x, y \in Nat : <<y, x>> \in R <=> y < x
  BY DEF OpToRel
<1> HIDE DEF R
<1>3. PICK x \in S : \A y \in S : ~(<<y, x>> \in R)
  BY <1>1
<1>4. ASSUME NEW y \in S PROVE x <= y
  <2>1. x \in Nat /\ y \in Nat
    OBVIOUS
  <2>2. ~(y < x)
    BY <1>2, <1>3, <2>1
  <2> QED BY <2>1, <2>2
<1> QED BY <1>4

LEMMA MaxOfBounded ==
    ASSUME NEW S \in SUBSET Int, S # {}, NEW n \in Int, \A s \in S : s <= n
    PROVE  Max(S) \in S /\ \A y \in S : Max(S) >= y
<1> DEFINE T == {k \in Nat : \E s \in S : s = n - k}
<1>1. T # {}
  <2>1. PICK s \in S : TRUE
    OBVIOUS
  <2>2. n - s \in Nat /\ s = n - (n - s)
    OBVIOUS
  <2> QED BY <2>2
<1>2. PICK k \in T : \A y \in T : k <= y
  BY <1>1, LeastExists
<1>3. PICK s \in S : s = n - k
  BY <1>2
<1>4. ASSUME NEW y \in S PROVE s >= y
  <2>1. n - y \in Nat /\ y = n - (n - y)
    OBVIOUS
  <2>2. n - y \in T
    BY <2>1
  <2>3. k <= n - y
    BY <2>2, <1>2
  <2> QED BY <2>3, <1>3
<1> QED BY <1>3, <1>4 DEF Max

\* A table of findings, whatever its largest id.
Table(tbl) == /\ \E n \in Nat : DOMAIN tbl \subseteq 1 .. n
              /\ tbl \in [DOMAIN tbl -> Finding]

LEMMA InsertRows ==
    ASSUME NEW tbl, Table(tbl), NEW rows \in Seq(Finding)
    PROVE  /\ Table(Insert(tbl, rows))
           /\ DOMAIN tbl \subseteq DOMAIN Insert(tbl, rows)
           /\ \A i \in DOMAIN tbl : Insert(tbl, rows)[i] = tbl[i]
           /\ \A i \in DOMAIN Insert(tbl, rows) \ DOMAIN tbl :
                 \E k \in DOMAIN rows : Insert(tbl, rows)[i] = rows[k]
<1> DEFINE top == Max(DOMAIN tbl \cup {0})
           new == Insert(tbl, rows)
<1>1. PICK n \in Nat : DOMAIN tbl \subseteq 1 .. n
  BY DEF Table
<1>2. /\ top \in DOMAIN tbl \cup {0}
      /\ \A y \in DOMAIN tbl \cup {0} : top >= y
  <2> DEFINE S == DOMAIN tbl \cup {0}
  <2>1. S \in SUBSET Int /\ S # {} /\ n \in Int
    BY <1>1
  <2>2. \A s \in S : s <= n
    BY <1>1
  <2> HIDE DEF S
  <2>3. Max(S) \in S /\ \A y \in S : Max(S) >= y
    BY <2>1, <2>2, MaxOfBounded, Zenon
  <2> QED BY <2>3 DEF S
<1>3. top \in Nat /\ top <= n
  BY <1>1, <1>2
<1> HIDE DEF top
<1>4. \A y \in DOMAIN tbl : y \in Nat /\ y <= top
  BY <1>1, <1>2, <1>3
<1>5. new = [i \in DOMAIN tbl \cup (top + 1 .. top + Len(rows)) |->
                IF i \in DOMAIN tbl THEN tbl[i] ELSE rows[i - top]]
  BY DEF Insert, top
<1>6. DOMAIN new = DOMAIN tbl \cup (top + 1 .. top + Len(rows))
  BY <1>5
<1>7. Len(rows) \in Nat /\ DOMAIN rows = 1 .. Len(rows)
  OBVIOUS
<1>8. DOMAIN new \subseteq 1 .. (n + Len(rows))
  BY <1>6, <1>7, <1>3, <1>1
<1>9. ASSUME NEW i \in DOMAIN new \ DOMAIN tbl
      PROVE  \E k \in DOMAIN rows : new[i] = rows[k]
  <2>1. i - top \in DOMAIN rows
    BY <1>6, <1>7, <1>3
  <2>2. new[i] = rows[i - top]
    BY <1>5, <1>6
  <2> QED BY <2>1, <2>2
<1>10. \A i \in DOMAIN tbl : new[i] = tbl[i]
  BY <1>5
<1>11. \A i \in DOMAIN new : new[i] \in Finding
  <2>1. \A i \in DOMAIN tbl : tbl[i] \in Finding
    BY DEF Table
  <2>2. \A k \in DOMAIN rows : rows[k] \in Finding
    OBVIOUS
  <2> HIDE DEF new
  <2> QED BY <2>1, <2>2, <1>9, <1>10
<1>12. new = [i \in DOMAIN new |-> new[i]]
  BY <1>5
<1>13. n + Len(rows) \in Nat
  BY <1>7
<1> HIDE DEF new
<1>14. Table(new)
  BY <1>8, <1>11, <1>12, <1>13 DEF Table
<1> QED BY <1>6, <1>9, <1>10, <1>14 DEF new

LEMMA EraseRows ==
    ASSUME NEW tbl, Table(tbl), NEW S
    PROVE  /\ Table(Erase(tbl, S))
           /\ DOMAIN Erase(tbl, S) = DOMAIN tbl \ S
           /\ \A i \in DOMAIN Erase(tbl, S) : Erase(tbl, S)[i] = tbl[i]
  BY DEF Table, Erase

-----------------------------------------------------------------------------
(***************************************************************************)
(* What a record leaves in state_findings.                                 *)
(***************************************************************************)
Report(found, unsafe) == [found |-> found, unsafe |-> unsafe]

\* The row i of the table `new' is the old one, and no verdict of e on n nor
\* the safety verdict on n; or it is a fresh row of the job j.
OldRow(tbl, new, i, n, e) ==
    /\ i \in DOMAIN tbl /\ new[i] = tbl[i]
    /\ ~(tbl[i].node = n /\ (tbl[i].ext = e \/ tbl[i].origin = "kernel"))

FreshRow(r, n, e, j) ==
    /\ r.node = n /\ r.ext = e /\ r.job = j
    /\ r.origin = "kernel" \/ r.message \in Message

LEMMA FreshRows ==
    ASSUME nodes \in [DOMAIN nodes -> Body], NEW n \in DOMAIN nodes, n \in Node,
           NEW e \in Ext, NEW j \in JobId
    PROVE  /\ \A m \in Message :
                 /\ NewFinding(n, e, "extension", m, j) \in Finding
                 /\ FreshRow(NewFinding(n, e, "extension", m, j), n, e, j)
                 /\ NewFinding(n, e, "extension", m, j).origin = "extension"
           /\ NewFinding(n, e, "kernel", "unsafe", j) \in Finding
           /\ FreshRow(NewFinding(n, e, "kernel", "unsafe", j), n, e, j)
  BY DEF NewFinding, Finding, FreshRow

LEMMA WriteRows ==
    ASSUME nodes \in [DOMAIN nodes -> Body], NEW n \in DOMAIN nodes, n \in Node,
           NEW tbl, Table(tbl), NEW e \in Ext, NEW j \in JobId,
           NEW found \in Seq(Message), NEW unsafe \in BOOLEAN
    PROVE  /\ Table(WriteFindings(tbl, n, e, j, Report(found, unsafe)))
           /\ \A i \in DOMAIN WriteFindings(tbl, n, e, j, Report(found, unsafe)) :
                 LET new == WriteFindings(tbl, n, e, j, Report(found, unsafe))
                 IN  OldRow(tbl, new, i, n, e) \/ FreshRow(new[i], n, e, j)
<1> DEFINE judged == IF e \in Finder THEN found ELSE <<>>
           lane   == [k \in DOMAIN judged |->
                         NewFinding(n, e, "extension", judged[k], j)]
           safety == IF unsafe THEN <<NewFinding(n, e, "kernel", "unsafe", j)>>
                     ELSE <<>>
           own    == {i \in DOMAIN tbl : tbl[i].node = n /\ tbl[i].ext = e}
           t1     == Erase(tbl, own)
           t2     == Insert(t1, lane)
           lanes  == {i \in DOMAIN t2 : t2[i].node = n /\ t2[i].origin = "kernel"}
           t3     == Erase(t2, lanes)
           t4     == Insert(t3, safety)
<1>1. WriteFindings(tbl, n, e, j, Report(found, unsafe)) = t4
  BY DEF WriteFindings, ReplaceSafety, ReplaceFindings, Report
<1>2. judged \in Seq(Message)
  OBVIOUS
<1> HIDE DEF judged
<1>3. /\ lane \in Seq(Finding)
      /\ \A k \in DOMAIN lane : /\ FreshRow(lane[k], n, e, j)
                                /\ lane[k].origin = "extension"
  <2>1. Len(judged) \in Nat /\ DOMAIN judged = 1 .. Len(judged)
    BY <1>2
  <2>2. \A k \in DOMAIN judged : judged[k] \in Message
    BY <1>2
  <2>3. \A k \in DOMAIN judged : lane[k] \in Finding
    BY <2>2, FreshRows
  <2>4. \A k \in DOMAIN lane : /\ FreshRow(lane[k], n, e, j)
                               /\ lane[k].origin = "extension"
    BY <2>2, FreshRows
  <2> QED BY <2>1, <2>3, <2>4
<1>4. /\ safety \in Seq(Finding)
      /\ \A k \in DOMAIN safety : FreshRow(safety[k], n, e, j)
  BY FreshRows
<1> HIDE DEF lane, safety
<1>5. /\ Table(t1)
      /\ DOMAIN t1 = DOMAIN tbl \ own
      /\ \A i \in DOMAIN t1 : t1[i] = tbl[i]
  <2> HIDE DEF own
  <2> QED BY EraseRows, Zenon
<1> HIDE DEF t1
<1>6. /\ Table(t2)
      /\ \A i \in DOMAIN t1 : i \in DOMAIN t2 /\ t2[i] = t1[i]
      /\ \A i \in DOMAIN t2 \ DOMAIN t1 : \E k \in DOMAIN lane : t2[i] = lane[k]
  BY <1>3, <1>5, InsertRows
<1> HIDE DEF t2
<1>7. /\ Table(t3)
      /\ DOMAIN t3 = DOMAIN t2 \ lanes
      /\ \A i \in DOMAIN t3 : t3[i] = t2[i]
  <2> HIDE DEF lanes
  <2> QED BY <1>6, EraseRows, Zenon
<1> HIDE DEF t3
<1>8. /\ Table(t4)
      /\ \A i \in DOMAIN t3 : i \in DOMAIN t4 /\ t4[i] = t3[i]
      /\ \A i \in DOMAIN t4 \ DOMAIN t3 :
            \E k \in DOMAIN safety : t4[i] = safety[k]
  BY <1>4, <1>7, InsertRows
<1> HIDE DEF t4
<1>9. ASSUME NEW i \in DOMAIN t4
      PROVE  OldRow(tbl, t4, i, n, e) \/ FreshRow(t4[i], n, e, j)
  <2>1. CASE i \notin DOMAIN t3
    BY <2>1, <1>8, <1>4
  <2>2. CASE i \in DOMAIN t3 /\ i \notin DOMAIN t1
    <3>1. t4[i] = t2[i] /\ i \in DOMAIN t2 \ DOMAIN t1
      BY <2>2, <1>8, <1>7
    <3>2. PICK k \in DOMAIN lane : t2[i] = lane[k]
      BY <3>1, <1>6
    <3> QED BY <3>1, <3>2, <1>3
  <2>3. CASE i \in DOMAIN t3 /\ i \in DOMAIN t1
    <3>1. /\ i \in DOMAIN tbl /\ i \notin own /\ i \in DOMAIN t2 /\ i \notin lanes
          /\ t4[i] = tbl[i] /\ t2[i] = tbl[i]
      BY <2>3, <1>5, <1>6, <1>7, <1>8
    <3> QED BY <3>1 DEF OldRow
  <2> QED BY <2>1, <2>2, <2>3
<1> QED BY <1>1, <1>8, <1>9

\* What the stamps of a fixer and the hand of a person leave of a row.
SameRow(r, q) == /\ r.node = q.node /\ r.ext = q.ext /\ r.job = q.job
                 /\ r.origin = q.origin /\ r.message = q.message

LEMMA StampedRows ==
    ASSUME NEW tbl, Table(tbl), NEW n, NEW e \in Ext, NEW S,
           NEW resolved \in [S -> {"fixed", "human-decision"}]
    PROVE  /\ DOMAIN StampResolutions(tbl, n, e, resolved) = DOMAIN tbl
           /\ \A i \in DOMAIN tbl :
                 /\ StampResolutions(tbl, n, e, resolved)[i] \in Finding
                 /\ SameRow(StampResolutions(tbl, n, e, resolved)[i], tbl[i])
<1> DEFINE new == StampResolutions(tbl, n, e, resolved)
<1>1. new = [i \in DOMAIN tbl |->
                IF /\ e \in Fixer /\ i \in DOMAIN resolved
                   /\ tbl[i].node = n /\ tbl[i].ext \in Serves[e]
                THEN [tbl[i] EXCEPT !.resolution = resolved[i], !.by = e]
                ELSE tbl[i]]
  BY DEF StampResolutions
<1> HIDE DEF new
<1>2. ASSUME NEW i \in DOMAIN tbl
      PROVE  new[i] \in Finding /\ SameRow(new[i], tbl[i])
  <2>1. tbl[i] \in Finding
    BY DEF Table
  <2>2. CASE new[i] = tbl[i]
    BY <2>1, <2>2 DEF SameRow
  <2>3. CASE /\ e \in Fixer /\ i \in DOMAIN resolved
             /\ new[i] = [tbl[i] EXCEPT !.resolution = resolved[i], !.by = e]
    <3>1. resolved[i] \in {"fixed", "human-decision"}
      BY <2>3
    <3> QED BY <2>1, <2>3, <3>1 DEF SameRow, Finding
  <2> QED BY <1>1, <2>2, <2>3
<1> QED BY <1>1, <1>2 DEF new

LEMMA FindingsTable ==
    ASSUME FindingsTypeOK
    PROVE  Table(findings)
<1>1. Cardinality(FindingId) \in Nat
  BY FindingsAssumption, FS_CardinalityType
<1>2. DOMAIN findings \subseteq 1 .. Cardinality(FindingId)
  BY FindingsAssumption DEF FindingsTypeOK, Ids
<1> QED BY <1>1, <1>2 DEF Table, FindingsTypeOK, Ids

\* A row after a record: what it was and not superseded, or fresh.
Kept(i) == /\ i \in Ids /\ SameRow(findings'[i], findings[i])
           /\ ~/\ loaded.node \in DOMAIN nodes
               /\ findings[i].node = loaded.node
               /\ findings[i].ext = loaded.ext \/ findings[i].origin = "kernel"

Fresh(i) == /\ loaded.node \in DOMAIN nodes
            /\ FreshRow(findings'[i], loaded.node, loaded.ext, loaded.job)

LEMMA RecordRows ==
    ASSUME Judged, RecordCompleted
    PROVE  /\ findings' \in [Ids' -> Finding]
           /\ Ids' \subseteq FindingId
           /\ \A i \in Ids' : Kept(i) \/ Fresh(i)
<1> DEFINE j == loaded.job
           n == loaded.node
           e == loaded.ext
<1>1. PICK found \in Found, unsafe \in BOOLEAN, resolved \in Resolved(e) :
          findings' = StampResolutions(
                          WriteFindings(findings, n, e, j, Report(found, unsafe)),
                          n, e, resolved)
  BY DEF RecordCompleted, Report
<1>2. /\ j \in JobId /\ n \in Node /\ e \in Ext
      /\ nodes \in [DOMAIN nodes -> Body]
  BY DEF RecordCompleted, Judged, FindingsTypeOK, Typed, Shapes
<1>3. PICK S : resolved \in [S -> {"fixed", "human-decision"}]
  BY DEF Resolved
<1>4. found \in Seq(Message)
  BY FindingsAssumption
<1> DEFINE written == WriteFindings(findings, n, e, j, Report(found, unsafe))
<1>5. Table(findings)
  BY FindingsTable DEF Judged
<1>6. /\ Table(written)
      /\ \A i \in DOMAIN written :
            \/ /\ i \in DOMAIN findings /\ written[i] = findings[i]
               /\ ~/\ n \in DOMAIN nodes
                   /\ findings[i].node = n
                   /\ findings[i].ext = e \/ findings[i].origin = "kernel"
            \/ n \in DOMAIN nodes /\ FreshRow(written[i], n, e, j)
  <2>1. CASE n \notin DOMAIN nodes
    <3>1. written = findings
      BY <2>1 DEF WriteFindings
    <3> HIDE DEF written
    <3> QED BY <2>1, <3>1, <1>5
  <2>2. CASE n \in DOMAIN nodes
    <3>1. /\ Table(written)
          /\ \A i \in DOMAIN written : OldRow(findings, written, i, n, e)
                                       \/ FreshRow(written[i], n, e, j)
      BY <2>2, <1>2, <1>4, <1>5, WriteRows
    <3> HIDE DEF written
    <3> QED BY <2>2, <3>1 DEF OldRow
  <2> QED BY <2>1, <2>2
<1>7. findings' = StampResolutions(written, n, e, resolved)
  BY <1>1
<1> HIDE DEF written
<1>8. /\ DOMAIN findings' = DOMAIN written
      /\ \A i \in DOMAIN written : /\ findings'[i] \in Finding
                                   /\ SameRow(findings'[i], written[i])
  BY <1>2, <1>3, <1>6, <1>7, StampedRows
<1>9. ASSUME NEW i \in Ids' PROVE Kept(i) \/ Fresh(i)
  <2>1. i \in DOMAIN written
    BY <1>8 DEF Ids
  <2>2. CASE /\ i \in DOMAIN findings /\ written[i] = findings[i]
             /\ ~/\ n \in DOMAIN nodes
                 /\ findings[i].node = n
                 /\ findings[i].ext = e \/ findings[i].origin = "kernel"
    BY <2>1, <2>2, <1>8 DEF Kept, Ids
  <2>3. CASE n \in DOMAIN nodes /\ FreshRow(written[i], n, e, j)
    BY <2>1, <2>3, <1>8 DEF Fresh, FreshRow, SameRow
  <2> QED BY <2>1, <2>2, <2>3, <1>6
<1>10. findings' = [i \in Ids' |-> findings'[i]]
  BY <1>7, <1>8 DEF StampResolutions, Ids
<1>11. findings' \in [Ids' -> Finding]
  BY <1>8, <1>10 DEF Ids
<1>12. Ids' \subseteq FindingId
  BY DEF RecordCompleted, Ids
<1> QED BY <1>9, <1>11, <1>12

-----------------------------------------------------------------------------
(***************************************************************************)
(* The findings layer is a client of the store.                            *)
(***************************************************************************)

\* The one step that takes work: what a submit shows a fixer is an input the
\* store may freeze.
LEMMA SubmitIsSubmit ==
    ASSUME Judged, SubmitJudged
    PROVE  Submit
<1>1. PICK id \in JobId \ issued, e \in Ext, n \in DOMAIN nodes, f \in Target,
           p \in Priority, ttl \in Ttl \cup {Null} :
          /\ IF e \in Fixer THEN Selected(n, e, f) # {} ELSE f = Null
          /\ \/ SubmitJob(id, Request(n, e, f, p, ttl))
             \/ SubmitFixerJob(id, Request(n, e, f, p, ttl))
  BY DEF SubmitJudged
<1> DEFINE shown == Selected(n, e, f)
           given == {<<i, findings[i].message, StaleRow(i)>> : i \in shown}
           input == Rendered(n, e, f)
           r     == Request(n, e, f, p, ttl)
<1>2. n \in Node /\ nodes[n] \in Body
  BY DEF Judged, FindingsTypeOK
<1>3. shown \subseteq Ids /\ (f # Null => shown \subseteq f)
  BY DEF Selected, Open
<1>4. \A i \in shown : findings[i].origin = "extension"
  BY DEF Selected, Open
<1>5. given \subseteq FindingId \X Message \X BOOLEAN
  <2>1. ASSUME NEW i \in shown
        PROVE  <<i, findings[i].message, StaleRow(i)>>
                   \in FindingId \X Message \X BOOLEAN
    <3>1. i \in FindingId
      BY <1>3 DEF Judged, FindingsTypeOK
    <3>2. findings[i].message \in Message
      BY <1>3, <1>4 DEF Judged, Worded
    <3>3. StaleRow(i) \in BOOLEAN
      BY DEF StaleRow
    <3> QED BY <3>1, <3>2, <3>3
  <2> HIDE DEF shown
  <2> QED BY <2>1
<1>6. /\ input = [body |-> nodes[n], shown |-> given]
      /\ r.hash = [ext |-> e, node |-> n, input |-> input]
      /\ r.findings = f /\ r.autoFix = FALSE
  BY DEF Rendered, Request, NewJob
<1>7. input \in Input
  <2> HIDE DEF given, input
  <2> QED BY <1>2, <1>5, <1>6, FindingsAssumption
<1>8. Section[input] = shown
  <2>1. Section[input] = {x[1] : x \in given}
    <3> HIDE DEF given, input
    <3> QED BY <1>6, <1>7, FindingsAssumption
  <2>2. \A i \in shown : <<i, findings[i].message, StaleRow(i)>>[1] = i
    OBVIOUS
  <2>3. {x[1] : x \in given} = shown
    <3>1. \A x \in given : x[1] \in shown
      <4> HIDE DEF shown
      <4> QED OBVIOUS
    <3>2. \A i \in shown : \E x \in given : x[1] = i
      BY <2>2
    <3> HIDE DEF shown, given
    <3> QED BY <3>1, <3>2
  <2> QED BY <2>1, <2>3
<1>9. r \in NewRows(now)
  <2>1. FALSE \in BOOLEAN
    OBVIOUS
  <2>2. r = NewJob([ext |-> e, node |-> n, input |-> input], n, f, FALSE,
                   p, ttl, now)
    BY DEF Request
  <2>3. ASSUME NEW af \in BOOLEAN, NEW i \in Input
        PROVE  NewJob([ext |-> e, node |-> n, input |-> i], n, f, af, p, ttl, now)
                   \in NewRows(now)
    <3> DEFINE h == [ext |-> e, node |-> n, input |-> i]
    <3>1. h \in Hash /\ h.node = n
      BY <1>2 DEF Hash
    <3> HIDE DEF h
    <3>2. NewJob(h, h.node, f, af, p, ttl, now) \in NewRows(now)
      BY <1>2, <3>1 DEF NewRows
    <3> QED BY <3>1, <3>2 DEF h
  <2> HIDE DEF r, input
  <2> QED BY <1>7, <2>1, <2>2, <2>3
<1>10. ValidRow(r)
  <2>1. e \in Fixer => shown # {}
    BY <1>1
  <2>2. ValidRequest(e, input, f, FALSE)
    <3> HIDE DEF input, shown
    <3> QED BY <1>1, <2>1, <1>3, <1>8 DEF ValidRequest
  <2>3. r.hash.ext = e /\ r.hash.input = input
    <3> HIDE DEF r, input
    <3> QED BY <1>6
  <2> HIDE DEF r, input
  <2> QED BY <1>6, <2>2, <2>3, Zenon DEF ValidRow
<1>11. now \in Stamp
  BY DEF Judged, Typed, Shapes, Stamp
<1> QED BY <1>1, <1>9, <1>10, <1>11 DEF Submit

LEMMA RecordIsRecord ==
    ASSUME Judged, RecordCompleted \/ RecordFailed
    PROVE  Record
<1>1. now \in Stamp
  BY DEF Judged, Typed, Shapes, Stamp
<1>2. CASE RecordCompleted
  <2>1. RecordJobTerminal(loaded.job, "completed", Null,
                          jobs[loaded.job].claimed, now)
    BY <1>2 DEF RecordCompleted
  <2>2. loaded.job \in Live
    BY <2>1 DEF RecordJobTerminal, InStatus
  <2> QED BY <1>1, <2>1, <2>2 DEF Record
<1>3. CASE RecordFailed
  <2>1. PICK why \in FailReason :
          RecordJobTerminal(loaded.job, "failed", why,
                            jobs[loaded.job].claimed, now)
    BY <1>3 DEF RecordFailed
  <2>2. loaded.job \in Live
    BY <2>1 DEF RecordJobTerminal, InStatus
  <2> QED BY <1>1, <2>1, <2>2 DEF Record
<1> QED BY <1>2, <1>3

LEMMA FindingsStoreStep ==
    ASSUME Judged, [FindingsNext]_findingsVars
    PROVE  [Next]_storeVars
<1>1. CASE Queue
  BY <1>1 DEF Queue, Next
<1>2. CASE SubmitJudged
  BY <1>2, SubmitIsSubmit DEF Next
<1>3. CASE ByHand
  BY <1>3 DEF ByHand, SetByHand, EraseFindings, EraseSummaries
<1>4. CASE \/ \E j \in Live : RecordCheck(j)
           \/ RecordDropped
           \/ \E n \in Node : ScanGone(n) \/ \E b \in Body : ScanBody(n, b)
  BY <1>4 DEF RecordCheck, RecordDropped, ScanGone, ScanBody
<1>5. CASE RecordCompleted \/ RecordFailed
  BY <1>5, RecordIsRecord DEF Next
<1>6. CASE \E p \in Renames : ScanRenamed(p[1], p[2])
  BY <1>6 DEF ScanRenamed, Migrate, Next
<1>7. CASE UNCHANGED findingsVars
  BY <1>7 DEF findingsVars
<1> QED BY <1>1, <1>2, <1>3, <1>4, <1>5, <1>6, <1>7 DEF FindingsNext

\* A job id once given out stays given out.
LEMMA IssuedGrows ==
    ASSUME Typed, [Next]_storeVars
    PROVE  issued \subseteq issued'
<1>1. CASE UNCHANGED storeVars
  BY <1>1 DEF storeVars
<1>2. CASE Next
  <2>1. \A S \in SUBSET Active : Closes(S) => issued' = issued
    BY DEF Closes, Close
  <2>2. \A j \in Live : Claims(j) => issued' = issued
    BY DEF Claims, ClaimNext
  <2>3. \A j \in Live : Records(j) => issued' = issued
    BY DEF Records, RecordJobTerminal
  <2>4. Prunes \/ Moves => issued' = issued
    BY DEF Prunes, PruneTerminalJobs, Moves, MigrateJobs
  <2>5. \A id \in JobId, r \in Job : \A stale \in SUBSET Live :
            Admits(id, r, stale) => issued \subseteq issued'
    BY DEF Admits, Enqueue
  <2> QED BY <1>2, <2>1, <2>2, <2>3, <2>4, <2>5, StepShapes
<1> QED BY <1>1, <1>2

-----------------------------------------------------------------------------
(***************************************************************************)
(* The shapes of the tables.                                               *)
(***************************************************************************)

\* Enough for the steps that leave scan_nodes, the summaries and the loaded
\* record, and of the findings only take rows or restate whose they are.
LEMMA RowsKept ==
    ASSUME FindingsTypeOK, Worded, issued \subseteq issued',
           UNCHANGED <<nodes, loaded>>, Ids' \subseteq Ids,
           DOMAIN summaries' \subseteq DOMAIN summaries,
           findings' \in [Ids' -> Finding],
           \A i \in Ids' : SameRow(findings'[i], findings[i])
    PROVE  FindingsTypeOK' /\ Worded'
<1>1. /\ \A i \in Ids' : findings'[i].job \in issued'
      /\ \A i \in Ids' : findings'[i].origin = "extension" =>
                             findings'[i].message \in Message
  BY DEF SameRow, FindingsTypeOK, Worded
<1> QED BY <1>1 DEF FindingsTypeOK, Worded

LEMMA FindingsUntouched ==
    ASSUME FindingsTypeOK, UNCHANGED findings
    PROVE  /\ Ids' = Ids /\ findings' \in [Ids' -> Finding]
           /\ \A i \in Ids' : SameRow(findings'[i], findings[i])
  BY DEF FindingsTypeOK, Ids, SameRow

LEMMA ErasedRows ==
    ASSUME FindingsTypeOK, NEW S, findings' = Erase(findings, S)
    PROVE  /\ Ids' = Ids \ S /\ findings' \in [Ids' -> Finding]
           /\ \A i \in Ids' : SameRow(findings'[i], findings[i])
  BY DEF FindingsTypeOK, Ids, SameRow, Erase

LEMMA HandledRow ==
    ASSUME FindingsTypeOK, NEW i \in Ids, NEW state \in {Null, "fixed", "dismissed"},
           SetByHand(i, state)
    PROVE  /\ Ids' = Ids /\ findings' \in [Ids' -> Finding]
           /\ \A k \in Ids' : SameRow(findings'[k], findings[k])
<1>1. findings' = [findings EXCEPT ![i].resolution = state, ![i].by = Null]
  BY DEF SetByHand
<1>2. /\ DOMAIN findings' = Ids
      /\ \A k \in Ids \ {i} : findings'[k] = findings[k]
      /\ findings'[i] = [findings[i] EXCEPT !.resolution = state, !.by = Null]
  BY <1>1 DEF Ids
<1>3. \A k \in Ids : findings[k] \in Finding
  BY DEF FindingsTypeOK
<1>4. \A k \in Ids : findings'[k] \in Finding /\ SameRow(findings'[k], findings[k])
  <2>1. [findings[i] EXCEPT !.resolution = state, !.by = Null] \in Finding
    BY <1>3 DEF Finding
  <2>2. SameRow([findings[i] EXCEPT !.resolution = state, !.by = Null], findings[i])
    BY <1>3 DEF Finding, SameRow
  <2>3. \A k \in Ids \ {i} : SameRow(findings[k], findings[k])
    BY DEF SameRow
  <2> QED BY <1>2, <1>3, <2>1, <2>2, <2>3
<1>5. findings' = [k \in Ids |-> findings'[k]]
  BY <1>1 DEF Ids
<1> QED BY <1>2, <1>4, <1>5 DEF Ids

\* Whatever a person does to the findings, the rows that stay are still
\* about the same verdict.
LEMMA ByHandRows ==
    ASSUME FindingsTypeOK, ByHand
    PROVE  /\ Ids' \subseteq Ids /\ findings' \in [Ids' -> Finding]
           /\ \A i \in Ids' : SameRow(findings'[i], findings[i])
           /\ DOMAIN summaries' \subseteq DOMAIN summaries
           /\ UNCHANGED <<storeVars, nodes, loaded, displaced>>
<1>1. CASE \E i \in Ids, state \in {Null, "fixed", "dismissed"} : SetByHand(i, state)
  BY <1>1, HandledRow DEF SetByHand
<1>2. CASE \E S \in SUBSET Ids : EraseFindings(S)
  BY <1>2, ErasedRows DEF EraseFindings
<1>3. CASE \E S : EraseSummaries(S)
  <2>1. DOMAIN summaries' \subseteq DOMAIN summaries
    BY <1>3 DEF EraseSummaries, Erase
  <2> QED BY <1>3, <2>1, FindingsUntouched DEF EraseSummaries
<1>4. ByHand => <1>1!1 \/ <1>2!1 \/ <1>3!1
  BY DEF ByHand, OnNode
<1> QED BY <1>1, <1>2, <1>3, <1>4

LEMMA MovedRows ==
    ASSUME Judged, NEW from \in Node, NEW to \in Node, ScanRenamed(from, to)
    PROVE  /\ Ids' = Ids /\ findings' \in [Ids' -> Finding]
           /\ \A i \in Ids :
                 /\ findings'[i].node = IF findings[i].node = from THEN to
                                        ELSE findings[i].node
                 /\ findings'[i].ext = findings[i].ext
                 /\ findings'[i].job = findings[i].job
                 /\ findings'[i].origin = findings[i].origin
                 /\ findings'[i].message = findings[i].message
<1>1. findings' = [i \in Ids |-> IF findings[i].node = from
                                 THEN [findings[i] EXCEPT !.node = to]
                                 ELSE findings[i]]
  BY DEF ScanRenamed
<1>2. \A i \in Ids : findings[i] \in Finding
  BY DEF Judged, FindingsTypeOK
<1>3. \A i \in Ids : findings'[i] = IF findings[i].node = from
                                    THEN [findings[i] EXCEPT !.node = to]
                                    ELSE findings[i]
  BY <1>1
<1>4. \A i \in Ids : findings'[i] \in Finding
  <2> TAKE i \in Ids
  <2>1. CASE findings[i].node = from
    <3>1. findings'[i] = [findings[i] EXCEPT !.node = to] /\ findings[i] \in Finding
      BY <1>2, <1>3, <2>1
    <3> QED BY <3>1 DEF Finding
  <2>2. CASE findings[i].node # from
    BY <1>2, <1>3, <2>2
  <2> QED BY <2>1, <2>2
<1>5. DOMAIN findings' = Ids
  BY <1>1
<1>6. findings' \in [Ids -> Finding]
  BY <1>1, <1>3, <1>4
<1> QED BY <1>2, <1>3, <1>5, <1>6 DEF Ids, Finding

LEMMA ShapeStep ==
    ASSUME Judged, issued \subseteq issued', [FindingsNext]_findingsVars
    PROVE  FindingsTypeOK' /\ Worded'
<1> USE DEF Judged
<1>1. CASE \/ Queue \/ SubmitJudged \/ UNCHANGED findingsVars
  <2>1. UNCHANGED <<tableVars, loaded>>
    BY <1>1 DEF Queue, SubmitJudged, findingsVars
  <2> QED BY <2>1, FindingsUntouched, RowsKept DEF tableVars
<1>2. CASE ByHand
  BY <1>2, ByHandRows, RowsKept
<1>3. ASSUME NEW j \in Live, RecordCheck(j)
      PROVE  FindingsTypeOK' /\ Worded'
  <2>1. /\ jobs[j] \in Job /\ j \in issued
        /\ UNCHANGED <<nodes, findings, summaries, issued>>
    BY <1>3 DEF RecordCheck, tableVars, storeVars, Typed, Shapes
  <2>2. loaded' \in [job : issued, node : Node, ext : Ext]
    BY <1>3, <2>1 DEF RecordCheck, Job, Hash
  <2> QED BY <2>1, <2>2 DEF FindingsTypeOK, Worded, Ids
<1>4. CASE RecordFailed \/ RecordDropped
  <2>1. UNCHANGED tableVars /\ loaded' = Null
    BY <1>4 DEF RecordFailed, RecordDropped
  <2> QED BY <2>1 DEF FindingsTypeOK, Worded, Ids, tableVars
<1>5. CASE RecordCompleted
  <2>1. /\ findings' \in [Ids' -> Finding] /\ Ids' \subseteq FindingId
        /\ \A i \in Ids' : Kept(i) \/ Fresh(i)
    BY <1>5, RecordRows
  <2>2. UNCHANGED nodes /\ loaded' = Null /\ loaded.job \in issued
        /\ loaded.node \in Node /\ loaded.ext \in Ext
    BY <1>5 DEF RecordCompleted, FindingsTypeOK
  <2>3. \A i \in Ids' : findings'[i].job \in issued'
    BY <2>1, <2>2 DEF Kept, Fresh, SameRow, FreshRow, FindingsTypeOK
  <2>4. \A i \in Ids' : findings'[i].origin = "extension" =>
                            findings'[i].message \in Message
    BY <2>1 DEF Kept, Fresh, SameRow, FreshRow, Worded
  <2>5. DOMAIN summaries' \subseteq Node \X Summarizer
    BY <1>5, <2>2 DEF RecordCompleted, WriteSummary, FindingsTypeOK
  <2> QED BY <2>1, <2>2, <2>3, <2>4, <2>5 DEF FindingsTypeOK, Worded
<1>6. ASSUME NEW n \in Node, ScanGone(n) \/ \E b \in Body : ScanBody(n, b)
      PROVE  FindingsTypeOK' /\ Worded'
  <2>1. UNCHANGED <<issued, findings, summaries, loaded>>
    BY <1>6 DEF ScanGone, ScanBody, storeVars
  <2>2. nodes' \in [DOMAIN nodes' -> Body] /\ DOMAIN nodes' \subseteq Node
    BY <1>6 DEF ScanGone, ScanBody, FindingsTypeOK
  <2> QED BY <2>1, <2>2 DEF FindingsTypeOK, Worded, Ids
<1>7. ASSUME NEW from \in Node, NEW to \in Node, ScanRenamed(from, to)
      PROVE  FindingsTypeOK' /\ Worded'
  <2>1. nodes' \in [DOMAIN nodes' -> Body] /\ DOMAIN nodes' \subseteq Node
    BY <1>7 DEF ScanRenamed, FindingsTypeOK
  <2>2. DOMAIN summaries' \subseteq Node \X Summarizer
    <3>1. DOMAIN summaries' \subseteq
             DOMAIN summaries \cup {<<to, k[2]>> : k \in DOMAIN summaries}
      BY <1>7 DEF ScanRenamed
    <3>2. DOMAIN summaries \subseteq Node \X Summarizer
      BY DEF FindingsTypeOK
    <3> QED BY <3>1, <3>2
  <2>3. UNCHANGED <<issued, loaded>>
    BY <1>7 DEF ScanRenamed, MigrateJobs
  <2> QED BY <1>7, <2>1, <2>2, <2>3, MovedRows DEF FindingsTypeOK, Worded
<1>8. \A p \in Renames : p = <<p[1], p[2]>> /\ p[1] \in Node /\ p[2] \in Node
  BY StoreAssumption
<1> QED BY <1>1, <1>2, <1>3, <1>4, <1>5, <1>6, <1>7, <1>8 DEF FindingsNext

-----------------------------------------------------------------------------
(***************************************************************************)
(* What a step does to the place of a job: its hash, and its path.         *)
(***************************************************************************)
InPlace(k) == /\ k \in Live
              /\ jobs'[k].hash = jobs[k].hash /\ jobs'[k].node = jobs[k].node

LEMMA ClosedInPlace ==
    ASSUME Typed, NEW S, NEW s, NEW why, NEW t, Close(S, s, why, t)
    PROVE  Live' = Live /\ executions' = executions /\ \A k \in Live : InPlace(k)
<1>1. \A k \in Live : jobs[k] \in Job
  BY DEF Typed, Shapes
<1>2. \A k \in Live : /\ Closed(jobs[k], s, why, t).hash = jobs[k].hash
                      /\ Closed(jobs[k], s, why, t).node = jobs[k].node
  BY <1>1 DEF Closed, Job
<1>3. \A k \in Live : jobs'[k] = jobs[k] \/ jobs'[k] = Closed(jobs[k], s, why, t)
  BY DEF Close
<1> QED BY <1>2, <1>3 DEF Close, InPlace, Live

LEMMA QueuedInPlace ==
    ASSUME Typed, Queue
    PROVE  /\ executions' = executions
           /\ \A k \in Live' : InPlace(k)
<1>1. CASE Tick
  BY <1>1 DEF Tick, InPlace, Live
<1>2. CASE Claim
  <2>1. PICK j \in Live, t \in Stamp, exts \in SUBSET Ext : ClaimNext(j, exts, t)
    BY <1>2 DEF Claim
  <2>2. jobs[j] \in Job
    BY DEF Typed, Shapes
  <2>3. DOMAIN jobs' = Live /\ \A k \in Live \ {j} : jobs'[k] = jobs[k]
    BY <2>1 DEF ClaimNext, Live
  <2>4. jobs'[j].hash = jobs[j].hash /\ jobs'[j].node = jobs[j].node
    BY <2>1, <2>2 DEF ClaimNext, Live, Job
  <2> QED BY <2>1, <2>3, <2>4 DEF ClaimNext, InPlace, Live
<1>3. CASE \E S, s, why, t : Close(S, s, why, t)
  BY <1>3, ClosedInPlace
<1>4. CASE Prune
  BY <1>4 DEF Prune, PruneTerminalJobs, InPlace, Live, Prunable
<1>5. Reap \/ Cancel \/ Fail => <1>3!1
  BY DEF Reap, ReapExpired, Cancel, CancelJob, CancelAllActive, Fail, FailJob,
         FailAllActive
<1> QED BY <1>1, <1>2, <1>3, <1>4, <1>5 DEF Queue

LEMMA SubmittedInPlace ==
    ASSUME Typed, SubmitJudged
    PROVE  /\ executions' = executions
           /\ \A k \in Live' \cap issued : InPlace(k)
<1>1. PICK id, r, stale : Enqueue(id, r, stale)
  BY DEF SubmitJudged, SubmitJob, SubmitFixerJob
<1>2. \A k \in Live : jobs[k] \in Job
  BY DEF Typed, Shapes
<1>3. \A k \in Live : /\ Closed(jobs[k], "cancelled", Null, r.created).hash = jobs[k].hash
                      /\ Closed(jobs[k], "cancelled", Null, r.created).node = jobs[k].node
  BY <1>2 DEF Closed, Job
<1>4. /\ Live' = Live \cup {id}
      /\ \A k \in Live : \/ jobs'[k] = jobs[k]
                         \/ jobs'[k] = Closed(jobs[k], "cancelled", Null, r.created)
  BY <1>1 DEF Enqueue, Live, Typed, Shapes
<1> QED BY <1>1, <1>3, <1>4 DEF InPlace, Enqueue

LEMMA RecordedInPlace ==
    ASSUME Typed, NEW j, NEW s, NEW why, NEW started, NEW t,
           RecordJobTerminal(j, s, why, started, t)
    PROVE  /\ Live' = Live /\ \A k \in Live : InPlace(k)
           /\ executions' = Append(executions, [job |-> j, status |-> s,
                                reason |-> why, started |-> started, finished |-> t])
<1>1. j \in Live /\ jobs' = [jobs EXCEPT ![j] = Closed(@, s, why, t)]
  BY DEF RecordJobTerminal, InStatus
<1>2. jobs[j] \in Job
  BY <1>1 DEF Typed, Shapes
<1>3. Closed(jobs[j], s, why, t).hash = jobs[j].hash
      /\ Closed(jobs[j], s, why, t).node = jobs[j].node
  BY <1>2 DEF Closed, Job
<1>4. Live' = Live /\ \A k \in Live \ {j} : jobs'[k] = jobs[k]
  BY <1>1 DEF Live
<1>5. jobs'[j] = Closed(jobs[j], s, why, t)
  BY <1>1 DEF Live
<1> QED BY <1>3, <1>4, <1>5 DEF InPlace, RecordJobTerminal

\* A rename aside, a job keeps its place; the paths of a rename are displaced.
Stays(k) == /\ k \in Live /\ jobs'[k].hash = jobs[k].hash
            /\ jobs'[k].node = jobs[k].node \/ jobs'[k].node \in displaced'

LEMMA JobsStay ==
    ASSUME Judged, [FindingsNext]_findingsVars
    PROVE  /\ \A k \in Live' \cap issued : Stays(k)
           /\ displaced \subseteq displaced'
<1> USE DEF Judged
<1>1. CASE Queue
  BY <1>1, QueuedInPlace DEF Queue, Stays, InPlace
<1>2. CASE SubmitJudged
  <2>1. \A k \in Live' \cap issued : InPlace(k)
    BY <1>2, SubmittedInPlace
  <2>2. displaced' = displaced
    BY <1>2 DEF SubmitJudged
  <2> QED BY <2>1, <2>2 DEF Stays, InPlace
<1>3. CASE UNCHANGED storeVars /\ displaced \subseteq displaced'
  BY <1>3 DEF storeVars, Stays, Live
<1>4. CASE RecordCompleted \/ RecordFailed
  <2>1. displaced' = displaced
    BY <1>4 DEF RecordCompleted, RecordFailed, tableVars
  <2>2. \E j, s, why, started, t : RecordJobTerminal(j, s, why, started, t)
    BY <1>4 DEF RecordCompleted, RecordFailed
  <2> QED BY <2>1, <2>2, RecordedInPlace DEF Stays, InPlace
<1>5. ASSUME NEW from \in Node, NEW to \in Node, ScanRenamed(from, to)
      PROVE  /\ \A k \in Live' \cap issued : Stays(k)
             /\ displaced \subseteq displaced'
  <2>1. MigrateJobs(from, to) /\ displaced' = displaced \cup {from, to}
    BY <1>5 DEF ScanRenamed
  <2>2. Moved(from) \subseteq Live
    BY DEF Moved
  <2> QED BY <2>1, <2>2, MoveFrame DEF Stays
<1>6. \/ ByHand \/ RecordDropped \/ UNCHANGED findingsVars
      \/ \E j \in Live : RecordCheck(j)
      \/ \E n \in Node : ScanGone(n) \/ \E b \in Body : ScanBody(n, b)
      => <1>3!1
  BY DEF ByHand, SetByHand, EraseFindings, EraseSummaries, RecordDropped,
         RecordCheck, ScanGone, ScanBody, findingsVars
<1>7. \A p \in Renames : p = <<p[1], p[2]>> /\ p[1] \in Node /\ p[2] \in Node
  BY StoreAssumption
<1> QED BY <1>1, <1>2, <1>3, <1>4, <1>5, <1>6, <1>7 DEF FindingsNext

LEMMA AddressStep ==
    ASSUME Judged, Addressed, [FindingsNext]_findingsVars
    PROVE  Addressed'
<1>1. CASE loaded' = loaded
  <2>1. loaded # Null => loaded.job \in issued
    BY DEF Judged, FindingsTypeOK
  <2> QED BY <1>1, <2>1, JobsStay DEF Addressed, Stays
<1>2. ASSUME NEW j \in Live, RecordCheck(j)
      PROVE  Addressed'
  BY <1>2 DEF RecordCheck, storeVars, Addressed, Live
<1>3. CASE loaded' = Null
  BY <1>3 DEF Addressed
<1>4. loaded' = loaded \/ loaded' = Null \/ \E j \in Live : RecordCheck(j)
  <2>1. Queue \/ SubmitJudged \/ UNCHANGED findingsVars => loaded' = loaded
    BY DEF Queue, SubmitJudged, findingsVars
  <2>2. ByHand => loaded' = loaded
    BY DEF ByHand, SetByHand, EraseFindings, EraseSummaries
  <2>3. RecordCompleted \/ RecordFailed \/ RecordDropped => loaded' = Null
    BY DEF RecordCompleted, RecordFailed, RecordDropped
  <2>4. \A n \in Node : ScanGone(n) \/ (\E b \in Body : ScanBody(n, b)) =>
                            loaded' = loaded
    BY DEF ScanGone, ScanBody
  <2>5. \A p \in Renames : ScanRenamed(p[1], p[2]) => loaded' = loaded
    BY DEF ScanRenamed
  <2> QED BY <2>1, <2>2, <2>3, <2>4, <2>5 DEF FindingsNext
<1> QED BY <1>1, <1>2, <1>3, <1>4

LEMMA VanishedStep ==
    ASSUME Vanished, [FindingsNext]_findingsVars
    PROVE  Vanished'
<1>1. CASE UNCHANGED <<nodes, displaced>>
  BY <1>1 DEF Vanished
<1>2. ASSUME NEW n \in Node, ScanGone(n) \/ \E b \in Body : ScanBody(n, b)
      PROVE  Vanished'
  BY <1>2 DEF ScanGone, ScanBody, Vanished
<1>3. ASSUME NEW p \in Renames, ScanRenamed(p[1], p[2])
      PROVE  Vanished'
  BY <1>3 DEF ScanRenamed, Vanished
<1>4. \/ Queue \/ SubmitJudged \/ ByHand \/ UNCHANGED findingsVars
      \/ \E j \in Live : RecordCheck(j)
      \/ RecordCompleted \/ RecordFailed \/ RecordDropped
      => UNCHANGED <<nodes, displaced>>
  BY DEF Queue, SubmitJudged, ByHand, SetByHand, EraseFindings, EraseSummaries,
         findingsVars, RecordCheck, RecordCompleted, RecordFailed, RecordDropped, tableVars
<1> QED BY <1>1, <1>2, <1>3, <1>4 DEF FindingsNext

-----------------------------------------------------------------------------
(***************************************************************************)
(* The two promises of the tables.                                         *)
(***************************************************************************)

\* A row that is still the verdict it was, or went with a rename.
Follows(i) == /\ i \in Ids
              /\ findings'[i].ext = findings[i].ext
              /\ findings'[i].job = findings[i].job
              /\ findings'[i].origin = findings[i].origin
              /\ \/ findings'[i].node = findings[i].node
                 \/ findings'[i].node \in displaced'

\* Every step but a completed record only lets rows go or follow.
LEMMA RowsFollow ==
    ASSUME Judged, [FindingsNext]_findingsVars, ~RecordCompleted
    PROVE  \A i \in Ids' : Follows(i)
<1>1. CASE UNCHANGED findings
  BY <1>1 DEF Follows, Ids
<1>2. CASE ByHand
  <2>1. Ids' \subseteq Ids /\ \A i \in Ids' : SameRow(findings'[i], findings[i])
    BY <1>2, ByHandRows DEF Judged
  <2> QED BY <2>1 DEF Follows, SameRow
<1>3. ASSUME NEW from \in Node, NEW to \in Node, ScanRenamed(from, to)
      PROVE  \A i \in Ids' : Follows(i)
  <2>1. to \in displaced'
    BY <1>3 DEF ScanRenamed
  <2> QED BY <1>3, <2>1, MovedRows DEF Follows
<1>4. \/ Queue \/ SubmitJudged \/ UNCHANGED findingsVars
      \/ RecordFailed \/ RecordDropped
      \/ \E j \in Live : RecordCheck(j)
      \/ \E n \in Node : ScanGone(n) \/ \E b \in Body : ScanBody(n, b)
      => UNCHANGED findings
  BY DEF Queue, SubmitJudged, findingsVars, RecordFailed, RecordDropped,
         RecordCheck, ScanGone, ScanBody, tableVars
<1>5. \A p \in Renames : p[1] \in Node /\ p[2] \in Node
  BY StoreAssumption
<1> QED BY <1>1, <1>2, <1>3, <1>4, <1>5 DEF FindingsNext

LEMMA SafetyStep ==
    ASSUME Judged, Vanished, OneSafetyVerdict, [FindingsNext]_findingsVars
    PROVE  OneSafetyVerdict'
<1>1. displaced \subseteq displaced'
  BY JobsStay
<1>2. SUFFICES ASSUME NEW i \in Ids', NEW k \in Ids',
                      findings'[i].node \notin displaced',
                      findings'[i].origin = "kernel",
                      findings'[k].origin = "kernel",
                      findings'[i].node = findings'[k].node
               PROVE  findings'[i].job = findings'[k].job
  BY DEF OneSafetyVerdict
<1>3. CASE Follows(i) /\ Follows(k)
  BY <1>1, <1>2, <1>3 DEF Follows, OneSafetyVerdict
<1>4. CASE RecordCompleted
  <2>1. (Kept(i) \/ Fresh(i)) /\ (Kept(k) \/ Fresh(k))
    BY <1>2, <1>4, RecordRows
  <2>2. CASE Kept(i) /\ Kept(k)
    BY <2>2, <1>1, <1>2 DEF Kept, SameRow, OneSafetyVerdict
  <2>3. CASE Fresh(i) /\ Fresh(k)
    BY <2>3 DEF Fresh, FreshRow
  <2>4. ~(Kept(i) /\ Fresh(k)) /\ ~(Fresh(i) /\ Kept(k))
    BY <1>2 DEF Kept, Fresh, SameRow, FreshRow
  <2> QED BY <2>1, <2>2, <2>3, <2>4
<1> QED BY <1>2, <1>3, <1>4, RowsFollow

\* A later completed run of the finder over the same node.
Later(f, x, y) == /\ executions[x].job = f.job
                  /\ executions[y].status = "completed"
                  /\ executions[y].job \in Live
                  /\ jobs[executions[y].job].hash.ext = f.ext
                  /\ jobs[executions[y].job].node = f.node

LEMMA LatestUnfolds ==
    LatestJudgment <=>
        \A i \in Ids, x, y \in DOMAIN executions :
            /\ findings[i].origin = "extension" /\ findings[i].node \notin displaced
            /\ Later(findings[i], x, y)
            => y <= x
  BY DEF LatestJudgment, Later

\* What was said of the old history stays true, of the rows that follow.
LEMMA LaterKept ==
    ASSUME Judged, LatestJudgment, NEW i \in Ids', Follows(i),
           displaced \subseteq displaced',
           \A k \in Live' \cap issued : Stays(k),
           findings'[i].origin = "extension", findings'[i].node \notin displaced',
           NEW x \in DOMAIN executions, NEW y \in DOMAIN executions,
           executions'[x] = executions[x], executions'[y] = executions[y],
           Later(findings[i], x, y)'
    PROVE  y <= x
<1>1. executions[y].job \in issued
  BY DEF Judged, HistoryAgrees, Agrees
<1>2. Stays(executions[y].job)
  BY <1>1 DEF Later
<1>3. Later(findings[i], x, y)
  BY <1>2 DEF Later, Follows, Stays
<1> QED BY <1>3, LatestUnfolds DEF Follows

LEMMA LatestStep ==
    ASSUME Judged, Addressed, Vanished, LatestJudgment,
           [FindingsNext]_findingsVars
    PROVE  LatestJudgment'
<1>1. /\ displaced \subseteq displaced'
      /\ \A k \in Live' \cap issued : Stays(k)
  BY JobsStay
<1>2. SUFFICES ASSUME NEW i \in Ids', NEW x \in DOMAIN executions',
                      NEW y \in DOMAIN executions',
                      findings'[i].origin = "extension",
                      findings'[i].node \notin displaced',
                      Later(findings[i], x, y)'
               PROVE  y <= x
  BY LatestUnfolds DEF LatestJudgment, Later
<1>3. executions \in Seq(Execution)
  BY DEF Judged, Typed, Shapes
<1>4. CASE ~RecordCompleted /\ UNCHANGED executions
  BY <1>1, <1>2, <1>4, RowsFollow, LaterKept
<1>5. CASE ~RecordCompleted /\ executions' # executions
  <2>1. RecordFailed
    <3>1. \A n \in Node : ScanGone(n) \/ (\E b \in Body : ScanBody(n, b)) =>
                              UNCHANGED executions
      BY DEF ScanGone, ScanBody, storeVars
    <3>2. \A p \in Renames : ScanRenamed(p[1], p[2]) => UNCHANGED executions
      BY DEF ScanRenamed, MigrateJobs
    <3>3. Queue \/ SubmitJudged => UNCHANGED executions
      BY QueuedInPlace, SubmittedInPlace DEF Judged
    <3>4. ByHand \/ UNCHANGED findingsVars => UNCHANGED executions
      BY DEF ByHand, SetByHand, EraseFindings, EraseSummaries, storeVars, findingsVars
    <3>5. RecordDropped \/ (\E j \in Live : RecordCheck(j)) => UNCHANGED executions
      BY DEF RecordDropped, RecordCheck, storeVars
    <3> QED BY <1>5, <3>1, <3>2, <3>3, <3>4, <3>5 DEF FindingsNext
  <2>2. PICK e : executions' = Append(executions, e) /\ e.status = "failed"
    <3>1. PICK why : RecordJobTerminal(loaded.job, "failed", why,
                                       jobs[loaded.job].claimed, now)
      BY <2>1 DEF RecordFailed
    <3> DEFINE row == [job |-> loaded.job, status |-> "failed", reason |-> why,
                       started |-> jobs[loaded.job].claimed, finished |-> now]
    <3>2. executions' = Append(executions, row)
      BY <3>1 DEF RecordJobTerminal
    <3>3. row.status = "failed"
      OBVIOUS
    <3> QED BY <3>2, <3>3
  <2>3. /\ Len(executions) \in Nat /\ DOMAIN executions = 1 .. Len(executions)
        /\ DOMAIN executions' = 1 .. (Len(executions) + 1)
        /\ executions'[Len(executions) + 1] = e
        /\ \A z \in DOMAIN executions : executions'[z] = executions[z]
    BY <1>3, <2>2
  <2>4. executions'[y].status = "completed"
    BY <1>2 DEF Later
  <2>5. y \in DOMAIN executions
    BY <2>2, <2>3, <2>4
  <2>6. CASE x \in DOMAIN executions
    BY <1>1, <1>2, <1>5, <2>3, <2>5, <2>6, RowsFollow, LaterKept
  <2>7. CASE x = Len(executions) + 1
    BY <2>3, <2>5, <2>7
  <2> QED BY <2>3, <2>6, <2>7
<1>6. CASE RecordCompleted
  <2> DEFINE j == loaded.job
  <2>1. /\ RecordJobTerminal(j, "completed", Null, jobs[j].claimed, now)
        /\ loaded # Null
    BY <1>6 DEF RecordCompleted
  <2>2. /\ j \in Live /\ Live' = Live /\ \A k \in Live : InPlace(k)
        /\ j \in Active
    <3>1. j \in Live /\ j \in Active
      BY <2>1 DEF RecordJobTerminal, InStatus, Active, ActiveStatus
    <3>2. Live' = Live /\ \A k \in Live : InPlace(k)
      BY <2>1, RecordedInPlace DEF Judged
    <3> QED BY <3>1, <3>2
  <2>3. PICK e : executions' = Append(executions, e) /\ e.job = j
    <3> DEFINE row == [job |-> j, status |-> "completed", reason |-> Null,
                       started |-> jobs[j].claimed, finished |-> now]
    <3>1. executions' = Append(executions, row)
      BY <2>1 DEF RecordJobTerminal
    <3>2. row.job = j
      OBVIOUS
    <3> QED BY <3>1, <3>2
  <2>4. /\ Len(executions) \in Nat /\ DOMAIN executions = 1 .. Len(executions)
        /\ DOMAIN executions' = 1 .. (Len(executions) + 1)
        /\ executions'[Len(executions) + 1] = e
        /\ \A z \in DOMAIN executions : executions'[z] = executions[z]
    BY <1>3, <2>3
  <2>5. \A z \in DOMAIN executions : executions[z].job # j
    BY <2>2, ActiveUnrecorded DEF Judged
  <2>6. CASE x = Len(executions) + 1
    BY <2>4, <2>6
  <2>7. CASE x \in DOMAIN executions /\ Fresh(i)
    <3>1. findings'[i].job = j /\ executions'[x].job = executions[x].job
      BY <2>4, <2>7 DEF Fresh, FreshRow
    <3>2. executions'[x].job = findings'[i].job
      BY <1>2 DEF Later
    <3> QED BY <2>5, <2>7, <3>1, <3>2
  <2>8. CASE x \in DOMAIN executions /\ Kept(i)
    <3>1. Follows(i)
      BY <2>8 DEF Kept, SameRow, Follows
    <3>2. CASE y \in DOMAIN executions
      BY <1>1, <1>2, <2>4, <2>8, <3>1, <3>2, LaterKept
    <3>3. CASE y = Len(executions) + 1
      <4>1. executions'[y].job = j
        BY <2>3, <2>4, <3>3
      <4>2. jobs'[j].hash.ext = findings'[i].ext /\ jobs'[j].node = findings'[i].node
        BY <1>2, <4>1 DEF Later
      <4>3. jobs[j].hash.ext = findings[i].ext /\ jobs[j].node = findings[i].node
        BY <2>2, <4>2, <2>8 DEF InPlace, Kept, SameRow
      <4>4. findings[i].node \notin displaced
        BY <1>1, <1>2, <2>8 DEF Kept, SameRow
      <4>5. loaded.ext = findings[i].ext /\ loaded.node = findings[i].node
        BY <2>1, <2>2, <4>3, <4>4 DEF Addressed
      <4>6. loaded.node \in DOMAIN nodes
        <5>1. findings[i].node \in Node
          BY <2>8 DEF Kept, Judged, FindingsTypeOK, Finding
        <5> QED BY <4>4, <4>5, <5>1 DEF Vanished
      <4> QED BY <2>8, <4>5, <4>6 DEF Kept
    <3> QED BY <2>4, <3>2, <3>3
  <2>9. Kept(i) \/ Fresh(i)
    BY <1>2, <1>6, RecordRows
  <2> QED BY <2>4, <2>6, <2>7, <2>8, <2>9
<1> QED BY <1>4, <1>5, <1>6

-----------------------------------------------------------------------------
FindingsInv == Judged /\ Addressed /\ Vanished /\ OneSafetyVerdict /\ LatestJudgment

LEMMA FindingsStart ==
    ASSUME FindingsInit
    PROVE  FindingsInv
<1>1. Typed /\ HistoryAgrees
  BY DEF FindingsInit, Init, Typed, Shapes, RowsAgree, HistoryAgrees, Live, Job
<1>2. Ids = {} /\ findings = <<>> /\ DOMAIN summaries = {} /\ DOMAIN nodes = Node
  BY DEF FindingsInit, Ids
<1>3. nodes \in [DOMAIN nodes -> Body]
  BY <1>2 DEF FindingsInit
<1>4. findings \in [Ids -> Finding]
  BY <1>2
<1>5. FindingsTypeOK
  BY <1>2, <1>3, <1>4 DEF FindingsInit, FindingsTypeOK
<1>6. Worded /\ OneSafetyVerdict /\ LatestJudgment
  BY <1>2 DEF Worded, OneSafetyVerdict, LatestJudgment
<1>7. Addressed /\ Vanished
  BY <1>2 DEF FindingsInit, Addressed, Vanished
<1> QED BY <1>1, <1>5, <1>6, <1>7 DEF FindingsInv, Judged

LEMMA FindingsStep ==
    ASSUME FindingsInv, [FindingsNext]_findingsVars
    PROVE  FindingsInv'
<1>1. [Next]_storeVars
  BY FindingsStoreStep DEF FindingsInv
<1>2. Typed' /\ HistoryAgrees'
  BY <1>1, ActionTyped, HistoryStep DEF FindingsInv, Judged
<1>3. FindingsTypeOK' /\ Worded'
  BY <1>1, IssuedGrows, ShapeStep DEF FindingsInv, Judged
<1>4. Addressed' /\ Vanished'
  BY AddressStep, VanishedStep DEF FindingsInv
<1>5. OneSafetyVerdict' /\ LatestJudgment'
  BY SafetyStep, LatestStep DEF FindingsInv
<1> QED BY <1>2, <1>3, <1>4, <1>5 DEF FindingsInv, Judged

LEMMA FindingsAlways == FindingsSpec => []FindingsInv
  BY FindingsStart, FindingsStep, PTL DEF FindingsSpec

\* The records, scans, fixers and people of this module run on the store as it
\* is: each of their steps is a transaction of JobStore or leaves its tables
\* alone, and what a submit shows a fixer is an input the store may freeze.
THEOREM FindingsUseStore == FindingsSpec => Spec
<1>1. FindingsInit => Init
  BY DEF FindingsInit
<1>2. FindingsInv /\ [FindingsNext]_findingsVars => [Next]_storeVars
  BY FindingsStoreStep DEF FindingsInv
<1> QED BY <1>1, <1>2, FindingsAlways, PTL DEF FindingsSpec, Spec

\* So everything the store promises of its tables holds under the judgments,
\* the renames of a scan included.
THEOREM StoreKeepsUnderFindings ==
    FindingsSpec => [](ContentIntegrity /\ OneActivePerKey /\ ExecutionsAgree)
  BY FindingsUseStore, ContentAlwaysResolves, NoDuplicateWork,
     HistoryMatchesQueue, PTL

\* state_findings and state_summaries keep the shapes of their schema, and
\* every row names a job the queue issued.
THEOREM FindingsTypeCorrect == FindingsSpec => []FindingsTypeOK
<1>1. FindingsInv => FindingsTypeOK
  BY DEF FindingsInv, Judged
<1> QED BY <1>1, FindingsAlways, PTL

\* The kernel's rows of a node are one report's, whichever extensions ran over
\* it and in whatever order, as long as no scan displaced the path.
THEOREM OneSafetyReport == FindingsSpec => []OneSafetyVerdict
<1>1. FindingsInv => OneSafetyVerdict
  BY DEF FindingsInv
<1> QED BY <1>1, FindingsAlways, PTL

\* A finder's rows on a node come from its latest completed run there: a record
\* that was loaded earlier and closes later replaces them, and no record of a
\* renamed job writes to a path that was never left.
THEOREM RowsAreTheLatest == FindingsSpec => []LatestJudgment
<1>1. FindingsInv => LatestJudgment
  BY DEF FindingsInv
<1> QED BY <1>1, FindingsAlways, PTL
=============================================================================
