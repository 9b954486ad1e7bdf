------------------------ MODULE WatcherRuntimeProofs ------------------------
(***************************************************************************)
(* Proofs about WatcherRuntime, for any files, drivers, breaker limit and  *)
(* number of edits: passes that run one after the other lose nothing they  *)
(* were told, and a runtime that was started and stopped writes no more.   *)
(***************************************************************************)
EXTENDS WatcherRuntime, TLAPS

-----------------------------------------------------------------------------
(***************************************************************************)
(* Shapes.                                                                 *)
(***************************************************************************)
Events == {"write", "unlink"} \X Path
Scope  == [full : BOOLEAN, events : SUBSET Events]

PassFrame(f) ==
    /\ f.step \in {"load", "walk", "persist"}
    /\ f.scope \in Scope
    /\ f.step = "walk" => DOMAIN f.prior \subseteq Path
    /\ f.step = "persist" => DOMAIN f.result \subseteq Path

StartFrame(f) == \/ f \in [step : {"off", "subscribe", "ready", "rejected"}]
                 \/ PassFrame(f) /\ f.scope.full

BatchFrame(b, f) == \/ f \in [step : {"idle", "reread", "settle"}]
                    \/ f \in [step : {"close", "drain"}, at : Batcher]
                    \/ PassFrame(f) /\ (b = "meta" => f.scope.full)

StopFrame(f) == \/ f \in [step : {"idle"}]
                \/ f \in [step : {"close", "drain"}, at : Batcher, late : BOOLEAN]
                \/ f \in [step : {"done"}, late : BOOLEAN]

Queue == [handle : BOOLEAN,
          pending : SUBSET ({"write", "unlink"} \X (Path \cup {IgnoreFile})),
          timer : BOOLEAN, busy : BOOLEAN, closed : BOOLEAN]

Frames == /\ task = [t \in Task |-> task[t]]
          /\ StartFrame(task["start"]) /\ StopFrame(task["stop"])
          /\ \A b \in Batcher : BatchFrame(b, task[b])

Queued == /\ batcher \in [Batcher -> Queue]
          /\ batcher["primary"].pending \subseteq Events

Typed ==
    /\ mode \in Modes
    /\ stopped \in BOOLEAN /\ resolved \in BOOLEAN /\ overlapped \in BOOLEAN
    /\ DOMAIN disk \subseteq Path /\ DOMAIN db \subseteq Path
    /\ filter \subseteq Path /\ ignoring \subseteq Path
    /\ missed \subseteq Path \cup {IgnoreFile}
    /\ Queued /\ Frames

-----------------------------------------------------------------------------
(***************************************************************************)
(* The batchers and who closes them.                                       *)
(***************************************************************************)

\* start has not armed the watchers, or never will.
Unarmed == \/ task["start"].step \in {"off", "subscribe", "rejected"}
           \/ mode = "cli" /\ InPass("start")

\* A queued event has a timer or a batch in flight that will look at it; a
\* closed batcher has neither.
Batchers ==
    \A b \in Batcher :
        /\ batcher[b].busy <=> ~At(b, "idle")
        /\ batcher[b].timer => batcher[b].pending # {}
        /\ batcher[b].pending # {} => batcher[b].timer \/ batcher[b].busy
        /\ batcher[b].closed => ~batcher[b].timer /\ batcher[b].pending = {}

\* Before the watchers are armed there is nothing to debounce; a handle that is
\* gone since was closed and drained.
Handles ==
    \A b \in Batcher :
        /\ Unarmed => batcher[b] = NoHandle
        /\ ~Unarmed /\ ~batcher[b].handle => batcher[b].closed /\ At(b, "idle")

\* Only a stopped runtime closes, and what it drains it has closed.
Closing ==
    /\ resolved => stopped
    /\ \A t \in Task : task[t].step \in {"close", "drain"} => stopped
    /\ \A t \in Task : At(t, "drain") => batcher[task[t].at].closed

\* How far a stop() that came after start() has come.
Stopping ==
    ~At("stop", "idle") =>
        /\ stopped
        /\ task["stop"].late =>
              /\ At("start", "ready")
              /\ At("stop", "done") \/ task["stop"].at = "primary" =>
                     ~batcher["meta"].handle
              /\ At("stop", "done") => ~batcher["primary"].handle

Control == Batchers /\ Handles /\ Closing /\ Stopping

-----------------------------------------------------------------------------
(***************************************************************************)
(* What becomes of a change.                                               *)
(***************************************************************************)
Named(E, f) == \E e \in E : e[2] = f

\* A scoped walk over these events reads f as it is on disk.
Covers(E, f) == \/ <<"write", f>> \in E
                \/ <<"unlink", f>> \in E /\ f \notin DOMAIN disk

\* A pass that has not loaded yet will read f.
Coming(f) ==
    \/ Covers(batcher["primary"].pending, f)
    \/ At("start", "off")
    \/ mode = "bff" /\ At("start", "subscribe")
    \/ \E t \in Task : At(t, "load") /\ (task[t].scope.full \/ Covers(task[t].scope.events, f))

Reads(t, f) == task[t].scope.full \/ Named(task[t].scope.events, f)

\* The pass in flight has read f as it is, or is about to.
InHand(t, f) ==
    IF At(t, "walk") THEN task[t].scope.full \/ Covers(task[t].scope.events, f)
    ELSE Shows(task[t].result, f)

\* Of a file nobody missed: it will be read, or is being read and the reader
\* has it right, or the table has it right and nobody is reading it.
Kept(f) == \/ Coming(f)
           \/ \E t \in Task : Loaded(t) /\ Reads(t, f) /\ InHand(t, f)
           \/ Shows(db, f) /\ \A t \in Task : Loaded(t) => ~Reads(t, f)

\* A queued event about f that nobody missed tells of f as it is, or a newer
\* one does.
Told(f) ==
    /\ Named(batcher["primary"].pending, f) => Covers(batcher["primary"].pending, f)
    /\ At("primary", "load") /\ Named(task["primary"].scope.events, f) =>
           \/ Covers(task["primary"].scope.events, f)
           \/ Covers(batcher["primary"].pending, f)

\* Two tables agree on f.
SameAt(m, n, f) == /\ f \in DOMAIN m <=> f \in DOMAIN n
                   /\ f \in DOMAIN n => m[f] = n[f]

\* The one pass in flight started from the table as it is, and takes over from
\* it all it does not read.
OneAtATime ==
    /\ \A t, u \in Task : Loaded(t) /\ Loaded(u) => t = u
    /\ \A t \in Task : At(t, "walk") => task[t].prior = db
    /\ \A t \in Task : At(t, "persist") =>
          \A f \in Path : Reads(t, f) \/ SameAt(task[t].result, db, f)

FilterKept ==
    IgnoreFile \notin missed =>
        \/ filter = ignoring \/ At("start", "off")
        \/ batcher["meta"].pending # {} \/ At("meta", "reread")

Serial ==
    ~overlapped /\ ~stopped =>
        OneAtATime /\ FilterKept /\ \A f \in Path \ missed : Told(f) /\ Kept(f)

WatcherInv == Typed /\ Control /\ Serial

-----------------------------------------------------------------------------
(***************************************************************************)
(* What the updates of the two arrays do, element by element.              *)
(***************************************************************************)
LEMMA Goes ==
    ASSUME Typed, NEW t \in Task, NEW frame, Goto(t, frame)
    PROVE  /\ task'[t] = frame
           /\ \A u \in Task \ {t} : task'[u] = task[u]
           /\ task' = [u \in Task |-> task'[u]]
  BY DEF Typed, Frames, Goto

LEMMA Enqueues ==
    ASSUME Typed, NEW b \in Batcher, NEW kind \in {"write", "unlink"},
           NEW f \in Path \cup {IgnoreFile}, Enqueue(b, <<kind, f>>)
    PROVE  /\ batcher' \in [Batcher -> Queue]
           /\ batcher'[b].pending = batcher[b].pending \cup {<<kind, f>>}
           /\ batcher'[b].timer
           /\ batcher'[b].handle = batcher[b].handle
           /\ batcher'[b].busy = batcher[b].busy
           /\ batcher'[b].closed = batcher[b].closed
           /\ \A c \in Batcher \ {b} : batcher'[c] = batcher[c]
<1>1. batcher[b] \in Queue
  BY DEF Typed, Queued
<1>2. batcher'[b] = [batcher[b] EXCEPT !.pending = @ \cup {<<kind, f>>},
                                       !.timer = TRUE]
  BY DEF Enqueue, Typed, Queued
<1>3. \A c \in Batcher \ {b} : batcher'[c] = batcher[c]
  BY DEF Enqueue, Typed, Queued
<1>4. batcher'[b] \in Queue
  <2> DEFINE p == batcher[b].pending \cup {<<kind, f>>}
  <2>1. batcher[b].pending \subseteq {"write", "unlink"} \X (Path \cup {IgnoreFile})
    BY <1>1 DEF Queue
  <2>2. p \in SUBSET ({"write", "unlink"} \X (Path \cup {IgnoreFile}))
    BY <2>1
  <2>3. batcher'[b] = [batcher[b] EXCEPT !.pending = p, !.timer = TRUE]
    BY <1>2
  <2> HIDE DEF p
  <2> QED BY <1>1, <2>2, <2>3 DEF Queue
<1>5. batcher' = [c \in Batcher |-> batcher'[c]]
  BY DEF Enqueue, Typed, Queued
<1>6. batcher' \in [Batcher -> Queue]
  BY <1>3, <1>4, <1>5 DEF Typed, Queued
<1> QED BY <1>1, <1>2, <1>3, <1>6 DEF Queue

\* The rest of the updates of one batcher's record.
Sets(b, q) == batcher' = [batcher EXCEPT ![b] = q]

LEMMA SetsQueue ==
    ASSUME Typed, NEW b \in Batcher, NEW q \in Queue, Sets(b, q)
    PROVE  /\ batcher' \in [Batcher -> Queue]
           /\ batcher'[b] = q
           /\ \A c \in Batcher \ {b} : batcher'[c] = batcher[c]
  BY DEF Sets, Typed, Queued

Silenced(q) == [q EXCEPT !.timer = FALSE]
Taken(q)    == [q EXCEPT !.timer = FALSE, !.pending = {}, !.busy = TRUE]
Settled(q)  == [q EXCEPT !.busy = FALSE,
                         !.timer = @ \/ (~q.closed /\ q.pending # {})]
Shut(q)     == [q EXCEPT !.closed = TRUE, !.timer = FALSE, !.pending = {}]
Gone(q)     == [q EXCEPT !.handle = FALSE]

LEMMA Queues ==
    ASSUME NEW q \in Queue
    PROVE  /\ Silenced(q) \in Queue /\ Taken(q) \in Queue /\ Settled(q) \in Queue
           /\ Shut(q) \in Queue /\ Gone(q) \in Queue
<1>1. Silenced(q) \in Queue /\ Gone(q) \in Queue
  BY DEF Queue, Silenced, Gone
<1>2. Taken(q) \in Queue /\ Shut(q) \in Queue
  BY DEF Queue, Taken, Shut
<1>3. Settled(q) \in Queue
  BY DEF Queue, Settled
<1> QED BY <1>1, <1>2, <1>3

LEMMA QueueFields ==
    ASSUME NEW q \in Queue
    PROVE  /\ q.timer \in BOOLEAN /\ q.busy \in BOOLEAN /\ q.closed \in BOOLEAN
           /\ q.handle \in BOOLEAN
           /\ ~Silenced(q).timer /\ Silenced(q).pending = q.pending
           /\ Silenced(q).busy = q.busy /\ Silenced(q).closed = q.closed
           /\ Silenced(q).handle = q.handle
           /\ ~Taken(q).timer /\ Taken(q).pending = {} /\ Taken(q).busy
           /\ Taken(q).closed = q.closed /\ Taken(q).handle = q.handle
           /\ ~Settled(q).busy /\ Settled(q).pending = q.pending
           /\ Settled(q).closed = q.closed /\ Settled(q).handle = q.handle
           /\ Settled(q).timer <=> q.timer \/ (~q.closed /\ q.pending # {})
           /\ Shut(q).closed /\ ~Shut(q).timer /\ Shut(q).pending = {}
           /\ Shut(q).busy = q.busy /\ Shut(q).handle = q.handle
           /\ ~Gone(q).handle /\ Gone(q).closed = q.closed
           /\ Gone(q).timer = q.timer /\ Gone(q).busy = q.busy
           /\ Gone(q).pending = q.pending
  BY DEF Queue, Silenced, Taken, Settled, Shut, Gone

LEMMA FireSets ==
    ASSUME Typed, NEW b \in Batcher, Fire(b)
    PROVE  \/ /\ batcher[b].pending = {} \/ batcher[b].busy
              /\ Sets(b, Silenced(batcher[b])) /\ UNCHANGED task
           \/ /\ batcher[b].pending # {} /\ ~batcher[b].busy
              /\ Sets(b, Taken(batcher[b])) /\ Goto(b, OnBatch(b))
  BY DEF Fire, Take, Sets, Silenced, Taken, Typed, Queued

LEMMA SettleSets ==
    ASSUME Typed, NEW b \in Batcher, Settle(b)
    PROVE  Sets(b, Settled(batcher[b]))
  BY DEF Settle, Sets, Settled, Typed, Queued

LEMMA CloseSets ==
    ASSUME Typed, NEW t \in Task, Close(t), task[t].at \in Batcher
    PROVE  LET b == task[t].at IN
           \/ /\ batcher[b].handle /\ Sets(b, Shut(batcher[b])) /\ UNCHANGED resolved
              /\ Goto(t, [task[t] EXCEPT !.step = "drain"])
           \/ ~batcher[b].handle /\ CloseNext(t) /\ UNCHANGED batcher
  BY DEF Close, Sets, Shut, Typed, Queued

LEMMA DrainSets ==
    ASSUME Typed, NEW t \in Task, Drain(t), task[t].at \in Batcher
    PROVE  /\ ~batcher[task[t].at].busy
           /\ Sets(task[t].at, Gone(batcher[task[t].at])) /\ CloseNext(t)
  BY DEF Drain, Sets, Gone, Typed, Queued

-----------------------------------------------------------------------------
(***************************************************************************)
(* Shapes are kept.                                                        *)
(***************************************************************************)
LEMMA GoesTyped ==
    ASSUME Typed, NEW t \in Task, NEW frame, Goto(t, frame),
           t = "start" => StartFrame(frame), t = "stop" => StopFrame(frame),
           t \in Batcher => BatchFrame(t, frame)
    PROVE  Frames'
<1>1. /\ task'[t] = frame /\ \A u \in Task \ {t} : task'[u] = task[u]
      /\ task' = [u \in Task |-> task'[u]]
  BY Goes
<1>2. StartFrame(task'["start"]) /\ StopFrame(task'["stop"])
  BY <1>1 DEF Typed, Frames, Task, Batcher
<1>3. ASSUME NEW b \in Batcher PROVE BatchFrame(b, task'[b])
  BY <1>1 DEF Typed, Frames, Task
<1> QED BY <1>1, <1>2, <1>3 DEF Frames

LEMMA SetsTyped ==
    ASSUME Typed, NEW b \in Batcher, NEW q \in Queue, Sets(b, q),
           q.pending \subseteq batcher[b].pending
    PROVE  Queued'
<1>1. /\ batcher' \in [Batcher -> Queue] /\ batcher'[b] = q
      /\ \A c \in Batcher \ {b} : batcher'[c] = batcher[c]
  BY SetsQueue
<1>2. batcher'["primary"].pending \subseteq batcher["primary"].pending
  BY <1>1 DEF Batcher
<1> QED BY <1>1, <1>2 DEF Queued, Typed

LEMMA TaskNames ==
    /\ Task = {"start", "stop", "meta", "primary"} /\ Batcher = {"meta", "primary"}
    /\ "start" \notin Batcher /\ "stop" \notin Batcher /\ Batcher \subseteq Task
  BY DEF Task, Batcher

LEMMA NotifyTyped ==
    ASSUME Typed, NEW kind \in {"write", "unlink"}, NEW f \in Path, Notify(kind, f)
    PROVE  Queued' /\ missed' \subseteq Path \cup {IgnoreFile}
<1>1. CASE Enqueue("primary", <<kind, f>>) /\ missed' = missed \ {f}
  <2>1. /\ batcher' \in [Batcher -> Queue]
        /\ batcher'["primary"].pending =
              batcher["primary"].pending \cup {<<kind, f>>}
    BY <1>1, Enqueues, TaskNames
  <2>2. <<kind, f>> \in Events
    BY DEF Events
  <2> QED BY <1>1, <2>1, <2>2 DEF Queued, Typed
<1>2. CASE UNCHANGED batcher /\ missed' = missed \cup {f}
  BY <1>2 DEF Queued, Typed
<1> QED BY <1>1, <1>2 DEF Notify

LEMMA EditTyped ==
    ASSUME Typed, User
    PROVE  Typed'
<1>1. ASSUME NEW f \in Path, Write(f) PROVE Typed'
  <2>1. Queued' /\ missed' \subseteq Path \cup {IgnoreFile}
    BY <1>1, NotifyTyped DEF Write
  <2> QED BY <1>1, <2>1 DEF Write, Touch, Typed, Frames, runtimeVars
<1>2. ASSUME NEW f \in Path, Unlink(f) PROVE Typed'
  <2>1. Queued' /\ missed' \subseteq Path \cup {IgnoreFile}
    BY <1>2, NotifyTyped DEF Unlink
  <2> QED BY <1>2, <2>1 DEF Unlink, Touch, Typed, Frames, runtimeVars
<1>3. ASSUME NEW f \in Ignorable, EditIgnore(f) PROVE Typed'
  <2>1. f \in Path
    BY WatcherAssumption
  <2>2. CASE Enqueue("meta", <<"write", IgnoreFile>>) /\ missed' = missed \ {IgnoreFile}
    <3>1. /\ batcher' \in [Batcher -> Queue]
          /\ batcher'["primary"] = batcher["primary"]
      BY <2>2, Enqueues, TaskNames
    <3> QED BY <1>3, <2>1, <2>2, <3>1
         DEF EditIgnore, Touch, Typed, Queued, Frames, runtimeVars
  <2>3. CASE UNCHANGED batcher /\ missed' = missed \cup {IgnoreFile}
    BY <1>3, <2>1, <2>3 DEF EditIgnore, Touch, Typed, Queued, Frames, runtimeVars
  <2> QED BY <1>3, <2>2, <2>3 DEF EditIgnore
<1> QED BY <1>1, <1>2, <1>3 DEF User

LEMMA BatchTyped ==
    ASSUME Typed, NEW b \in Batcher, Fire(b) \/ Settle(b)
    PROVE  Typed'
<1> USE TaskNames
<1>1. batcher[b] \in Queue
  BY DEF Typed, Queued
<1>2. CASE Fire(b)
  <2>1. CASE Sets(b, Silenced(batcher[b])) /\ UNCHANGED task
    <3>1. Queued'
      BY <1>1, <2>1, Queues, QueueFields, SetsTyped
    <3> QED BY <1>2, <2>1, <3>1
        DEF Fire, Typed, Frames, diskVars, runtimeVars, historyVars
  <2>2. CASE Sets(b, Taken(batcher[b])) /\ Goto(b, OnBatch(b))
    <3>1. Queued'
      BY <1>1, <2>2, Queues, QueueFields, SetsTyped
    <3>2. BatchFrame(b, OnBatch(b))
      <4>1. Frame("settle") \in [step : {"idle", "reread", "settle"}]
            /\ Frame("reread") \in [step : {"idle", "reread", "settle"}]
        BY DEF Frame
      <4>2. CASE ~stopped /\ b = "primary"
        <5>1. Scoped(batcher[b].pending) \in Scope
          BY <4>2 DEF Scoped, Scope, Typed, Queued
        <5> QED BY <4>2, <5>1 DEF OnBatch, BatchFrame, PassFrame
      <4> QED BY <4>1, <4>2 DEF OnBatch, BatchFrame
    <3>3. Frames'
      BY <2>2, <3>2, GoesTyped
    <3> QED BY <1>2, <3>1, <3>3
        DEF Fire, Typed, diskVars, runtimeVars, historyVars
  <2> QED BY <1>2, <2>1, <2>2, FireSets
<1>3. CASE Settle(b)
  <2>1. Queued'
    <3>1. Sets(b, Settled(batcher[b]))
      BY <1>3, SettleSets
    <3>2. Settled(batcher[b]) \in Queue
      BY <1>1, Queues
    <3>3. Settled(batcher[b]).pending = batcher[b].pending
      BY <1>1, QueueFields
    <3> QED BY <3>1, <3>2, <3>3, SetsTyped
  <2>2. BatchFrame(b, Frame("idle"))
    BY DEF Frame, BatchFrame
  <2>3. Frames'
    BY <1>3, <2>2, GoesTyped DEF Settle
  <2> QED BY <1>3, <2>1, <2>3 DEF Settle, Typed, diskVars, runtimeVars, historyVars
<1> QED BY <1>2, <1>3

LEMMA PassTyped ==
    ASSUME Typed, NEW t \in Task, t # "stop", Pass(t)
    PROVE  Typed'
<1> USE TaskNames
<1>1. /\ t = "start" => StartFrame(task[t])
      /\ t \in Batcher => BatchFrame(t, task[t])
  BY DEF Typed, Frames
<1>2. task[t].step \in {"load", "walk", "persist"} /\ PassFrame(task[t])
  <2>1. task[t].step \in {"load", "walk", "persist"}
    BY DEF Pass, PassLoad, PassWalk, PassPersist, At
  <2> QED BY <1>1, <2>1 DEF StartFrame, BatchFrame
<1>3. /\ t = "start" => task[t].scope.full
      /\ t = "meta" => task[t].scope.full
  BY <1>1, <1>2 DEF StartFrame, BatchFrame
<1>4. CASE PassLoad(t)
  <2> DEFINE frame == [step |-> "walk", scope |-> task[t].scope, prior |-> db]
  <2>1. PassFrame(frame)
    BY <1>2 DEF PassFrame, Typed
  <2>2. StartFrame(frame) \/ t # "start"
    BY <1>3, <2>1 DEF StartFrame
  <2>3. BatchFrame(t, frame) \/ t \notin Batcher
    BY <1>3, <2>1 DEF BatchFrame
  <2>4. Goto(t, frame)
    BY <1>4 DEF PassLoad
  <2> HIDE DEF frame
  <2>5. Frames'
    BY <2>2, <2>3, <2>4, GoesTyped
  <2> QED BY <1>4, <2>5 DEF PassLoad, Typed, Queued, diskVars, runtimeVars
<1>5. CASE PassWalk(t)
  <2> DEFINE whole == task[t].scope.full \/ DOMAIN task[t].prior = {}
             result == IF whole THEN WalkFull
                       ELSE WalkScoped(task[t].prior, task[t].scope.events)
             frame == [step |-> "persist",
                       scope |-> IF whole THEN Full ELSE task[t].scope,
                       result |-> result]
  <2>0. At(t, "walk") /\ Goto(t, frame) /\ missed' \subseteq missed
    BY <1>5 DEF PassWalk
  <2>1. DOMAIN result \subseteq Path
    <3>1. DOMAIN WalkFull \subseteq Path
      BY DEF WalkFull, Typed
    <3>2. DOMAIN task[t].prior \subseteq Path
      BY <1>2, <2>0 DEF PassFrame, At
    <3>3. DOMAIN WalkScoped(task[t].prior, task[t].scope.events) \subseteq Path
      BY <3>2 DEF WalkScoped, Typed
    <3> QED BY <3>1, <3>3
  <2>2. frame.scope \in Scope /\ (task[t].scope.full => frame.scope.full)
    BY <1>2 DEF Full, Scope, PassFrame
  <2>3. PassFrame(frame)
    BY <2>1, <2>2 DEF PassFrame
  <2>4. StartFrame(frame) \/ t # "start"
    BY <1>3, <2>2, <2>3 DEF StartFrame
  <2>5. BatchFrame(t, frame) \/ t \notin Batcher
    BY <1>3, <2>2, <2>3 DEF BatchFrame
  <2> HIDE DEF frame
  <2>6. Frames'
    BY <2>0, <2>4, <2>5, GoesTyped
  <2> QED BY <1>5, <2>0, <2>6 DEF PassWalk, Typed, Queued, diskVars, runtimeVars
<1>6. CASE PassPersist(t)
  <2>1. DOMAIN task[t].result \subseteq Path
    BY <1>2, <1>6 DEF PassPersist, PassFrame, At
  <2>2. StartFrame(AfterPass(t)) \/ t # "start"
    BY DEF AfterPass, Frame, StartFrame
  <2>3. BatchFrame(t, AfterPass(t)) \/ t \notin Batcher
    BY DEF AfterPass, Frame, BatchFrame
  <2>4. Frames'
    BY <1>6, <2>2, <2>3, GoesTyped DEF PassPersist
  <2> QED BY <1>6, <2>1, <2>4 DEF PassPersist, Typed, Queued, diskVars, historyVars
<1> QED BY <1>4, <1>5, <1>6 DEF Pass

LEMMA FailureTyped ==
    ASSUME Typed, InitialFails \/ MetaFails \/ \E b \in Batcher : BatchFails(b)
    PROVE  Typed'
<1> USE TaskNames
<1>1. CASE InitialFails
  <2>1. StartFrame(Frame("rejected")) /\ StartFrame(AfterPass("start"))
    BY DEF AfterPass, Frame, StartFrame
  <2>2. Frames'
    BY <1>1, <2>1, GoesTyped DEF InitialFails
  <2> QED BY <1>1, <2>2 DEF InitialFails, Typed, Queued, diskVars
<1>2. CASE MetaFails
  <2>1. BatchFrame("meta", Frame("settle"))
    BY DEF Frame, BatchFrame
  <2>2. Frames'
    BY <1>2, <2>1, GoesTyped DEF MetaFails
  <2> QED BY <1>2, <2>2 DEF MetaFails, Typed, Queued, diskVars, runtimeVars
<1>3. ASSUME NEW b \in Batcher, BatchFails(b) PROVE Typed'
  <2>1. /\ BatchFrame(b, Frame("settle"))
        /\ BatchFrame(b, [step |-> "close", at |-> "meta"])
    BY DEF Frame, BatchFrame
  <2>2. Frames'
    BY <1>3, <2>1, GoesTyped DEF BatchFails
  <2>3. Touched(task[b].scope) \subseteq Path
    <3>1. PassFrame(task[b])
      BY <1>3 DEF BatchFails, InPass, BatchFrame, Typed, Frames
    <3> QED BY <3>1 DEF PassFrame, Scope, Touched, Events
  <2> QED BY <1>3, <2>2, <2>3 DEF BatchFails, Typed, Queued, diskVars
<1> QED BY <1>1, <1>2, <1>3

LEMMA StartTyped ==
    ASSUME Typed, Boot \/ Subscribe \/ Stop \/ MetaReread
    PROVE  Typed'
<1> USE TaskNames
<1>1. Full \in Scope /\ Full.full
  BY DEF Full, Scope
<1> DEFINE load == [step |-> "load", scope |-> Full]
<1>2. PassFrame(load) /\ load.scope.full
  BY <1>1 DEF PassFrame
<1>3. StartFrame(load) /\ BatchFrame("meta", load)
  BY <1>2 DEF StartFrame, BatchFrame
<1> HIDE DEF load
<1>4. CASE Boot
  <2>1. StartFrame(Frame("subscribe"))
    BY DEF Frame, StartFrame
  <2>2. Frames'
    BY <1>3, <1>4, <2>1, GoesTyped DEF Boot, load
  <2> QED BY <1>4, <2>2 DEF Boot, Typed, Queued, diskVars, runtimeVars
<1>5. CASE Subscribe
  <2>1. StartFrame(Frame("ready"))
    BY DEF Frame, StartFrame
  <2>2. Frames'
    BY <1>3, <1>5, <2>1, GoesTyped DEF Subscribe, load
  <2>3. NewHandle \in Queue /\ NewHandle.pending = {}
    BY DEF NewHandle, NoHandle, Queue
  <2>4. Queued'
    BY <1>5, <2>3 DEF Subscribe, Queued
  <2> QED BY <1>5, <2>2, <2>4 DEF Subscribe, Typed, diskVars, runtimeVars, historyVars
<1>6. CASE Stop
  <2>1. /\ StopFrame([step |-> "done", late |-> At("start", "ready")])
        /\ StopFrame([step |-> "close", at |-> "meta", late |-> At("start", "ready")])
    BY DEF At, StopFrame
  <2>2. Frames'
    BY <1>6, <2>1, GoesTyped DEF Stop
  <2> QED BY <1>6, <2>2 DEF Stop, Typed, Queued, diskVars, historyVars
<1>7. CASE MetaReread
  <2>1. BatchFrame("meta", Frame("settle"))
    BY DEF Frame, BatchFrame
  <2>2. Frames'
    BY <1>3, <1>7, <2>1, GoesTyped DEF MetaReread, load
  <2> QED BY <1>7, <2>2 DEF MetaReread, Typed, Queued, diskVars, runtimeVars
<1> QED BY <1>4, <1>5, <1>6, <1>7

\* Whoever closes is at one of the two watchers, and goes on to the next.
LEMMA CloserFrames ==
    ASSUME Typed, NEW t \in Task, task[t].step \in {"close", "drain"}
    PROVE  /\ t # "start" /\ task[t].at \in Batcher
           /\ t = "stop" => task[t] \in [step : {"close", "drain"}, at : Batcher,
                                         late : BOOLEAN]
           /\ t # "stop" => task[t] \in [step : {"close", "drain"}, at : Batcher]
<1> USE TaskNames
<1>1. t # "start"
  BY DEF Typed, Frames, StartFrame, PassFrame
<1>2. CASE t = "stop"
  BY <1>2 DEF Typed, Frames, StopFrame
<1>3. CASE t \in Batcher
  BY <1>3 DEF Typed, Frames, BatchFrame, PassFrame
<1> QED BY <1>1, <1>2, <1>3

LEMMA CloseNextTyped ==
    ASSUME Typed, NEW t \in Task, task[t].step \in {"close", "drain"}, CloseNext(t)
    PROVE  Frames' /\ resolved' \in BOOLEAN
<1> USE TaskNames
<1> DEFINE next == [task[t] EXCEPT !.step = "close", !.at = "primary"]
           over == IF t = "stop" THEN [step |-> "done", late |-> task[t].late]
                   ELSE Frame("settle")
<1>1. t # "start" /\ (t = "stop" \/ t \in Batcher)
  BY CloserFrames
<1>2. ASSUME t = "stop" PROVE StopFrame(next) /\ StopFrame(over)
  <2>1. task[t] \in [step : {"close", "drain"}, at : Batcher, late : BOOLEAN]
    BY <1>2, CloserFrames
  <2> QED BY <1>2, <2>1 DEF StopFrame
<1>3. ASSUME t # "stop" PROVE BatchFrame(t, next) /\ BatchFrame(t, over)
  <2>1. task[t] \in [step : {"close", "drain"}, at : Batcher]
    BY <1>3, CloserFrames
  <2> QED BY <1>3, <2>1 DEF BatchFrame, Frame
<1>4. \/ Goto(t, next) /\ UNCHANGED resolved
      \/ Goto(t, over) /\ resolved' = TRUE
  BY DEF CloseNext
<1> HIDE DEF next, over
<1>5. Frames'
  BY <1>1, <1>2, <1>3, <1>4, GoesTyped
<1> QED BY <1>4, <1>5 DEF Typed

LEMMA CloserTyped ==
    ASSUME Typed, NEW t \in Task, Closer(t)
    PROVE  Typed'
<1> USE TaskNames
<1> DEFINE b == task[t].at
<1>1. task[t].step \in {"close", "drain"}
  BY DEF Closer, Close, Drain, At
<1>2. t # "start" /\ b \in Batcher /\ batcher[b] \in Queue
  BY <1>1, CloserFrames DEF Typed, Queued
<1>3. CASE Close(t)
  <2>1. CASE Sets(b, Shut(batcher[b])) /\ UNCHANGED resolved
             /\ Goto(t, [task[t] EXCEPT !.step = "drain"])
    <3>1. Queued'
      <4>1. Shut(batcher[b]) \in Queue /\ Shut(batcher[b]).pending = {}
        BY <1>2, Queues, QueueFields
      <4> QED BY <1>2, <2>1, <4>1, SetsTyped
    <3> DEFINE frame == [task[t] EXCEPT !.step = "drain"]
    <3>2. (t = "stop" => StopFrame(frame)) /\ (t # "stop" => BatchFrame(t, frame))
      BY <1>1, CloserFrames DEF StopFrame, BatchFrame
    <3>3. Goto(t, frame)
      BY <2>1
    <3> HIDE DEF frame
    <3>4. Frames'
      BY <1>2, <3>2, <3>3, GoesTyped
    <3> QED BY <1>3, <2>1, <3>1, <3>4 DEF Close, Typed, diskVars, historyVars
  <2>2. CASE CloseNext(t) /\ UNCHANGED batcher
    <3>1. Frames' /\ resolved' \in BOOLEAN
      BY <1>1, <2>2, CloseNextTyped
    <3> QED BY <1>3, <2>2, <3>1 DEF Close, Typed, Queued, diskVars, historyVars
  <2> QED BY <1>2, <1>3, <2>1, <2>2, CloseSets
<1>4. CASE Drain(t)
  <2>1. Sets(b, Gone(batcher[b])) /\ CloseNext(t)
    BY <1>2, <1>4, DrainSets
  <2>2. Queued'
    <3>1. Gone(batcher[b]) \in Queue /\ Gone(batcher[b]).pending = batcher[b].pending
      BY <1>2, Queues, QueueFields
    <3> QED BY <1>2, <2>1, <3>1, SetsTyped
  <2>3. Frames' /\ resolved' \in BOOLEAN
    BY <1>1, <2>1, CloseNextTyped
  <2> QED BY <1>4, <2>2, <2>3 DEF Drain, Typed, diskVars, historyVars
<1> QED BY <1>3, <1>4 DEF Closer

LEMMA TypedInit ==
    ASSUME Init PROVE Typed
<1> USE TaskNames
<1>1. NoHandle \in Queue /\ NoHandle.pending = {}
  BY DEF NoHandle, Queue
<1>2. Queued
  BY <1>1 DEF Init, Queued
<1>3. Frames
  BY DEF Init, Frames, Frame, StartFrame, StopFrame, BatchFrame
<1> QED BY <1>2, <1>3 DEF Init, Typed

LEMMA TypedStep ==
    ASSUME Typed, [Next]_vars PROVE Typed'
<1> USE TaskNames
<1>1. CASE UNCHANGED vars
  BY <1>1 DEF vars, diskVars, runtimeVars, historyVars, Typed, Queued, Frames
<1>2. CASE User
  BY <1>2, EditTyped
<1>3. CASE Stop \/ MetaReread
  BY <1>3, StartTyped
<1>4. CASE Starting
  BY <1>4, StartTyped, PassTyped, FailureTyped DEF Starting
<1>5. CASE MetaFails
  BY <1>5, FailureTyped
<1>6. CASE Closer("stop")
  BY <1>6, CloserTyped
<1>7. ASSUME NEW b \in Batcher, Batch(b) PROVE Typed'
  <2>1. CASE Fire(b) \/ Settle(b)
    BY <2>1, BatchTyped
  <2>2. CASE Pass(b)
    BY <2>2, PassTyped
  <2>3. CASE BatchFails(b)
    BY <2>3, FailureTyped
  <2>4. CASE Closer(b)
    BY <2>4, CloserTyped
  <2> QED BY <1>7, <2>1, <2>2, <2>3, <2>4 DEF Batch
<1> QED BY <1>1, <1>2, <1>3, <1>4, <1>5, <1>6, <1>7 DEF Next

-----------------------------------------------------------------------------
(***************************************************************************)
(* The batchers and their closers stay in step.                            *)
(***************************************************************************)
LEMMA CloseNextMoves ==
    ASSUME Typed, NEW t \in Task, task[t].step \in {"close", "drain"}, CloseNext(t)
    PROVE  /\ \A u \in Task \ {t} : task'[u] = task[u]
           /\ t = "stop" => task'[t].late = task[t].late
           /\ \/ /\ task[t].at = "meta" /\ UNCHANGED resolved
                 /\ task'[t].step = "close" /\ task'[t].at = "primary"
              \/ /\ task[t].at = "primary" /\ resolved'
                 /\ task'[t].step = IF t = "stop" THEN "done" ELSE "settle"
<1> USE TaskNames
<1> DEFINE next == [task[t] EXCEPT !.step = "close", !.at = "primary"]
           over == IF t = "stop" THEN [step |-> "done", late |-> task[t].late]
                   ELSE Frame("settle")
<1>1. task[t].at \in Batcher
  BY CloserFrames
<1>2. next.step = "close" /\ next.at = "primary"
      /\ (t = "stop" => next.late = task[t].late)
  BY CloserFrames
<1>3. over.step = (IF t = "stop" THEN "done" ELSE "settle")
      /\ (t = "stop" => over.late = task[t].late)
  BY DEF Frame
<1>4. \/ task[t].at = "meta" /\ Goto(t, next) /\ UNCHANGED resolved
      \/ task[t].at = "primary" /\ Goto(t, over) /\ resolved' = TRUE
  BY <1>1 DEF CloseNext
<1> HIDE DEF next, over
<1> QED BY <1>2, <1>3, <1>4, Goes

\* A function that goes on awaiting leaves the batchers alone.
LEMMA MoveControl ==
    ASSUME Typed, Control, NEW t \in Task, t # "stop",
           \A u \in Task \ {t} : task'[u] = task[u],
           UNCHANGED <<batcher, mode>>, stopped => stopped', resolved' => stopped',
           t \in Batcher => ~At(t, "idle") /\ task'[t].step # "idle",
           t = "start" => ~At("start", "ready") /\ (Unarmed' <=> Unarmed),
           task'[t].step # "drain",
           task'[t].step = "close" => stopped'
    PROVE  Control'
<1> USE TaskNames
<1>1. Unarmed' <=> Unarmed
  BY DEF Unarmed, InPass
<1>2. Batchers'
  BY DEF Batchers, Control, At
<1>3. Handles'
  BY <1>1 DEF Handles, Control, At
<1>4. Closing'
  BY DEF Closing, Control, At
<1>5. Stopping'
  BY DEF Stopping, Control, At
<1> QED BY <1>2, <1>3, <1>4, <1>5 DEF Control

LEMMA UserControl ==
    ASSUME Typed, Control, User
    PROVE  Control'
<1> USE TaskNames
<1>1. UNCHANGED <<mode, task, stopped, resolved>>
  BY DEF User, Write, Unlink, EditIgnore, Touch, runtimeVars
<1>2. CASE UNCHANGED batcher
  BY <1>1, <1>2 DEF Control, Batchers, Handles, Closing, Stopping, Unarmed, InPass, At
<1>3. ASSUME NEW b \in Batcher, Listening(b), NEW kind \in {"write", "unlink"},
             NEW f \in Path \cup {IgnoreFile}, Enqueue(b, <<kind, f>>)
      PROVE  Control'
  <2>1. /\ <<kind, f>> \in batcher'[b].pending /\ batcher'[b].timer
        /\ batcher'[b].handle = batcher[b].handle
        /\ batcher'[b].busy = batcher[b].busy
        /\ batcher'[b].closed = batcher[b].closed
        /\ \A c \in Batcher \ {b} : batcher'[c] = batcher[c]
    BY <1>3, Enqueues
  <2>2. batcher[b].handle /\ ~batcher[b].closed
    BY <1>3 DEF Listening
  <2>3. Batchers'
    BY <1>1, <2>1, <2>2 DEF Batchers, Control, At
  <2>4. ~Unarmed
    BY <2>2 DEF Handles, Control, NoHandle
  <2>5. Handles'
    BY <1>1, <2>1, <2>2, <2>4 DEF Handles, Control, At, Unarmed, InPass
  <2>6. Closing'
    <3>1. \A c \in Batcher : batcher'[c].closed = batcher[c].closed
      BY <2>1
    <3> QED BY <1>1, <3>1, CloserFrames DEF Closing, Control, At
  <2>7. Stopping'
    BY <1>1, <2>1 DEF Stopping, Control, At
  <2> QED BY <2>3, <2>5, <2>6, <2>7 DEF Control
<1>4. ASSUME NEW f \in Path, Write(f) \/ Unlink(f) PROVE Control'
  BY <1>2, <1>3, <1>4 DEF Write, Unlink, Notify
<1>5. ASSUME NEW f \in Ignorable, EditIgnore(f) PROVE Control'
  BY <1>2, <1>3, <1>5 DEF EditIgnore
<1> QED BY <1>4, <1>5 DEF User

LEMMA FireControl ==
    ASSUME Typed, Control, NEW b \in Batcher, Fire(b)
    PROVE  Control'
<1> USE TaskNames
<1>1. batcher[b] \in Queue /\ batcher[b].timer
  BY DEF Typed, Queued, Fire
<1>2. UNCHANGED <<mode, stopped, resolved>>
  BY DEF Fire, runtimeVars
<1>3. ~Unarmed
  BY <1>1 DEF Control, Handles, NoHandle
<1>4. batcher[b].handle
  BY <1>1, <1>3 DEF Control, Handles, Batchers
<1>5. CASE /\ batcher[b].pending = {} \/ batcher[b].busy
           /\ Sets(b, Silenced(batcher[b])) /\ UNCHANGED task
  <2>1. /\ batcher'[b] = Silenced(batcher[b])
        /\ \A c \in Batcher \ {b} : batcher'[c] = batcher[c]
    BY <1>1, <1>5, Queues, SetsQueue
  <2>2. /\ ~batcher'[b].timer /\ batcher'[b].pending = batcher[b].pending
        /\ batcher'[b].busy = batcher[b].busy /\ batcher'[b].closed = batcher[b].closed
        /\ batcher'[b].handle = batcher[b].handle
    BY <1>1, <2>1, QueueFields
  <2>3. Batchers'
    BY <1>5, <2>1, <2>2 DEF Control, Batchers, At
  <2>4. Handles'
    BY <1>2, <1>3, <1>5, <2>1, <2>2 DEF Control, Handles, At, Unarmed, InPass
  <2>5. Closing'
    <3>1. \A c \in Batcher : batcher'[c].closed = batcher[c].closed
      BY <2>1, <2>2
    <3> QED BY <1>2, <1>5, <3>1, CloserFrames DEF Control, Closing, At
  <2>6. Stopping'
    BY <1>2, <1>5, <2>1, <2>2 DEF Control, Stopping, At
  <2> QED BY <2>3, <2>4, <2>5, <2>6 DEF Control
<1>6. CASE /\ batcher[b].pending # {} /\ ~batcher[b].busy
           /\ Sets(b, Taken(batcher[b])) /\ Goto(b, OnBatch(b))
  <2>1. /\ batcher'[b] = Taken(batcher[b])
        /\ \A c \in Batcher \ {b} : batcher'[c] = batcher[c]
    BY <1>1, <1>6, Queues, SetsQueue
  <2>2. /\ ~batcher'[b].timer /\ batcher'[b].pending = {} /\ batcher'[b].busy
        /\ batcher'[b].closed = batcher[b].closed
        /\ batcher'[b].handle = batcher[b].handle
    BY <1>1, <2>1, QueueFields
  <2>3. /\ \A u \in Task \ {b} : task'[u] = task[u]
        /\ task'[b].step \in {"settle", "reread", "load"}
    BY <1>6, Goes DEF OnBatch, Frame
  <2>4. Batchers'
    BY <2>1, <2>2, <2>3 DEF Control, Batchers, At
  <2>5. Handles'
    <3>1. ~Unarmed'
      BY <1>2, <1>3, <2>3 DEF Unarmed, InPass
    <3>2. ASSUME NEW c \in Batcher, ~batcher'[c].handle
          PROVE  batcher'[c].closed /\ At(c, "idle")'
      <4>1. c # b /\ batcher'[c] = batcher[c] /\ task'[c] = task[c]
        BY <1>4, <2>1, <2>2, <2>3, <3>2
      <4> QED BY <1>3, <3>2, <4>1 DEF Control, Handles, At
    <3> QED BY <3>1, <3>2 DEF Handles
  <2>6. Closing'
    <3>1. \A c \in Batcher : batcher'[c].closed = batcher[c].closed
      BY <2>1, <2>2
    <3> QED BY <1>2, <2>3, <3>1, CloserFrames DEF Control, Closing, At
  <2>7. Stopping'
    BY <1>2, <2>1, <2>2, <2>3 DEF Control, Stopping, At
  <2> QED BY <2>4, <2>5, <2>6, <2>7 DEF Control
<1> QED BY <1>5, <1>6, FireSets

LEMMA SettleControl ==
    ASSUME Typed, Control, NEW b \in Batcher, Settle(b)
    PROVE  Control'
<1> USE TaskNames
<1>1. batcher[b] \in Queue /\ At(b, "settle")
  BY DEF Typed, Queued, Settle
<1>2. UNCHANGED <<mode, stopped, resolved>>
  BY DEF Settle, runtimeVars
<1>3. batcher[b].busy /\ batcher[b].handle /\ ~Unarmed
  BY <1>1 DEF Control, Handles, Batchers, NoHandle, At
<1>4. /\ batcher'[b] = Settled(batcher[b])
      /\ \A c \in Batcher \ {b} : batcher'[c] = batcher[c]
  BY <1>1, SettleSets, Queues, SetsQueue
<1>5. /\ ~batcher'[b].busy /\ batcher'[b].pending = batcher[b].pending
      /\ batcher'[b].closed = batcher[b].closed
      /\ batcher'[b].handle = batcher[b].handle
      /\ batcher'[b].timer <=>
            batcher[b].timer \/ (~batcher[b].closed /\ batcher[b].pending # {})
  BY <1>1, <1>4, QueueFields
<1>6. /\ \A u \in Task \ {b} : task'[u] = task[u]
      /\ task'[b].step = "idle"
  BY Goes DEF Settle, Frame
<1>7. Batchers'
  BY <1>4, <1>5, <1>6 DEF Control, Batchers, At
<1>8. Handles'
  <2>1. ~Unarmed'
    BY <1>2, <1>3, <1>6 DEF Unarmed, InPass
  <2>2. ASSUME NEW c \in Batcher, ~batcher'[c].handle
        PROVE  batcher'[c].closed /\ At(c, "idle")'
    <3>1. c # b /\ batcher'[c] = batcher[c] /\ task'[c] = task[c]
      BY <1>3, <1>4, <1>5, <1>6, <2>2
    <3> QED BY <1>3, <2>2, <3>1 DEF Control, Handles, At
  <2> QED BY <2>1, <2>2 DEF Handles
<1>9. Closing'
  <2>1. \A c \in Batcher : batcher'[c].closed = batcher[c].closed
    BY <1>4, <1>5
  <2> QED BY <1>2, <1>6, <2>1, CloserFrames DEF Control, Closing, At
<1>10. Stopping'
  BY <1>2, <1>4, <1>5, <1>6 DEF Control, Stopping, At
<1> QED BY <1>7, <1>8, <1>9, <1>10 DEF Control

LEMMA PassControl ==
    ASSUME Typed, Control, NEW t \in Task, t # "stop",
           Pass(t) \/ (t = "start" /\ InitialFails) \/ (t = "start" /\ Boot)
              \/ (t = "meta" /\ (MetaReread \/ MetaFails))
              \/ (t \in Batcher /\ BatchFails(t))
    PROVE  Control'
<1> USE TaskNames
<1>1. CASE Pass(t)
  <2>1. \E frame : Goto(t, frame)
    BY <1>1 DEF Pass, PassLoad, PassWalk, PassPersist
  <2>2. \A u \in Task \ {t} : task'[u] = task[u]
    BY <2>1, Goes
  <2>3. /\ UNCHANGED <<batcher, mode, stopped, resolved>> /\ InPass(t)
        /\ \/ task'[t].step \in {"walk", "persist"}
           \/ At(t, "persist") /\ task'[t].step = AfterPass(t).step
    <3>1. CASE PassLoad(t)
      BY <1>1, <3>1, Goes DEF PassLoad, InPass, At, runtimeVars
    <3>2. CASE PassWalk(t)
      BY <1>1, <3>2, Goes DEF PassWalk, InPass, At, runtimeVars
    <3>3. CASE PassPersist(t)
      BY <1>1, <3>3, Goes DEF PassPersist, InPass, At
    <3> QED BY <1>1, <3>1, <3>2, <3>3 DEF Pass
  <2>4. /\ t # "start" => AfterPass(t).step = "settle"
        /\ t = "start" => AfterPass(t).step = IF mode = "cli" THEN "subscribe" ELSE "ready"
    BY DEF AfterPass, Frame
  <2>5. t = "start" => ~At("start", "ready") /\ (Unarmed' <=> Unarmed)
    BY <2>3, <2>4 DEF Unarmed, InPass, At
  <2>6. resolved => stopped
    BY DEF Control, Closing
  <2>7. /\ t \in Batcher => ~At(t, "idle") /\ task'[t].step # "idle"
        /\ task'[t].step \notin {"close", "drain"}
    BY <2>3, <2>4 DEF InPass, At
  <2> QED BY <2>2, <2>3, <2>5, <2>6, <2>7, MoveControl
<1>2. CASE t = "start" /\ InitialFails
  <2>1. \E frame : Goto(t, frame)
    BY <1>2 DEF InitialFails
  <2>2. \A u \in Task \ {t} : task'[u] = task[u]
    BY <2>1, Goes
  <2>3. /\ InPass("start") /\ UNCHANGED <<batcher, mode>>
        /\ task'["start"].step = IF mode = "cli" THEN "rejected" ELSE "ready"
        /\ \/ stopped' = TRUE
           \/ UNCHANGED <<stopped, resolved>>
    BY <1>2, Goes DEF InitialFails, AfterPass, Frame
  <2>4. ~At("start", "ready") /\ (Unarmed' <=> Unarmed)
    BY <2>3 DEF Unarmed, InPass, At
  <2>5. resolved => stopped
    BY DEF Control, Closing
  <2> QED BY <1>2, <2>2, <2>3, <2>4, <2>5, MoveControl
<1>3. CASE t = "start" /\ Boot
  <2>1. \E frame : Goto(t, frame)
    BY <1>3 DEF Boot
  <2>2. \A u \in Task \ {t} : task'[u] = task[u]
    BY <2>1, Goes
  <2>3. /\ At("start", "off") /\ UNCHANGED <<batcher, mode, stopped, resolved>>
        /\ task'["start"].step = IF mode = "bff" THEN "subscribe" ELSE "load"
    BY <1>3, Goes DEF Boot, Frame, runtimeVars
  <2>4. mode \in {"cli", "bff"}
    BY WatcherAssumption DEF Typed
  <2>5. ~At("start", "ready") /\ (Unarmed' <=> Unarmed)
    BY <2>3, <2>4 DEF Unarmed, InPass, At
  <2>6. resolved => stopped
    BY DEF Control, Closing
  <2> QED BY <1>3, <2>2, <2>3, <2>5, <2>6, MoveControl
<1>4. CASE t = "meta" /\ (MetaReread \/ MetaFails)
  <2>1. \E frame : Goto(t, frame)
    BY <1>4 DEF MetaReread, MetaFails
  <2>2. \A u \in Task \ {t} : task'[u] = task[u]
    BY <2>1, Goes
  <2>3. /\ At("meta", "reread") /\ UNCHANGED <<batcher, mode, stopped, resolved>>
        /\ task'["meta"].step \in {"settle", "load"}
    <3>1. CASE MetaReread
      BY <1>4, <3>1, Goes DEF MetaReread, Frame, runtimeVars
    <3>2. CASE MetaFails
      BY <1>4, <3>2, Goes DEF MetaFails, Frame, runtimeVars
    <3> QED BY <1>4, <3>1, <3>2
  <2>4. resolved => stopped
    BY DEF Control, Closing
  <2>5. /\ t \in Batcher => ~At(t, "idle") /\ task'[t].step # "idle"
        /\ task'[t].step \notin {"close", "drain"}
    BY <1>4, <2>3 DEF At
  <2> QED BY <1>4, <2>2, <2>3, <2>4, <2>5, MoveControl
<1>5. CASE t \in Batcher /\ BatchFails(t)
  <2>1. \E frame : Goto(t, frame)
    BY <1>5 DEF BatchFails
  <2>2. \A u \in Task \ {t} : task'[u] = task[u]
    BY <2>1, Goes
  <2>3. /\ InPass(t) /\ UNCHANGED <<batcher, mode, resolved>>
        /\ \/ stopped' = TRUE /\ task'[t].step = "close"
           \/ UNCHANGED stopped /\ task'[t].step = "settle"
    BY <1>5, Goes DEF BatchFails, Frame
  <2>4. resolved => stopped
    BY DEF Control, Closing
  <2>5. ~At(t, "idle") /\ task'[t].step \notin {"idle", "drain"}
    BY <2>3 DEF InPass, At
  <2> QED BY <1>5, <2>2, <2>3, <2>4, <2>5, MoveControl
<1> QED BY <1>1, <1>2, <1>3, <1>4, <1>5

LEMMA SubscribeControl ==
    ASSUME Typed, Control, Subscribe
    PROVE  Control'
<1> USE TaskNames
<1>1. At("start", "subscribe") /\ UNCHANGED <<mode, stopped, resolved>>
  BY DEF Subscribe, runtimeVars
<1>2. \A b \in Batcher : batcher[b] = NoHandle /\ batcher'[b] = NewHandle
  BY <1>1 DEF Subscribe, Control, Handles, Unarmed, At
<1>3. /\ \A u \in Task \ {"start"} : task'[u] = task[u]
      /\ task'["start"].step \in {"ready", "load"}
      /\ task'["start"].step = "load" => mode # "cli"
  BY Goes DEF Subscribe, Frame
<1>4. /\ ~NoHandle.busy /\ ~NoHandle.closed
      /\ NewHandle.handle /\ ~NewHandle.timer /\ NewHandle.pending = {}
      /\ ~NewHandle.busy /\ ~NewHandle.closed
  BY DEF NoHandle, NewHandle
<1>5. Batchers'
  BY <1>2, <1>3, <1>4 DEF Control, Batchers, At
<1>6. Handles'
  BY <1>1, <1>2, <1>3, <1>4 DEF Handles, Unarmed, InPass, At
<1>7. \A u \in Task : ~At(u, "drain")
  BY <1>2, <1>4, CloserFrames DEF Control, Closing, At
<1>8. Closing'
  BY <1>1, <1>3, <1>7 DEF Control, Closing, At
<1>9. Stopping'
  BY <1>1, <1>3 DEF Control, Stopping, At
<1> QED BY <1>5, <1>6, <1>8, <1>9 DEF Control

LEMMA StopControl ==
    ASSUME Typed, Control, Stop
    PROVE  Control'
<1> USE TaskNames
<1>1. At("stop", "idle") /\ UNCHANGED <<mode, batcher>> /\ stopped' = TRUE
  BY DEF Stop
<1>2. /\ \A u \in Task \ {"stop"} : task'[u] = task[u]
      /\ task'["stop"].late = At("start", "ready")
      /\ \/ /\ task'["stop"].step = "done"
            /\ \A b \in Batcher : ~batcher[b].handle
         \/ task'["stop"].step = "close" /\ task'["stop"].at = "meta"
  BY Goes DEF Stop
<1>3. Batchers' /\ Handles'
  BY <1>1, <1>2 DEF Control, Batchers, Handles, Unarmed, InPass, At
<1>4. Closing'
  BY <1>1, <1>2 DEF Control, Closing, At
<1>5. Stopping'
  BY <1>1, <1>2 DEF Stopping, At
<1> QED BY <1>3, <1>4, <1>5 DEF Control

LEMMA CloserControl ==
    ASSUME Typed, Control, NEW t \in Task, Closer(t)
    PROVE  Control'
<1> USE TaskNames
<1> DEFINE b == task[t].at
<1>1. task[t].step \in {"close", "drain"} /\ UNCHANGED <<mode, stopped>>
  BY DEF Closer, Close, Drain, At
<1>2. /\ t # "start" /\ b \in Batcher /\ batcher[b] \in Queue /\ stopped
      /\ t \in Batcher => batcher[t].busy
  BY <1>1, CloserFrames DEF Typed, Queued, Control, Closing, Batchers, At
<1>3. CASE Close(t)
  <2>1. CASE batcher[b].handle /\ Sets(b, Shut(batcher[b])) /\ UNCHANGED resolved
             /\ Goto(t, [task[t] EXCEPT !.step = "drain"])
    <3>1. /\ batcher'[b] = Shut(batcher[b])
          /\ \A c \in Batcher \ {b} : batcher'[c] = batcher[c]
      BY <1>2, <2>1, Queues, SetsQueue
    <3>2. /\ batcher'[b].closed /\ ~batcher'[b].timer /\ batcher'[b].pending = {}
          /\ batcher'[b].busy = batcher[b].busy
          /\ batcher'[b].handle = batcher[b].handle
      BY <1>2, <3>1, QueueFields
    <3>3. /\ \A u \in Task \ {t} : task'[u] = task[u]
          /\ task'[t].step = "drain" /\ task'[t].at = b
          /\ t = "stop" => task'[t].late = task[t].late
      BY <1>1, <2>1, Goes, CloserFrames
    <3>4. Batchers'
      BY <1>1, <1>2, <3>1, <3>2, <3>3 DEF Control, Batchers, At
    <3>5. ~Unarmed
      BY <1>2, <2>1 DEF Control, Handles, NoHandle
    <3>6. Handles'
      <4>1. ~Unarmed'
        BY <1>1, <1>2, <3>3, <3>5 DEF Unarmed, InPass, At
      <4> HIDE DEF b
      <4>2. ASSUME NEW c \in Batcher, ~batcher'[c].handle
            PROVE  batcher'[c].closed /\ At(c, "idle")'
        <5>1. c # b /\ batcher'[c] = batcher[c]
          BY <2>1, <3>1, <3>2, <4>2
        <5>2. batcher[c].closed /\ At(c, "idle")
          BY <3>5, <4>2, <5>1 DEF Control, Handles
        <5> QED BY <1>1, <3>3, <5>1, <5>2 DEF At
      <4> QED BY <4>1, <4>2 DEF Handles
    <3>7. Closing'
      <4>1. \A c \in Batcher : batcher[c].closed => batcher'[c].closed
        BY <3>1, <3>2
      <4> HIDE DEF b
      <4>2. ASSUME NEW u \in Task, At(u, "drain")' PROVE batcher'[task'[u].at].closed
        <5>1. CASE u = t
          BY <3>2, <3>3, <5>1
        <5>2. CASE u # t
          BY <3>3, <4>1, <4>2, <5>2, CloserFrames DEF Control, Closing, At
        <5> QED BY <5>1, <5>2
      <4> QED BY <1>1, <1>2, <2>1, <3>3, <4>2 DEF Control, Closing
    <3>8. Stopping'
      BY <1>1, <1>2, <3>1, <3>2, <3>3 DEF Control, Stopping, At
    <3> QED BY <3>4, <3>6, <3>7, <3>8 DEF Control
  <2>2. CASE ~batcher[b].handle /\ CloseNext(t) /\ UNCHANGED batcher
    <3>1. CASE t # "stop"
      BY <1>1, <1>2, <2>2, <3>1, CloseNextMoves, MoveControl
         DEF Control, Closing, At
    <3>2. CASE t = "stop"
      <4>1. /\ \A u \in Task \ {"stop"} : task'[u] = task[u]
            /\ task'["stop"].late = task["stop"].late
            /\ \/ /\ b = "meta" /\ task'["stop"].step = "close"
                  /\ task'["stop"].at = "primary"
               \/ b = "primary" /\ task'["stop"].step = "done"
        BY <1>1, <2>2, <3>2, CloseNextMoves
      <4>2. Batchers' /\ Handles'
        BY <1>1, <2>2, <4>1 DEF Control, Batchers, Handles, Unarmed, InPass, At
      <4>3. Closing'
        BY <1>1, <1>2, <2>2, <4>1 DEF Control, Closing, At
      <4>4. Stopping'
        BY <1>1, <1>2, <2>2, <3>2, <4>1 DEF Control, Stopping, At
      <4> QED BY <4>2, <4>3, <4>4 DEF Control
    <3> QED BY <3>1, <3>2
  <2> QED BY <1>2, <1>3, <2>1, <2>2, CloseSets
<1>4. CASE Drain(t)
  <2>1. /\ At(t, "drain") /\ ~batcher[b].busy /\ CloseNext(t)
        /\ Sets(b, Gone(batcher[b]))
    BY <1>2, <1>4, DrainSets DEF Drain
  <2>2. /\ batcher'[b] = Gone(batcher[b])
        /\ \A c \in Batcher \ {b} : batcher'[c] = batcher[c]
    BY <1>2, <2>1, Queues, SetsQueue
  <2>3. /\ ~batcher'[b].handle /\ batcher'[b].closed = batcher[b].closed
        /\ batcher'[b].timer = batcher[b].timer /\ batcher'[b].busy = batcher[b].busy
        /\ batcher'[b].pending = batcher[b].pending
    BY <1>2, <2>2, QueueFields
  <2>4. /\ \A u \in Task \ {t} : task'[u] = task[u]
        /\ task'[t].step \notin {"idle", "drain"}
        /\ t = "stop" => /\ task'["stop"].late = task["stop"].late
                         /\ \/ b = "meta" /\ task'["stop"].step = "close"
                               /\ task'["stop"].at = "primary"
                            \/ b = "primary" /\ task'["stop"].step = "done"
    BY <1>1, <2>1, CloseNextMoves
  <2>5. batcher[b].closed /\ At(b, "idle") /\ b # t
    BY <1>1, <1>2, <2>1 DEF Control, Closing, Batchers
  <2>6. ~Unarmed
    BY <1>2, <2>5 DEF Control, Handles, NoHandle
  <2>7. Batchers'
    BY <1>1, <1>2, <2>2, <2>3, <2>4 DEF Control, Batchers, At
  <2>8. Handles'
    <3>1. ~Unarmed'
      BY <1>1, <1>2, <2>4, <2>6 DEF Unarmed, InPass, At
    <3> HIDE DEF b
    <3>2. ASSUME NEW c \in Batcher, ~batcher'[c].handle
          PROVE  batcher'[c].closed /\ At(c, "idle")'
      <4>1. batcher[c].closed /\ At(c, "idle") /\ batcher'[c].closed = batcher[c].closed
        BY <2>2, <2>3, <2>5, <2>6, <3>2 DEF Control, Handles
      <4> QED BY <1>1, <2>4, <4>1 DEF At
    <3> QED BY <3>1, <3>2 DEF Handles
  <2>9. Closing'
    <3>1. \A c \in Batcher : batcher'[c].closed = batcher[c].closed
      BY <2>2, <2>3
    <3> HIDE DEF b
    <3>2. ASSUME NEW u \in Task, At(u, "drain")' PROVE batcher'[task'[u].at].closed
      BY <2>4, <3>1, <3>2, CloserFrames DEF Control, Closing, At
    <3> QED BY <1>1, <1>2, <2>4, <3>2 DEF Control, Closing
  <2>10. Stopping'
    BY <1>1, <1>2, <2>1, <2>2, <2>3, <2>4 DEF Control, Stopping, At
  <2> QED BY <2>7, <2>8, <2>9, <2>10 DEF Control
<1> QED BY <1>3, <1>4 DEF Closer

LEMMA ControlInit ==
    ASSUME Init PROVE Control
<1> USE TaskNames
<1>1. /\ \A b \in Batcher : batcher[b] = NoHandle /\ At(b, "idle")
      /\ At("start", "off") /\ At("stop", "idle") /\ resolved = FALSE
  BY DEF Init, Frame, At
<1>2. /\ ~NoHandle.timer /\ ~NoHandle.busy /\ NoHandle.pending = {} /\ ~NoHandle.closed
  BY DEF NoHandle
<1> QED BY <1>1, <1>2 DEF Control, Batchers, Handles, Closing, Stopping, Unarmed, At

LEMMA ControlStep ==
    ASSUME Typed, Control, [Next]_vars PROVE Control'
<1> USE TaskNames
<1>1. CASE UNCHANGED vars
  BY <1>1 DEF vars, diskVars, runtimeVars, historyVars, Control, Batchers, Handles,
              Closing, Stopping, Unarmed, InPass, At
<1>2. CASE User
  BY <1>2, UserControl
<1>3. CASE Stop
  BY <1>3, StopControl
<1>4. CASE Starting
  BY <1>4, SubscribeControl, PassControl DEF Starting
<1>5. CASE MetaReread \/ MetaFails
  BY <1>5, PassControl
<1>6. CASE Closer("stop")
  BY <1>6, CloserControl
<1>7. ASSUME NEW b \in Batcher, Batch(b) PROVE Control'
  <2>1. CASE Fire(b) \/ Settle(b)
    BY <2>1, FireControl, SettleControl
  <2>2. CASE Pass(b) \/ BatchFails(b)
    BY <2>2, PassControl
  <2>3. CASE Closer(b)
    BY <2>3, CloserControl
  <2> QED BY <1>7, <2>1, <2>2, <2>3 DEF Batch
<1> QED BY <1>1, <1>2, <1>3, <1>4, <1>5, <1>6, <1>7 DEF Next

\* A stop() that came after start() and has returned left both watchers
\* drained: no function is left that could persist a scan.
THEOREM StoppedForGood == Spec => NothingAfterStop
<1> USE TaskNames
<1>1. Init => Typed /\ Control
  BY TypedInit, ControlInit
<1>2. Typed /\ Control /\ [Next]_vars => (Typed /\ Control)'
  BY TypedStep, ControlStep
<1>3. Typed /\ Control /\ [Next]_vars =>
         [At("stop", "done") /\ task["stop"].late => db' = db]_vars
  <2> SUFFICES ASSUME Typed, Control, Next, At("stop", "done"), task["stop"].late
               PROVE  db' = db
    OBVIOUS
  <2>1. At("start", "ready") /\ \A b \in Batcher : ~batcher[b].handle
    BY DEF Control, Stopping, At
  <2>2. \A b \in Batcher : At(b, "idle")
    BY <2>1 DEF Control, Handles, Unarmed, InPass, At
  <2>3. \A t \in Task : ~PassPersist(t)
    BY <2>1, <2>2 DEF PassPersist, At
  <2>4. CASE User
    BY <2>4 DEF User, Write, Unlink, EditIgnore, Touch
  <2>5. CASE Stop \/ MetaReread \/ MetaFails \/ Closer("stop")
    BY <2>5 DEF Stop, MetaReread, MetaFails, Closer, Close, Drain
  <2>6. CASE Starting
    BY <2>3, <2>6 DEF Starting, Boot, Subscribe, Pass, PassLoad, PassWalk, InitialFails
  <2>7. CASE \E b \in Batcher : Batch(b)
    BY <2>3, <2>7 DEF Batch, Fire, Settle, Pass, PassLoad, PassWalk, BatchFails,
                      Closer, Close, Drain
  <2> QED BY <2>4, <2>5, <2>6, <2>7 DEF Next
<1> QED BY <1>1, <1>2, <1>3, PTL DEF Spec, NothingAfterStop

-----------------------------------------------------------------------------
(***************************************************************************)
(* Passes that run one after the other lose nothing they were told.        *)
(***************************************************************************)
Follow == OneAtATime /\ \A f \in Path \ missed : Told(f) /\ Kept(f)

\* Steps of the tasks that no file is waiting for.
Elsewhere(t) == task[t].step \notin {"off", "subscribe", "load", "walk", "persist"}

LEMMA FollowFrame ==
    ASSUME Follow, mode' = mode, disk' = disk, db' = db, filter' = filter,
           batcher'["primary"].pending = batcher["primary"].pending,
           missed' \cap Path = missed \cap Path,
           \A t \in Task : \/ task'[t] = task[t]
                           \/ Elsewhere(t) /\ (Elsewhere(t))'
    PROVE  Follow'
<1> USE TaskNames
<1>1. OneAtATime'
  BY DEF Follow, OneAtATime, Loaded, At, Elsewhere, Reads, SameAt
<1>2. ASSUME NEW f \in Path \ missed' PROVE Told(f)' /\ Kept(f)'
  <2>1. Told(f) /\ Kept(f)
    BY <1>2 DEF Follow
  <2>2. Told(f)'
    BY <2>1 DEF Told, Named, Covers, At, Elsewhere
  <2>3. Kept(f)'
    <3>1. CASE Coming(f)
      BY <3>1 DEF Kept, Coming, Covers, At, Elsewhere
    <3>2. ASSUME NEW t \in Task, Loaded(t), Reads(t, f), InHand(t, f) PROVE Kept(f)'
      <4>1. task'[t] = task[t]
        BY <3>2 DEF Loaded, Elsewhere
      <4> QED BY <3>2, <4>1 DEF Kept, Loaded, Reads, Named, InHand, At, Covers, Shows
    <3>3. CASE Shows(db, f) /\ \A t \in Task : Loaded(t) => ~Reads(t, f)
      BY <3>3 DEF Kept, Shows, Loaded, Reads, Named, Elsewhere
    <3> QED BY <2>1, <3>1, <3>2, <3>3 DEF Kept
  <2> QED BY <2>2, <2>3
<1> QED BY <1>1, <1>2 DEF Follow

\* A change of f leaves every other file as it was, and is told of or missed.
LEMMA FileSerial ==
    ASSUME Typed, Follow, NEW f \in Path, NEW kind \in {"write", "unlink"},
           Notify(kind, f), UNCHANGED <<mode, db, filter, task>>,
           DOMAIN disk' \cup {f} = DOMAIN disk \cup {f},
           \A g \in DOMAIN disk \ {f} : disk'[g] = disk[g],
           kind = "unlink" => f \notin DOMAIN disk'
    PROVE  Follow' /\ batcher'["meta"] = batcher["meta"]
<1> USE TaskNames
<1> DEFINE old == batcher["primary"].pending
           new == batcher'["primary"].pending
<1>1. \/ /\ new = old \cup {<<kind, f>>} /\ missed' = missed \ {f}
         /\ batcher'["meta"] = batcher["meta"]
      \/ UNCHANGED batcher /\ missed' = missed \cup {f}
  BY Enqueues DEF Notify
<1>2. OneAtATime'
  BY DEF Follow, OneAtATime, Loaded, At, Reads, SameAt
<1>3. ASSUME NEW g \in Path \ missed', g # f PROVE Told(g)' /\ Kept(g)'
  <2>1. Told(g) /\ Kept(g)
    BY <1>1, <1>3 DEF Follow
  <2>2. g \in DOMAIN disk' <=> g \in DOMAIN disk
    BY <1>3
  <2>3. \A k \in {"write", "unlink"} : <<k, g>> \in new <=> <<k, g>> \in old
    BY <1>1, <1>3
  <2>4. Named(new, g) => Named(old, g)
    BY <1>1, <1>3 DEF Named
  <2>5. Covers(batcher["primary"].pending, g)' <=> Covers(old, g)
    BY <2>2, <2>3 DEF Covers
  <2>6. Covers(task["primary"].scope.events, g)' <=>
           Covers(task["primary"].scope.events, g)
    BY <2>2 DEF Covers
  <2>7. Told(g)'
    BY <2>1, <2>4, <2>5, <2>6 DEF Told, Named, At
  <2>8. \A m : Shows(m, g) => (IF g \in DOMAIN m
                             THEN g \in DOMAIN disk' \ filter' /\ m[g] = disk'[g]
                             ELSE g \notin DOMAIN disk' \ filter')
    BY <1>3, <2>2 DEF Shows
  <2>9. Kept(g)'
    <3>1. CASE Coming(g)
      BY <3>1, <2>2, <2>3 DEF Kept, Coming, Covers, At
    <3>2. ASSUME NEW t \in Task, Loaded(t), Reads(t, g), InHand(t, g) PROVE Kept(g)'
      BY <3>2, <2>2, <2>8 DEF Kept, Loaded, Reads, Named, InHand, At, Covers, Shows
    <3>3. CASE Shows(db, g) /\ \A t \in Task : Loaded(t) => ~Reads(t, g)
      BY <3>3, <2>8 DEF Kept, Shows, Loaded, Reads, Named
    <3> QED BY <2>1, <3>1, <3>2, <3>3 DEF Kept
  <2> QED BY <2>7, <2>9
<1>4. ASSUME f \notin missed' PROVE Told(f)' /\ Kept(f)'
  <2>1. <<kind, f>> \in new
    BY <1>1, <1>4
  <2>2. Covers(batcher["primary"].pending, f)'
    BY <2>1 DEF Covers
  <2> QED BY <2>2 DEF Told, Kept, Coming
<1> QED BY <1>1, <1>2, <1>3, <1>4 DEF Follow

LEMMA UserSerial ==
    ASSUME Typed, Serial, User
    PROVE  Serial'
<1> USE TaskNames
<1> SUFFICES ASSUME ~overlapped', ~stopped' PROVE Follow' /\ FilterKept'
  BY DEF Serial, Follow
<1>1. UNCHANGED <<mode, db, filter, task, overlapped, stopped>>
  BY DEF User, Write, Unlink, EditIgnore, Touch, runtimeVars
<1>2. Follow /\ FilterKept
  BY <1>1 DEF Serial, Follow
<1>3. ASSUME NEW f \in Path, Write(f) \/ Unlink(f) PROVE Follow' /\ FilterKept'
  <2>1. PICK kind \in {"write", "unlink"} :
           /\ Notify(kind, f) /\ UNCHANGED ignoring
           /\ DOMAIN disk' \cup {f} = DOMAIN disk \cup {f}
           /\ \A g \in DOMAIN disk \ {f} : disk'[g] = disk[g]
           /\ kind = "unlink" => f \notin DOMAIN disk'
    BY <1>3 DEF Write, Unlink
  <2>2. Follow' /\ batcher'["meta"] = batcher["meta"]
    BY <1>1, <1>2, <2>1, FileSerial
  <2>3. IgnoreFile \in missed' <=> IgnoreFile \in missed
    BY <2>1, WatcherAssumption DEF Notify
  <2> QED BY <1>1, <1>2, <2>1, <2>2, <2>3 DEF FilterKept, At
<1>4. ASSUME NEW f \in Ignorable, EditIgnore(f) PROVE Follow' /\ FilterKept'
  <2>1. \/ /\ <<"write", IgnoreFile>> \in batcher'["meta"].pending
           /\ batcher'["primary"] = batcher["primary"]
           /\ missed' = missed \ {IgnoreFile}
        \/ UNCHANGED batcher /\ missed' = missed \cup {IgnoreFile}
    BY <1>4, Enqueues DEF EditIgnore
  <2>2. batcher'["primary"] = batcher["primary"] /\ UNCHANGED disk
    BY <1>4, <2>1 DEF EditIgnore
  <2>3. missed' \cap Path = missed \cap Path
    BY <2>1, WatcherAssumption
  <2>4. Follow'
    BY <1>1, <1>2, <2>2, <2>3, FollowFrame
  <2>5. FilterKept'
    BY <2>1, <1>1, <1>2, <1>4 DEF FilterKept, At, EditIgnore
  <2> QED BY <2>4, <2>5
<1> QED BY <1>3, <1>4 DEF User

LEMMA BatchSerial ==
    ASSUME Typed, Control, Serial, NEW b \in Batcher, Fire(b) \/ Settle(b)
    PROVE  Serial'
<1> USE TaskNames
<1> SUFFICES ASSUME ~overlapped', ~stopped' PROVE Follow' /\ FilterKept'
  BY DEF Serial, Follow
<1>1. UNCHANGED <<mode, disk, ignoring, db, filter, missed, overlapped, stopped>>
  BY DEF Fire, Settle, diskVars, runtimeVars, historyVars
<1>2. Follow /\ FilterKept
  BY <1>1 DEF Serial, Follow
<1>3. batcher[b] \in Queue
  BY DEF Typed, Queued
<1>4. CASE Fire(b) /\ Sets(b, Silenced(batcher[b])) /\ UNCHANGED task
  <2>1. /\ batcher'["meta"].pending = batcher["meta"].pending
        /\ batcher'["primary"].pending = batcher["primary"].pending
    <3>1. Silenced(batcher[b]) \in Queue
      BY <1>3, Queues
    <3>2. Silenced(batcher[b]).pending = batcher[b].pending
      BY <1>3, QueueFields
    <3> QED BY <1>4, <3>1, <3>2, SetsQueue
  <2>2. Follow'
    BY <1>1, <1>2, <1>4, <2>1, FollowFrame
  <2>3. FilterKept'
    BY <1>1, <1>2, <1>4, <2>1 DEF FilterKept, At
  <2> QED BY <2>2, <2>3
<1>5. CASE /\ Fire(b) /\ ~batcher[b].busy
           /\ Sets(b, Taken(batcher[b])) /\ Goto(b, OnBatch(b))
  <2>1. /\ batcher'[b].pending = {}
        /\ \A c \in Batcher \ {b} : batcher'[c] = batcher[c]
    <3>1. Taken(batcher[b]) \in Queue
      BY <1>3, Queues
    <3>2. Taken(batcher[b]).pending = {}
      BY <1>3, QueueFields
    <3> QED BY <1>5, <3>1, <3>2, SetsQueue
  <2>2. At(b, "idle")
    BY <1>5 DEF Control, Batchers
  <2>3. /\ task'[b] = OnBatch(b)
        /\ \A u \in Task \ {b} : task'[u] = task[u]
    BY <1>5, Goes
  <2>4. CASE b = "meta"
    <3>1. task'["meta"].step = "reread"
      BY <1>1, <2>3, <2>4 DEF OnBatch, Frame
    <3>2. Elsewhere("meta") /\ Elsewhere("meta")'
      BY <2>2, <2>4, <3>1 DEF Elsewhere, At
    <3>3. Follow'
      BY <1>1, <1>2, <2>1, <2>3, <2>4, <3>2, FollowFrame
    <3> QED BY <3>1, <3>3 DEF FilterKept, At
  <2>5. CASE b = "primary"
    <3> DEFINE E == batcher["primary"].pending
    <3>1. /\ task'["primary"].step = "load" /\ ~task'["primary"].scope.full
          /\ task'["primary"].scope.events = E
      BY <1>1, <2>3, <2>5 DEF OnBatch, Scoped
    <3>2. OneAtATime'
      BY <1>1, <1>2, <2>2, <2>3, <2>5, <3>1
         DEF Follow, OneAtATime, Loaded, At, Reads, SameAt
    <3>3. ASSUME NEW f \in Path \ missed' PROVE Told(f)' /\ Kept(f)'
      <4>1. Told(f) /\ Kept(f)
        BY <1>1, <1>2, <3>3 DEF Follow
      <4>2. Told(f)'
        BY <1>1, <2>1, <2>5, <3>1, <4>1 DEF Told, Named, Covers
      <4>3. Kept(f)'
        <5>1. CASE Covers(E, f)
          BY <1>1, <3>1, <5>1 DEF Kept, Coming, Covers, At
        <5>2. CASE Coming(f) /\ ~Covers(E, f)
          BY <1>1, <2>2, <2>3, <2>5, <5>2 DEF Kept, Coming, Covers, At
        <5>3. ASSUME NEW t \in Task, Loaded(t), Reads(t, f), InHand(t, f)
              PROVE  Kept(f)'
          <6>1. task'[t] = task[t]
            BY <2>2, <2>3, <2>5, <5>3 DEF Loaded, At
          <6> QED BY <1>1, <5>3, <6>1
              DEF Kept, Loaded, Reads, Named, InHand, At, Covers, Shows
        <5>4. CASE Shows(db, f) /\ \A t \in Task : Loaded(t) => ~Reads(t, f)
          BY <1>1, <2>3, <2>5, <3>1, <5>4 DEF Kept, Shows, Loaded, Reads, Named
        <5> QED BY <4>1, <5>1, <5>2, <5>3, <5>4 DEF Kept
      <4> QED BY <4>2, <4>3
    <3> QED BY <1>1, <1>2, <2>1, <2>3, <2>5, <3>2, <3>3 DEF Follow, FilterKept, At
  <2> QED BY <2>4, <2>5
<1>6. CASE Settle(b)
  <2>1. /\ batcher'[b].pending = batcher[b].pending
        /\ \A c \in Batcher \ {b} : batcher'[c] = batcher[c]
    <3>1. Settled(batcher[b]) \in Queue
      BY <1>3, Queues
    <3>2. Settled(batcher[b]).pending = batcher[b].pending
      BY <1>3, QueueFields
    <3>3. Sets(b, Settled(batcher[b]))
      BY <1>6, SettleSets
    <3> QED BY <3>1, <3>2, <3>3, SetsQueue
  <2>2. /\ \A u \in Task \ {b} : task'[u] = task[u]
        /\ task[b].step = "settle" /\ task'[b].step = "idle"
    BY <1>6, Goes DEF Settle, Frame, At
  <2>3. Elsewhere(b) /\ Elsewhere(b)'
    BY <2>2 DEF Elsewhere
  <2>4. Follow'
    BY <1>1, <1>2, <2>1, <2>2, <2>3, FollowFrame
  <2>5. FilterKept'
    BY <1>1, <1>2, <2>1, <2>2 DEF FilterKept, At
  <2> QED BY <2>4, <2>5
<1> QED BY <1>4, <1>5, <1>6, FireSets

\* The pass that starts reads the table, and has every change before it that
\* its batch, or a later one, tells of.
LEMMA LoadSerial ==
    ASSUME Typed, Control, Serial, NEW t \in Task, PassLoad(t)
    PROVE  Serial'
<1> USE TaskNames
<1> SUFFICES ASSUME ~overlapped', ~stopped' PROVE Follow' /\ FilterKept'
  BY DEF Serial, Follow
<1>1. /\ disk' = disk /\ ignoring' = ignoring /\ db' = db /\ filter' = filter
      /\ missed' = missed /\ batcher' = batcher /\ mode' = mode
      /\ ~stopped /\ ~overlapped /\ \A u \in Task \ {t} : ~Loaded(u)
  BY DEF PassLoad, diskVars, runtimeVars
<1>2. Follow /\ FilterKept
  BY <1>1 DEF Serial, Follow
<1>3. /\ At(t, "load") /\ task'[t].step = "walk" /\ task'[t].prior = db
      /\ task'[t].scope = task[t].scope
      /\ \A u \in Task \ {t} : task'[u] = task[u]
  BY Goes DEF PassLoad
<1>4. OneAtATime'
  BY <1>1, <1>3 DEF OneAtATime, Loaded, At
<1>5. FilterKept'
  BY <1>1, <1>2, <1>3 DEF FilterKept, At
<1>6. ASSUME NEW f \in Path \ missed' PROVE Told(f)' /\ Kept(f)'
  <2>1. Told(f) /\ Kept(f)
    BY <1>1, <1>2, <1>6 DEF Follow
  <2>2. Told(f)'
    BY <1>1, <1>3, <2>1 DEF Told, Named, Covers, At
  <2> SUFFICES Kept(f)'
    BY <2>2
  <2>3. ASSUME task[t].scope.full \/ Covers(task[t].scope.events, f) PROVE Kept(f)'
    <3>1. Reads(t, f)'
      BY <1>3, <2>3 DEF Reads, Named, Covers
    <3>2. InHand(t, f)'
      BY <1>1, <1>3, <2>3 DEF InHand, Covers, At
    <3>3. Loaded(t)'
      BY <1>3 DEF Loaded
    <3> QED BY <3>1, <3>2, <3>3 DEF Kept
  <2>4. CASE Coming(f) /\ ~(task[t].scope.full \/ Covers(task[t].scope.events, f))
    <3>1. Coming(f)'
      BY <1>1, <1>3, <2>4 DEF Coming, Covers, At
    <3> QED BY <3>1 DEF Kept
  <2>5. ~Loaded(t)
    BY <1>3 DEF Loaded, At
  <2>6. CASE Shows(db, f) /\ ~Reads(t, f)
    <3>1. Shows(db, f)'
      BY <1>1, <2>6 DEF Shows
    <3>2. ~Reads(t, f)'
      BY <1>3, <2>6 DEF Reads, Named
    <3>3. \A u \in Task \ {t} : ~Loaded(u)'
      BY <1>1, <1>3 DEF Loaded
    <3> QED BY <3>1, <3>2, <3>3 DEF Kept
  <2>7. CASE Shows(db, f) /\ Reads(t, f) /\ ~task[t].scope.full
    <3>1. t = "primary"
      BY <1>3, <2>7 DEF Typed, Frames, StartFrame, StopFrame, BatchFrame, At
    <3>2. \/ Covers(task[t].scope.events, f)
          \/ Covers(batcher["primary"].pending, f)
      BY <1>3, <2>1, <2>7, <3>1 DEF Told, Reads
    <3>3. CASE Covers(batcher["primary"].pending, f)
      <4>1. Covers(batcher["primary"].pending, f)'
        BY <1>1, <3>3 DEF Covers
      <4> QED BY <4>1 DEF Kept, Coming
    <3> QED BY <2>3, <3>1, <3>2, <3>3
  <2> QED BY <1>1, <2>1, <2>3, <2>4, <2>5, <2>6, <2>7 DEF Kept
<1> QED BY <1>4, <1>5, <1>6 DEF Follow

\* What a walk finds of a file it reads is what is on disk; of any other it
\* takes over what the prior table had.
LEMMA WalkFullShows == \A f : Shows(WalkFull, f)
  BY DEF WalkFull, Shows

LEMMA WalkScopedShows ==
    ASSUME NEW prior, NEW E \in SUBSET Events, NEW f
    PROVE  /\ Covers(E, f) => Shows(WalkScoped(prior, E), f)
           /\ ~Named(E, f) => SameAt(WalkScoped(prior, E), prior, f)
<1> DEFINE named(kind) == {e[2] : e \in {x \in E : x[1] = kind}}
           read == (named("write") \cap DOMAIN disk) \ filter
           kept == DOMAIN prior \ (named("write") \cup named("unlink"))
           walk == WalkScoped(prior, E)
<1>1. walk = [g \in read \cup kept |-> IF g \in read THEN disk[g] ELSE prior[g]]
  BY DEF WalkScoped
<1>2. ASSUME NEW kind \in {"write", "unlink"} PROVE f \in named(kind) <=> <<kind, f>> \in E
  BY DEF Events
<1>3. f \in read <=> <<"write", f>> \in E /\ f \in DOMAIN disk /\ f \notin filter
  BY <1>2
<1>4. f \in kept <=> /\ f \in DOMAIN prior /\ <<"write", f>> \notin E
                     /\ <<"unlink", f>> \notin E
  BY <1>2
<1> HIDE DEF named, read, kept
<1>5. /\ f \in DOMAIN walk <=> f \in read \/ f \in kept
      /\ f \in read => walk[f] = disk[f]
      /\ f \in kept /\ f \notin read => walk[f] = prior[f]
  BY <1>1
<1> HIDE DEF walk
<1>6. Covers(E, f) => Shows(walk, f)
  BY <1>3, <1>4, <1>5 DEF Covers, Shows
<1>7. ~Named(E, f) => <<"write", f>> \notin E /\ <<"unlink", f>> \notin E
  BY DEF Named
<1>8. ~Named(E, f) => SameAt(walk, prior, f)
  BY <1>3, <1>4, <1>5, <1>7 DEF SameAt
<1> QED BY <1>6, <1>8 DEF walk

LEMMA WalkSerial ==
    ASSUME Typed, Control, Serial, NEW t \in Task, PassWalk(t)
    PROVE  Serial'
<1> USE TaskNames
<1> SUFFICES ASSUME ~overlapped', ~stopped' PROVE Follow' /\ FilterKept'
  BY DEF Serial, Follow
<1> DEFINE scope == task[t].scope
           whole == scope.full \/ DOMAIN task[t].prior = {}
           result == IF whole THEN WalkFull ELSE WalkScoped(task[t].prior, scope.events)
<1>1. /\ disk' = disk /\ ignoring' = ignoring /\ db' = db /\ filter' = filter
      /\ batcher' = batcher /\ mode' = mode /\ ~stopped /\ ~overlapped
      /\ missed' = {f \in missed : f = IgnoreFile \/ Underway(f) \/ ~Shows(result, f)}
  BY DEF PassWalk, diskVars, runtimeVars
<1>2. Follow /\ FilterKept
  BY <1>1 DEF Serial, Follow
<1>3. /\ At(t, "walk")
      /\ Goto(t, [step |-> "persist", scope |-> IF whole THEN Full ELSE scope,
                  result |-> result])
  BY DEF PassWalk
<1>4. /\ task'[t].step = "persist" /\ task'[t].result = result
      /\ task'[t].scope = IF whole THEN Full ELSE scope
      /\ \A u \in Task \ {t} : task'[u] = task[u]
  BY <1>3, Goes
<1>5. /\ Loaded(t) /\ \A u \in Task \ {t} : ~Loaded(u)
      /\ task[t].prior = db /\ scope.events \in SUBSET Events
  <2>1. Loaded(t) /\ task[t].prior = db /\ \A u \in Task \ {t} : ~Loaded(u)
    BY <1>2, <1>3 DEF Loaded, At, Follow, OneAtATime
  <2>2. PassFrame(task[t])
    BY <1>3 DEF At, Typed, Frames, StartFrame, StopFrame, BatchFrame
  <2> QED BY <2>1, <2>2 DEF PassFrame, Scope
<1>6. ASSUME NEW f \in Path
      PROVE  /\ Reads(t, f)' <=> whole \/ Named(scope.events, f)
             /\ whole \/ Covers(scope.events, f) => Shows(result, f)
             /\ ~whole /\ ~Named(scope.events, f) => SameAt(result, db, f)
  <2>1. Full.full
    BY DEF Full
  <2>2. Reads(t, f)' <=> whole \/ Named(scope.events, f)
    BY <1>4, <2>1 DEF Reads, Named
  <2>3. whole => Shows(result, f)
    BY WalkFullShows
  <2>4. ~whole => /\ Covers(scope.events, f) => Shows(result, f)
                  /\ ~Named(scope.events, f) => SameAt(result, db, f)
    BY <1>5, WalkScopedShows
  <2> HIDE DEF result, whole
  <2> QED BY <2>2, <2>3, <2>4
<1> HIDE DEF result, whole
<1>7. OneAtATime'
  BY <1>1, <1>4, <1>5, <1>6 DEF OneAtATime, Loaded, At
<1>8. FilterKept'
  BY <1>1, <1>2, <1>3, <1>4 DEF FilterKept, At
<1>9. ASSUME NEW f \in Path \ missed' PROVE Told(f)' /\ Kept(f)'
  <2>1. \A m : Shows(m, f) => (IF f \in DOMAIN m
                            THEN f \in DOMAIN disk' \ filter' /\ m[f] = disk'[f]
                            ELSE f \notin DOMAIN disk' \ filter')
    BY <1>1 DEF Shows
  <2>2. Loaded(t)' /\ \A u \in Task \ {t} : ~Loaded(u)'
    BY <1>4, <1>5 DEF Loaded
  <2>3. Shows(result, f) => InHand(t, f)'
    BY <1>4, <2>1 DEF InHand, At, Shows
  <2>4. Shows(db, f) => Shows(db, f)'
    BY <1>1 DEF Shows
  <2>5. Shows(result, f) => Kept(f)'
    <3>1. CASE Reads(t, f)'
      BY <2>2, <2>3, <3>1 DEF Kept
    <3>2. CASE ~Reads(t, f)'
      <4>1. SameAt(result, db, f)
        BY <1>6, <3>2
      <4>2. Shows(result, f) => Shows(db, f)
        BY <4>1 DEF SameAt, Shows
      <4> QED BY <2>2, <2>4, <3>2, <4>2 DEF Kept
    <3> QED BY <3>1, <3>2
  <2>6. CASE f \in missed
    <3>1. ~Underway(f) /\ Shows(result, f)
      BY <1>1, <1>9, <2>6, WatcherAssumption
    <3>2. Told(f)'
      BY <1>1, <1>4, <3>1 DEF Told, Named, Underway, At
    <3> QED BY <2>5, <3>1, <3>2
  <2>7. CASE f \notin missed
    <3>1. Told(f) /\ Kept(f)
      BY <1>2, <2>7 DEF Follow
    <3>2. Told(f)'
      BY <1>1, <1>4, <3>1 DEF Told, Named, Covers, At
    <3> SUFFICES Kept(f)'
      BY <3>2
    <3>3. CASE Coming(f)
      <4>1. Coming(f)'
        BY <1>1, <1>3, <1>4, <3>3 DEF Coming, Covers, At
      <4> QED BY <4>1 DEF Kept
    <3>4. CASE Reads(t, f) /\ InHand(t, f)
      <4>1. scope.full \/ Covers(scope.events, f)
        BY <1>3, <3>4 DEF InHand
      <4>2. Shows(result, f)
        BY <1>6, <4>1 DEF whole
      <4> QED BY <2>5, <4>2
    <3>5. CASE Shows(db, f) /\ ~Reads(t, f)
      <4>1. CASE whole
        BY <1>6, <2>5, <4>1
      <4>2. CASE ~whole
        <5>1. ~Named(scope.events, f)
          BY <3>5 DEF Reads
        <5>2. ~Reads(t, f)'
          BY <1>6, <4>2, <5>1
        <5> QED BY <2>2, <2>4, <3>5, <5>2 DEF Kept
      <4> QED BY <4>1, <4>2
    <3> QED BY <1>5, <3>1, <3>3, <3>4, <3>5 DEF Kept
  <2> QED BY <2>6, <2>7
<1> QED BY <1>7, <1>8, <1>9 DEF Follow

\* What the pass persists is right about every file it read, and what the
\* table had of any other.
LEMMA PersistSerial ==
    ASSUME Typed, Control, Serial, NEW t \in Task, PassPersist(t)
    PROVE  Serial'
<1> USE TaskNames
<1> SUFFICES ASSUME ~overlapped', ~stopped' PROVE Follow' /\ FilterKept'
  BY DEF Serial, Follow
<1>1. /\ disk' = disk /\ ignoring' = ignoring /\ db' = task[t].result
      /\ filter' = filter /\ batcher' = batcher /\ mode' = mode
      /\ missed' = missed /\ ~stopped /\ ~overlapped
  BY DEF PassPersist, diskVars, historyVars
<1>2. Follow /\ FilterKept
  BY <1>1 DEF Serial, Follow
<1>3. /\ At(t, "persist")
      /\ task'[t].step \in {"settle", "subscribe", "ready"}
      /\ \A u \in Task \ {t} : task'[u] = task[u]
  BY Goes DEF PassPersist, AfterPass, Frame
<1>4. Loaded(t) /\ \A u \in Task \ {t} : ~Loaded(u)
  BY <1>2, <1>3 DEF Loaded, At, Follow, OneAtATime
<1>5. \A u \in Task : ~Loaded(u)'
  BY <1>3, <1>4 DEF Loaded
<1>6. OneAtATime'
  BY <1>5 DEF OneAtATime, Loaded, At
<1>7. FilterKept'
  BY <1>1, <1>2, <1>3 DEF FilterKept, At
<1>8. ASSUME NEW f \in Path \ missed' PROVE Told(f)' /\ Kept(f)'
  <2>1. Told(f) /\ Kept(f)
    BY <1>1, <1>2, <1>8 DEF Follow
  <2>2. Told(f)'
    BY <1>1, <1>3, <2>1 DEF Told, Named, Covers, At
  <2> SUFFICES Kept(f)'
    BY <2>2
  <2>3. CASE Coming(f)
    <3>1. Coming(f)'
      BY <1>1, <1>3, <2>3 DEF Coming, Covers, At
    <3> QED BY <3>1 DEF Kept
  <2>4. CASE ~Coming(f)
    <3>1. Shows(task[t].result, f)
      <4>1. CASE Reads(t, f)
        BY <1>3, <1>4, <2>1, <2>4, <4>1 DEF Kept, InHand, At
      <4>2. CASE ~Reads(t, f)
        <5>1. Shows(db, f)
          BY <1>4, <2>1, <2>4, <4>2 DEF Kept
        <5>2. SameAt(task[t].result, db, f)
          BY <1>2, <1>3, <4>2 DEF Follow, OneAtATime
        <5> QED BY <5>1, <5>2 DEF Shows, SameAt
      <4> QED BY <4>1, <4>2
    <3>2. Shows(db, f)'
      BY <1>1, <3>1 DEF Shows
    <3> QED BY <1>5, <3>2 DEF Kept
  <2> QED BY <2>3, <2>4
<1> QED BY <1>6, <1>7, <1>8 DEF Follow

\* A failing batch may have lost what it was told, and nothing else.
LEMMA FailureSerial ==
    ASSUME Typed, Control, Serial,
           InitialFails \/ MetaFails \/ \E b \in Batcher : BatchFails(b)
    PROVE  Serial'
<1> USE TaskNames
<1> SUFFICES ASSUME ~overlapped', ~stopped' PROVE Follow' /\ FilterKept'
  BY DEF Serial, Follow
<1>1. /\ disk' = disk /\ ignoring' = ignoring /\ db' = db /\ filter' = filter
      /\ batcher' = batcher /\ mode' = mode /\ ~stopped /\ ~overlapped
  BY DEF InitialFails, MetaFails, BatchFails, diskVars, runtimeVars, Control, Closing
<1>2. Follow /\ FilterKept
  BY <1>1 DEF Serial, Follow
<1>3. CASE InitialFails
  <2>1. /\ InPass("start") /\ task'["start"].step = "ready"
        /\ \A u \in Task \ {"start"} : task'[u] = task[u]
        /\ missed' = missed \cup Path
    BY <1>3, Goes DEF InitialFails, AfterPass, Frame
  <2>2. OneAtATime'
    BY <1>1, <1>2, <2>1 DEF Follow, OneAtATime, Loaded, At, Reads, SameAt
  <2>3. FilterKept'
    BY <1>1, <1>2, <2>1 DEF FilterKept, At, InPass
  <2> QED BY <2>1, <2>2, <2>3 DEF Follow
<1>4. CASE MetaFails
  <2>1. /\ At("meta", "reread") /\ task'["meta"].step = "settle"
        /\ \A u \in Task \ {"meta"} : task'[u] = task[u]
        /\ missed' = missed \cup {IgnoreFile}
    BY <1>4, Goes DEF MetaFails, Frame
  <2>2. Elsewhere("meta") /\ Elsewhere("meta")'
    BY <2>1 DEF Elsewhere, At
  <2>3. missed' \cap Path = missed \cap Path
    BY <2>1, WatcherAssumption
  <2>4. Follow'
    BY <1>1, <1>2, <2>1, <2>2, <2>3, FollowFrame
  <2> QED BY <2>1, <2>4 DEF FilterKept
<1>5. ASSUME NEW b \in Batcher, BatchFails(b) PROVE Follow' /\ FilterKept'
  <2>1. /\ InPass(b) /\ task'[b].step = "settle"
        /\ \A u \in Task \ {b} : task'[u] = task[u]
        /\ missed' = missed \cup Touched(task[b].scope)
    BY <1>5, Goes DEF BatchFails, Frame
  <2>2. OneAtATime'
    BY <1>1, <1>2, <2>1 DEF Follow, OneAtATime, Loaded, At, Reads, SameAt
  <2>3. IgnoreFile \in missed \/ IgnoreFile \notin missed'
    <3>1. PassFrame(task[b])
      BY <2>1 DEF InPass, BatchFrame, Typed, Frames
    <3>2. Touched(task[b].scope) \subseteq Path
      BY <3>1 DEF PassFrame, Scope, Touched, Events
    <3> QED BY <2>1, <3>2, WatcherAssumption
  <2>4. FilterKept'
    BY <1>1, <1>2, <2>1, <2>3 DEF FilterKept, At, InPass
  <2>5. ASSUME NEW f \in Path \ missed' PROVE Told(f)' /\ Kept(f)'
    <3>1. Told(f) /\ Kept(f)
      BY <1>2, <2>1, <2>5 DEF Follow
    <3>2. ~Reads(b, f)
      BY <2>1, <2>5 DEF Reads, Named, Touched
    <3>3. Told(f)'
      BY <1>1, <2>1, <3>1 DEF Told, Named, Covers, At
    <3> SUFFICES Kept(f)'
      BY <3>3
    <3>4. CASE Coming(f)
      <4>1. Coming(f)'
        BY <1>1, <2>1, <3>2, <3>4 DEF Coming, Covers, At, InPass, Reads, Named
      <4> QED BY <4>1 DEF Kept
    <3>5. ASSUME NEW t \in Task, Loaded(t), Reads(t, f), InHand(t, f) PROVE Kept(f)'
      <4>1. task'[t] = task[t]
        BY <2>1, <3>2, <3>5
      <4> QED BY <1>1, <3>5, <4>1
          DEF Kept, Loaded, Reads, Named, InHand, At, Covers, Shows
    <3>6. CASE Shows(db, f) /\ \A t \in Task : Loaded(t) => ~Reads(t, f)
      <4>1. Shows(db, f)'
        BY <1>1, <3>6 DEF Shows
      <4>2. \A t \in Task : Loaded(t)' => ~Reads(t, f)'
        BY <2>1, <3>6 DEF Loaded, Reads, Named
      <4> QED BY <4>1, <4>2 DEF Kept
    <3> QED BY <3>1, <3>4, <3>5, <3>6 DEF Kept
  <2> QED BY <2>2, <2>4, <2>5 DEF Follow
<1> QED BY <1>3, <1>4, <1>5

\* Compiling the filter anew comes with a pass over everything; the watchers
\* are armed before the server's initial pass, and after that of the CLI.
LEMMA StartSerial ==
    ASSUME Typed, Control, Serial, Boot \/ Subscribe \/ MetaReread
    PROVE  Serial'
<1> USE TaskNames
<1> SUFFICES ASSUME ~overlapped', ~stopped' PROVE Follow' /\ FilterKept'
  BY DEF Serial, Follow
<1>1. /\ disk' = disk /\ ignoring' = ignoring /\ db' = db /\ mode' = mode
      /\ ~stopped /\ ~overlapped /\ missed' \cap Path = missed \cap Path
  BY WatcherAssumption
     DEF Boot, Subscribe, MetaReread, diskVars, runtimeVars, historyVars
<1>2. Follow /\ FilterKept
  BY <1>1 DEF Serial, Follow
<1>3. ASSUME NEW t \in Task, \A u \in Task \ {t} : task'[u] = task[u],
             ~Loaded(t), task'[t].step \in {"load", "subscribe"}, t # "primary",
             batcher' = batcher,
             \/ task'[t].step = "load" /\ task'[t].scope.full
             \/ t = "start" /\ task'[t].step = "subscribe" /\ mode = "bff"
      PROVE  Follow'
  <2>1. ~Loaded(t)' /\ \A u \in Task \ {t} : Loaded(u)' <=> Loaded(u)
    BY <1>3 DEF Loaded
  <2>2. OneAtATime'
    BY <1>1, <1>2, <1>3, <2>1 DEF Follow, OneAtATime, At, Reads, SameAt, Loaded
  <2>3. ASSUME NEW f \in Path \ missed' PROVE Told(f)' /\ Kept(f)'
    <3>1. Told(f)
      BY <1>1, <1>2, <2>3 DEF Follow
    <3>2. Told(f)'
      BY <1>1, <1>3, <3>1 DEF Told, Named, Covers, At
    <3>3. Coming(f)'
      BY <1>1, <1>3 DEF Coming, At
    <3> QED BY <3>2, <3>3 DEF Kept
  <2> QED BY <2>2, <2>3 DEF Follow
<1>4. Full.full
  BY DEF Full
<1>5. CASE Boot
  <2>1. /\ At("start", "off") /\ batcher' = batcher /\ filter' = ignoring
        /\ \A u \in Task \ {"start"} : task'[u] = task[u]
        /\ \/ task'["start"].step = "load" /\ task'["start"].scope.full
           \/ task'["start"].step = "subscribe" /\ mode = "bff"
    BY <1>4, <1>5, Goes DEF Boot, Frame
  <2>2. Follow'
    BY <1>3, <2>1 DEF Loaded, At
  <2> QED BY <1>1, <2>1, <2>2 DEF FilterKept
<1>6. CASE MetaReread
  <2>1. /\ At("meta", "reread") /\ batcher' = batcher /\ filter' = ignoring
        /\ \A u \in Task \ {"meta"} : task'[u] = task[u]
        /\ task'["meta"].step = "load" /\ task'["meta"].scope.full
    BY <1>1, <1>4, <1>6, Goes DEF MetaReread, Frame
  <2>2. Follow'
    BY <1>3, <2>1 DEF Loaded, At
  <2> QED BY <1>1, <2>1, <2>2 DEF FilterKept
<1>7. CASE Subscribe
  <2>1. \A b \in Batcher : batcher[b] = NoHandle /\ batcher'[b] = NewHandle
    BY <1>7 DEF Subscribe, Control, Handles, Unarmed, At
  <2>2. NoHandle.pending = {} /\ NewHandle.pending = {} /\ ~NoHandle.busy
    BY DEF NoHandle, NewHandle
  <2>3. /\ At("start", "subscribe") /\ filter' = filter /\ missed' = missed
        /\ \A u \in Task \ {"start"} : task'[u] = task[u]
        /\ mode = "cli" => task'["start"].step = "ready"
        /\ mode # "cli" => task'["start"].step = "load" /\ task'["start"].scope.full
    BY <1>4, <1>7, Goes DEF Subscribe, Frame, historyVars
  <2>4. OneAtATime'
    BY <1>1, <1>2, <2>3 DEF Follow, OneAtATime, Loaded, At, Reads, SameAt
  <2>5. FilterKept'
    BY <1>1, <1>2, <2>1, <2>2, <2>3 DEF FilterKept, At
  <2>6. ASSUME NEW f \in Path \ missed' PROVE Told(f)' /\ Kept(f)'
    <3>1. Told(f) /\ Kept(f)
      BY <1>2, <2>3, <2>6 DEF Follow
    <3>2. Told(f)'
      BY <1>1, <2>1, <2>2, <2>3, <3>1 DEF Told, Named, Covers, At
    <3> SUFFICES Kept(f)'
      BY <3>2
    <3>3. CASE Coming(f)
      <4>1. Coming(f)'
        BY <1>1, <2>1, <2>2, <2>3, <3>3 DEF Coming, Covers, At
      <4> QED BY <4>1 DEF Kept
    <3>4. ASSUME NEW t \in Task, Loaded(t), Reads(t, f), InHand(t, f) PROVE Kept(f)'
      <4>1. task'[t] = task[t]
        BY <2>3, <3>4 DEF Loaded, At
      <4> QED BY <1>1, <2>3, <3>4, <4>1
          DEF Kept, Loaded, Reads, Named, InHand, At, Covers, Shows
    <3>5. CASE Shows(db, f) /\ \A t \in Task : Loaded(t) => ~Reads(t, f)
      <4>1. Shows(db, f)'
        BY <1>1, <2>3, <3>5 DEF Shows
      <4>2. \A t \in Task : Loaded(t)' => ~Reads(t, f)'
        BY <2>3, <3>5 DEF Loaded, Reads, Named
      <4> QED BY <4>1, <4>2 DEF Kept
    <3> QED BY <3>1, <3>3, <3>4, <3>5 DEF Kept
  <2> QED BY <2>4, <2>5, <2>6 DEF Follow
<1> QED BY <1>5, <1>6, <1>7

LEMMA SerialInit ==
    ASSUME Init PROVE Serial
<1> USE TaskNames
<1>1. At("start", "off") /\ \A t \in Task : ~Loaded(t) /\ ~At(t, "load")
  BY DEF Init, At, Loaded, Frame
<1>2. batcher["primary"].pending = {}
  BY DEF Init, NoHandle
<1>3. OneAtATime /\ FilterKept
  BY <1>1 DEF OneAtATime, FilterKept, Loaded, At
<1>4. \A f : Told(f) /\ Kept(f)
  BY <1>1, <1>2 DEF Told, Kept, Coming, Named
<1> QED BY <1>3, <1>4 DEF Serial

LEMMA SerialStep ==
    ASSUME Typed, Control, Serial, [Next]_vars PROVE Serial'
<1> USE TaskNames
<1>1. CASE UNCHANGED vars
  <2> SUFFICES ASSUME ~overlapped', ~stopped' PROVE Follow' /\ FilterKept'
    BY DEF Serial, Follow
  <2>1. /\ mode' = mode /\ disk' = disk /\ db' = db /\ filter' = filter
        /\ batcher' = batcher /\ missed' = missed /\ task' = task
        /\ ignoring' = ignoring /\ ~overlapped /\ ~stopped
    BY <1>1 DEF vars, diskVars, runtimeVars, historyVars
  <2>2. Follow /\ FilterKept
    BY <2>1 DEF Serial, Follow
  <2>3. Follow'
    BY <2>1, <2>2, FollowFrame
  <2> QED BY <2>1, <2>2, <2>3 DEF FilterKept, At
<1>2. CASE User
  BY <1>2, UserSerial
<1>3. CASE Stop
  BY <1>3 DEF Stop, Serial
<1>4. CASE Starting
  BY <1>4, StartSerial, LoadSerial, WalkSerial, PersistSerial, FailureSerial
     DEF Starting, Pass
<1>5. CASE MetaReread \/ MetaFails
  BY <1>5, StartSerial, FailureSerial
<1>6. ASSUME NEW t \in Task, Closer(t) PROVE Serial'
  <2>1. stopped /\ stopped' = stopped
    BY <1>6 DEF Closer, Close, Drain, Control, Closing, At
  <2> QED BY <2>1 DEF Serial
<1>7. ASSUME NEW b \in Batcher, Batch(b) PROVE Serial'
  BY <1>6, <1>7, BatchSerial, LoadSerial, WalkSerial, PersistSerial, FailureSerial
     DEF Batch, Pass
<1> QED BY <1>1, <1>2, <1>3, <1>4, <1>5, <1>6, <1>7 DEF Next

\* Nothing is queued and nobody reads: every file is in the table as it is.
LEMMA QuietIsFresh ==
    ASSUME WatcherInv PROVE SerialPassesKeepUp
<1> USE TaskNames
<1> SUFFICES ASSUME Quiescent, ~overlapped PROVE Fresh
  BY DEF SerialPassesKeepUp
<1>1. At("start", "ready") /\ ~stopped
      /\ \A b \in Batcher : At(b, "idle") /\ batcher[b].pending = {}
  BY DEF Quiescent, WatcherInv, Control, Batchers
<1>2. task["stop"].step \notin {"load", "walk", "persist"}
  BY DEF WatcherInv, Typed, Frames, StopFrame
<1>3. \A t \in Task : ~At(t, "load") /\ ~Loaded(t)
  BY <1>1, <1>2 DEF At, Loaded
<1>4. FilterKept /\ \A f \in Path \ missed : Kept(f)
  BY <1>1 DEF WatcherInv, Serial
<1>5. IgnoreFile \notin missed => filter = ignoring
  BY <1>1, <1>4 DEF FilterKept, At
<1>6. ASSUME NEW f \in Path \ missed PROVE Shows(db, f)
  <2>1. ~Coming(f)
    BY <1>1, <1>3 DEF Coming, Covers, At
  <2> QED BY <1>3, <1>4, <2>1 DEF Kept
<1> QED BY <1>5, <1>6 DEF Fresh

\* As long as the passes ran one after the other, a watcher that has nothing
\* left to do has a table that shows the files as they are.
THEOREM SerialPassesAreFresh == Spec => []SerialPassesKeepUp
<1>1. Init => WatcherInv
  BY TypedInit, ControlInit, SerialInit DEF WatcherInv
<1>2. WatcherInv /\ [Next]_vars => WatcherInv'
  BY TypedStep, ControlStep, SerialStep DEF WatcherInv
<1>3. WatcherInv => SerialPassesKeepUp
  BY QuietIsFresh
<1> QED BY <1>1, <1>2, <1>3, PTL DEF Spec

=============================================================================
