--------------------------- MODULE WatcherRuntime ---------------------------
(***************************************************************************)
(* The live watcher, src/src/core/watcher/runtime.ts, over the debounced   *)
(* batchers of src/src/kernel/scan/watcher.ts: two file watchers feed one  *)
(* scan pipeline inside one event loop.  Every step below is what runs     *)
(* between two awaits.                                                     *)
(*                                                                         *)
(* A scan pass loads the prior snapshot, walks the files and persists the  *)
(* result as a whole, and nothing but the batcher that started it waits    *)
(* for it.  Events lost and passes overlapped are kept in two history      *)
(* variables, so that the properties can tell a stale map from one nobody  *)
(* had to refresh.  batchCount only feeds a message and the maxBatches     *)
(* option, which no caller sets: neither is modelled.                      *)
(***************************************************************************)
EXTENDS Integers, FiniteSets

CONSTANTS
    Path,          \* files a scan may index
    Ignorable,     \* those a .skillmapignore edit may hide or show
    Modes,         \* who drives the runtime: "cli" (sm watch), "bff" (serve)
    BreakerLimit,  \* consecutive failures that trip the breaker, 0 for never
    MaxEdits       \* bound on what happens on disk

\* What the meta watcher watches is no file a scan indexes.
IgnoreFile == "ignore file"

ASSUME WatcherAssumption ==
    /\ Ignorable \subseteq Path /\ IgnoreFile \notin Path
    /\ Modes \subseteq {"cli", "bff"}
    /\ BreakerLimit \in Nat
    /\ MaxEdits \in Nat

VARIABLES
    mode,
    disk,       \* files present -> version
    ignoring,   \* what the ignore files on disk hide
    edits,      \* versions handed out
    db,         \* scan_nodes: indexed files -> version read
    filter,     \* the runtime's compiled ignoreFilter
    batcher,    \* createDebouncedBatcher's locals, and the handle around it
    task,       \* the async functions in progress, each with its locals
    stopped, resolved, outcome,
    failures,   \* consecutiveFailures
    missed,     \* history: files whose last change nobody was told of, or
                \* was told of in a batch that failed, until a walk that no
                \* older event follows has seen it
    overlapped  \* history: two passes were once in flight together

diskVars    == <<disk, ignoring, edits>>
runtimeVars == <<stopped, resolved, outcome, failures>>
historyVars == <<missed, overlapped>>
vars == <<mode, diskVars, db, filter, batcher, task, runtimeVars, historyVars>>

Batcher == {"meta", "primary"}
Task    == Batcher \cup {"start", "stop"}

NoHandle  == [handle |-> FALSE, pending |-> {}, timer |-> FALSE,
              busy |-> FALSE, closed |-> FALSE]
NewHandle == [NoHandle EXCEPT !.handle = TRUE]

At(t, step)    == task[t].step = step
Goto(t, frame) == task' = [task EXCEPT ![t] = frame]
Frame(step)    == [step |-> step]

\* What a pass is asked to walk: everything, or the paths of one batch.
Full       == [full |-> TRUE, events |-> {}]
Scoped(ev) == [full |-> FALSE, events |-> ev]
Touched(scope) == IF scope.full THEN Path ELSE {e[2] : e \in scope.events}

-----------------------------------------------------------------------------
(***************************************************************************)
(* The disk, and what the armed watchers tell of it.                       *)
(***************************************************************************)
Listening(b) == batcher[b].handle /\ ~batcher[b].closed

Enqueue(b, e) ==
    batcher' = [batcher EXCEPT ![b].pending = @ \cup {e}, ![b].timer = TRUE]

\* accept / ignored: an event of a path the live filter hides is dropped.
Notify(kind, f) ==
    IF Listening("primary") /\ f \notin filter
    THEN Enqueue("primary", <<kind, f>>) /\ missed' = missed \ {f}
    ELSE UNCHANGED batcher /\ missed' = missed \cup {f}

Touch ==
    /\ edits < MaxEdits
    /\ edits' = edits + 1
    /\ UNCHANGED <<mode, db, filter, task, runtimeVars, overlapped>>

Write(f) ==
    /\ Touch
    /\ disk' = [g \in DOMAIN disk \cup {f} |->
                   IF g = f THEN edits' ELSE disk[g]]
    /\ Notify("write", f)
    /\ UNCHANGED ignoring

Unlink(f) ==
    /\ Touch
    /\ f \in DOMAIN disk
    /\ disk' = [g \in DOMAIN disk \ {f} |-> disk[g]]
    /\ Notify("unlink", f)
    /\ UNCHANGED ignoring

EditIgnore(f) ==
    /\ Touch
    /\ ignoring' = IF f \in ignoring THEN ignoring \ {f} ELSE ignoring \cup {f}
    /\ IF Listening("meta")
       THEN /\ Enqueue("meta", <<"write", IgnoreFile>>)
            /\ missed' = missed \ {IgnoreFile}
       ELSE /\ UNCHANGED batcher
            /\ missed' = missed \cup {IgnoreFile}
    /\ UNCHANGED disk

-----------------------------------------------------------------------------
(***************************************************************************)
(* createDebouncedBatcher.                                                 *)
(***************************************************************************)
Take(b, frame) ==
    /\ batcher' = [batcher EXCEPT ![b].timer = FALSE, ![b].pending = {},
                                  ![b].busy = TRUE]
    /\ Goto(b, frame)

\* onBatch: a stopped runtime ignores the batch; the primary starts a pass
\* over its paths, the meta watcher re-reads the ignore files first.
OnBatch(b) ==
    IF stopped THEN Frame("settle")
    ELSE IF b = "meta" THEN Frame("reread")
    ELSE [step |-> "load", scope |-> Scoped(batcher[b].pending)]

\* Mutant: a batch that finds the previous one running throws its events away.
FireDropping(b) ==
    /\ batcher[b].timer
    /\ IF batcher[b].pending = {} \/ batcher[b].busy
       THEN /\ batcher' = [batcher EXCEPT ![b].timer = FALSE, ![b].pending = {}]
            /\ UNCHANGED task
       ELSE Take(b, OnBatch(b))
    /\ UNCHANGED <<mode, diskVars, db, filter, runtimeVars, historyVars>>

\* The debounce window is over; a running batch leaves the events queued.
Fire(b) ==
    /\ batcher[b].timer
    /\ IF batcher[b].pending = {} \/ batcher[b].busy
       THEN /\ batcher' = [batcher EXCEPT ![b].timer = FALSE]
            /\ UNCHANGED task
       ELSE Take(b, OnBatch(b))
    /\ UNCHANGED <<mode, diskVars, db, filter, runtimeVars, historyVars>>

\* Mutant: the batch that ends does not look at what queued up behind it.
SettleQuietly(b) ==
    /\ At(b, "settle")
    /\ batcher' = [batcher EXCEPT ![b].busy = FALSE]
    /\ Goto(b, Frame("idle"))
    /\ UNCHANGED <<mode, diskVars, db, filter, runtimeVars, historyVars>>

\* finally: re-arm for events that queued up, unless the timer runs already.
Settle(b) ==
    /\ At(b, "settle")
    /\ batcher' = [batcher EXCEPT
                     ![b].busy  = FALSE,
                     ![b].timer = @ \/ (/\ ~batcher[b].closed
                                        /\ batcher[b].pending # {})]
    /\ Goto(b, Frame("idle"))
    /\ UNCHANGED <<mode, diskVars, db, filter, runtimeVars, historyVars>>

-----------------------------------------------------------------------------
(***************************************************************************)
(* runOnePass, called by start for the initial batch and by handleBatch.   *)
(***************************************************************************)
MetaReread ==
    /\ At("meta", "reread")
    /\ filter' = ignoring
    /\ Goto("meta", IF stopped THEN Frame("settle")
                    ELSE [step |-> "load", scope |-> Full])
    /\ missed' = missed \ {IgnoreFile}
    /\ UNCHANGED <<mode, diskVars, db, batcher, runtimeVars, overlapped>>

\* The settings or the ignore files cannot be read: reported, not counted.
MetaFails ==
    /\ At("meta", "reread")
    /\ Goto("meta", Frame("settle"))
    /\ missed' = missed \cup {IgnoreFile}
    /\ UNCHANGED <<mode, diskVars, db, filter, batcher, runtimeVars, overlapped>>

Loaded(t) == task[t].step \in {"walk", "persist"}

PassLoad(t) ==
    /\ At(t, "load")
    /\ Goto(t, [step |-> "walk", scope |-> task[t].scope, prior |-> db])
    /\ overlapped' = (overlapped \/ \E u \in Task \ {t} : Loaded(u))
    /\ UNCHANGED <<mode, diskVars, db, filter, batcher, runtimeVars, missed>>

\* A map tells the truth about file f, if the filter lets it be indexed.
Shows(map, f) ==
    IF f \in DOMAIN map THEN f \in DOMAIN disk \ filter /\ map[f] = disk[f]
                        ELSE f \notin DOMAIN disk \ filter

WalkFull == [f \in DOMAIN disk \ filter |-> disk[f]]

\* walkIncremental: read the changed paths, take every other prior node over.
WalkScoped(prior, ev) ==
    LET named(kind) == {e[2] : e \in {x \in ev : x[1] = kind}}
        read == (named("write") \cap DOMAIN disk) \ filter
        kept == DOMAIN prior \ (named("write") \cup named("unlink"))
    IN  [f \in read \cup kept |-> IF f \in read THEN disk[f] ELSE prior[f]]

\* An event about f waits for its batch.
Underway(f) ==
    \E e \in batcher["primary"].pending \cup
            (IF At("primary", "load") THEN task["primary"].scope.events ELSE {}) :
        e[2] = f

\* An empty prior is no prior: the walk is a full one.
PassWalk(t) ==
    LET scope == task[t].scope
        whole == scope.full \/ DOMAIN task[t].prior = {}
        result == IF whole THEN WalkFull
                  ELSE WalkScoped(task[t].prior, scope.events)
    IN  /\ At(t, "walk")
        /\ Goto(t, [step |-> "persist",
                    scope  |-> IF whole THEN Full ELSE scope,
                    result |-> result])
        /\ missed' = {f \in missed : f = IgnoreFile \/ Underway(f)
                                     \/ ~Shows(result, f)}
        /\ UNCHANGED <<mode, diskVars, db, filter, batcher, runtimeVars,
                       overlapped>>

\* Where the caller goes on: start subscribes late on the CLI.
AfterPass(t) ==
    IF t # "start" THEN Frame("settle")
    ELSE Frame(IF mode = "cli" THEN "subscribe" ELSE "ready")

PassPersist(t) ==
    /\ At(t, "persist")
    /\ db' = task[t].result
    /\ failures' = IF t = "start" THEN failures ELSE 0
    /\ Goto(t, AfterPass(t))
    /\ UNCHANGED <<mode, diskVars, filter, batcher, stopped, resolved, outcome,
                   historyVars>>

InPass(t) == task[t].step \in {"load", "walk", "persist"}

\* A failing initial pass ends `sm watch', and is only logged by the server.
InitialFails ==
    /\ InPass("start")
    /\ IF mode = "cli"
       THEN /\ stopped' = TRUE /\ resolved' = TRUE
            /\ Goto("start", Frame("rejected"))
       ELSE /\ UNCHANGED <<stopped, resolved>>
            /\ Goto("start", AfterPass("start"))
    /\ missed' = missed \cup Path
    /\ UNCHANGED <<mode, diskVars, db, filter, batcher, outcome, failures,
                   overlapped>>

Trips == mode = "cli" /\ BreakerLimit > 0 /\ failures + 1 >= BreakerLimit

\* A failing batch is not retried; enough of them in a row trip the breaker,
\* which closes the watchers before it resolves whenStopped.
BatchFails(b) ==
    /\ InPass(b)
    /\ failures' = failures + 1
    /\ IF Trips
       THEN /\ outcome' = "breaker-tripped" /\ stopped' = TRUE
            /\ Goto(b, [step |-> "close", at |-> "meta"])
       ELSE /\ UNCHANGED <<outcome, stopped>>
            /\ Goto(b, Frame("settle"))
    /\ missed' = missed \cup Touched(task[b].scope)
    /\ UNCHANGED <<mode, diskVars, db, filter, batcher, resolved, overlapped>>

-----------------------------------------------------------------------------
(***************************************************************************)
(* start, stop and closeQuietly.                                           *)
(***************************************************************************)
Boot ==
    /\ At("start", "off")
    /\ filter' = ignoring
    /\ Goto("start", IF mode = "bff" THEN Frame("subscribe")
                     ELSE [step |-> "load", scope |-> Full])
    /\ missed' = missed \ {IgnoreFile}
    /\ UNCHANGED <<mode, diskVars, db, batcher, runtimeVars, overlapped>>

\* Both watchers are armed; the server runs its initial pass only now.
Subscribe ==
    /\ At("start", "subscribe")
    /\ batcher' = [b \in Batcher |-> NewHandle]
    /\ Goto("start", IF mode = "cli" THEN Frame("ready")
                     ELSE [step |-> "load", scope |-> Full])
    /\ UNCHANGED <<mode, diskVars, db, filter, runtimeVars, historyVars>>

\* `late' records whether start() had returned by then.
Stop ==
    /\ At("stop", "idle")
    /\ ~At("start", "off")
    /\ IF stopped /\ \A b \in Batcher : ~batcher[b].handle
       THEN /\ resolved' = TRUE
            /\ Goto("stop", [step |-> "done", late |-> At("start", "ready")])
            /\ UNCHANGED stopped
       ELSE /\ stopped' = TRUE
            /\ Goto("stop", [step |-> "close", at |-> "meta",
                             late |-> At("start", "ready")])
            /\ UNCHANGED resolved
    /\ UNCHANGED <<mode, diskVars, db, filter, batcher, outcome, failures,
                   historyVars>>

\* The meta watcher is closed first, then the primary one, then the promise
\* is resolved and the caller of closeQuietly goes on.
CloseNext(t) ==
    IF task[t].at = "meta"
    THEN /\ Goto(t, [task[t] EXCEPT !.step = "close", !.at = "primary"])
         /\ UNCHANGED resolved
    ELSE /\ resolved' = TRUE
         /\ Goto(t, IF t = "stop" THEN [step |-> "done", late |-> task[t].late]
                    ELSE Frame("settle"))

\* Mutant: a handle that is already gone is waited for.
CloseArmedOnly(t) ==
    LET b == task[t].at IN
    /\ At(t, "close")
    /\ batcher[b].handle
    /\ batcher' = [batcher EXCEPT ![b].closed = TRUE, ![b].timer = FALSE,
                                  ![b].pending = {}]
    /\ Goto(t, [task[t] EXCEPT !.step = "drain"])
    /\ UNCHANGED <<resolved, mode, diskVars, db, filter, stopped, outcome,
                   failures, historyVars>>

Close(t) ==
    LET b == task[t].at IN
    /\ At(t, "close")
    /\ IF batcher[b].handle
       THEN /\ batcher' = [batcher EXCEPT ![b].closed = TRUE,
                                          ![b].timer = FALSE,
                                          ![b].pending = {}]
            /\ Goto(t, [task[t] EXCEPT !.step = "drain"])
            /\ UNCHANGED resolved
       ELSE CloseNext(t) /\ UNCHANGED batcher
    /\ UNCHANGED <<mode, diskVars, db, filter, stopped, outcome, failures,
                   historyVars>>

\* Mutant: the batch in flight is not awaited.
DrainAtOnce(t) ==
    /\ At(t, "drain")
    /\ batcher' = [batcher EXCEPT ![task[t].at].handle = FALSE]
    /\ CloseNext(t)
    /\ UNCHANGED <<mode, diskVars, db, filter, stopped, outcome, failures,
                   historyVars>>

\* await inFlight, close the native watcher, forget the handle.
Drain(t) ==
    /\ At(t, "drain")
    /\ ~batcher[task[t].at].busy
    /\ batcher' = [batcher EXCEPT ![task[t].at].handle = FALSE]
    /\ CloseNext(t)
    /\ UNCHANGED <<mode, diskVars, db, filter, stopped, outcome, failures,
                   historyVars>>

-----------------------------------------------------------------------------
\* scan_nodes is empty, or holds what an earlier session read long ago.
Init ==
    /\ mode \in Modes
    /\ disk = [f \in Path |-> 0]
    /\ ignoring = {} /\ filter = {}
    /\ edits = 0
    /\ db \in {[f \in {} |-> 0], [f \in Path |-> -1]}
    /\ batcher = [b \in Batcher |-> NoHandle]
    /\ task = [t \in Task |-> Frame(IF t = "start" THEN "off" ELSE "idle")]
    /\ stopped = FALSE /\ resolved = FALSE /\ outcome = "ok"
    /\ failures = 0
    /\ missed = {}
    /\ overlapped = FALSE

User == \/ \E f \in Path : Write(f) \/ Unlink(f)
        \/ \E f \in Ignorable : EditIgnore(f)

Pass(t)   == PassLoad(t) \/ PassWalk(t) \/ PassPersist(t)
Closer(t) == Close(t) \/ Drain(t)
Batch(b)  == Fire(b) \/ Settle(b) \/ Pass(b) \/ BatchFails(b) \/ Closer(b)
Starting  == Boot \/ Subscribe \/ Pass("start") \/ InitialFails

Next == \/ User \/ Stop \/ Starting \/ MetaReread \/ MetaFails
        \/ Closer("stop") \/ \E b \in Batcher : Batch(b)

Spec == Init /\ [][Next]_vars

\* The event loop runs what is ready: timers elapse and awaits come back.
FairSpec ==
    /\ Spec
    /\ WF_vars(Starting) /\ WF_vars(MetaReread \/ MetaFails) /\ WF_vars(Closer("stop"))
    /\ \A b \in Batcher : WF_vars(Batch(b))

-----------------------------------------------------------------------------
(***************************************************************************)
(* Properties.                                                             *)
(***************************************************************************)

\* The shapes of the state, with the two frames of a pass.
WatcherTypeOK ==
    /\ mode \in Modes
    /\ DOMAIN disk \subseteq Path /\ DOMAIN db \subseteq Path
    /\ filter \subseteq Path /\ ignoring \subseteq Path 
    /\ missed \subseteq Path \cup {IgnoreFile}
    /\ \A b \in Batcher :
          /\ batcher[b].timer => batcher[b].pending # {} \/ batcher[b].busy
          /\ batcher[b].busy <=> ~At(b, "idle")
    /\ resolved => stopped

\* The map shows the files as they are, and the filter is the one on disk,
\* but for the changes nobody was told about or whose batch failed.
Fresh == /\ IgnoreFile \notin missed => filter = ignoring
         /\ \A f \in Path \ missed : Shows(db, f)

Quiescent ==
    /\ At("start", "ready") /\ ~stopped
    /\ \A b \in Batcher : At(b, "idle") /\ ~batcher[b].timer

\* When the watcher has nothing left to do, the map is up to date, as long as
\* its passes ran one after the other: coalesced, queued, scoped and failed
\* batches in any order lose no edit of their own.
SerialPassesKeepUp == Quiescent /\ ~overlapped => Fresh

\* An event that was accepted is taken up by a batch, or dropped by a close;
\* it never stays behind in a batcher that fell asleep.
EventsAreTaken ==
    \A b \in Batcher : batcher[b].pending # {} ~> batcher[b].pending = {}

\* stop() returns, whatever batches are in flight or fail, unless the breaker
\* had tripped.
StopCompletes == ~At("stop", "idle") ~> At("stop", "done") \/ outcome # "ok"

\* When a stop() that came after start() has returned, the runtime never
\* writes another scan: the batches in flight were drained.
NothingAfterStop ==
    [][At("stop", "done") /\ task["stop"].late => db' = db]_vars

\* What server/watcher.ts:175-177 says of the server's ordering: an edit
\* during the initial scan queues and fires a follow-up batch; so once the
\* watcher is quiet, the map shows it.  No run checks it: it fails when the
\* walk of the initial pass is persisted after that of the follow-up.
QuiescentIsFresh == Quiescent => Fresh

\* What runtime.ts:340-344 says of whenStopped: it resolves once the runtime
\* has stopped, by a tripped breaker as well.
BreakerStops == outcome = "breaker-tripped" ~> resolved
=============================================================================
