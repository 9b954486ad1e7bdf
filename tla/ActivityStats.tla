--------------------------- MODULE ActivityStats ----------------------------
(***************************************************************************)
(* The execution statistics, src/src/server/activity-stats.ts: the server  *)
(* counts in memory what agents run, and writes what changed to the        *)
(* project database behind a debounce; a boot reads it back.               *)
(*                                                                         *)
(* A row, of a node or of a pair (who spawned it, node), is the number of  *)
(* changes it has had; 0 says there is none.  Its counts, sums, owners and *)
(* recent log change with it and are left out, as are the caps of owners,  *)
(* log and callers, which lose detail of a row only.  The sink is any that *)
(* IActivityStatsSink admits: its promises resolve when they like.         *)
(***************************************************************************)
EXTENDS Integers, FiniteSets, Sequences

CONSTANTS
    Node, Owner,
    Null,
    PairCap,      \* PAIR_CAP
    StickyCap,    \* STICKY_DEDUPE_CAP
    MaxFrames,    \* bound on the frames
    MaxAccidents  \* bound on what fails, and on clears, renames and restarts

Pair == (Node \cup Owner) \X Node
Key  == Node \cup Pair

ASSUME StatsAssumption ==
    /\ Node \cap Owner = {} /\ Node \cap Pair = {}
    /\ Null \notin Node \cup Owner
    /\ PairCap \in Nat \ {0} /\ StickyCap \in Nat \ {0}
    /\ MaxFrames \in Nat /\ MaxAccidents \in Nat

VARIABLES
    stats,       \* nodes and pairs, in memory
    dirty,       \* dirtyNodes and dirtyPairs
    flushTimer,  \* armed
    flights,     \* the writes under way; inflight is set while there is one
    waiting,     \* calls of flush that await inflight, in order
    stickySeen,  \* pairs of a node and an owner, oldest first
    lastUnit,    \* lastUnitByOwner
    server,      \* "up", "closing" (close() was called) or "down"
    present,     \* the database file exists
    table,       \* state_activity_stats and state_activity_pairs
    clearing,    \* the clear request under way
    astray,      \* history: rows the table has, or lacks, by other hands
    frames, accidents

memory  == <<stats, dirty, flushTimer, flights, waiting, stickySeen, lastUnit>>
disk    == <<present, table>>
bounds  == <<frames, accidents>>
vars    == <<memory, server, disk, clearing, astray, bounds>>

NoRows   == [k \in Key |-> 0]
NoClear  == [node |-> Null, step |-> "none"]
NoUnit   == [o \in Owner |-> Null]

\* pairKeyTouches, and the row of the node itself.
About(n)   == {n} \cup {p \in Pair : n \in {p[1], p[2]}}
Clearing   == IF clearing.node = Null THEN {} ELSE About(clearing.node)
InFlight   == UNION {f.todo : f \in flights}
Pairs(rows) == {p \in Pair : rows[p] > 0}

Accident == accidents < MaxAccidents /\ accidents' = accidents + 1
Serving  == server # "down"

-----------------------------------------------------------------------------
(***************************************************************************)
(* The frames.  Each changes some rows, marks them dirty and arms the      *)
(* timer.  A sticky start seen before, a custody claim and an end change   *)
(* nothing, and are no steps here.                                         *)
(***************************************************************************)
Change(keys) ==
    /\ Serving /\ frames < MaxFrames
    /\ frames' = frames + 1
    /\ stats' = [k \in Key |-> IF k \in keys THEN stats[k] + 1 ELSE stats[k]]
    /\ dirty' = dirty \cup keys
    /\ flushTimer' = (flushTimer \/ keys # {})
    /\ UNCHANGED <<flights, waiting, server, disk, clearing, astray, accidents>>

\* The unit that ran under o before is the one that accessed n.
Caller(n, o, access) ==
    IF access /\ o # Null /\ lastUnit[o] # Null THEN {lastUnit[o]} \ {n} ELSE {}

Remember(seen, entry) ==
    LET longer == Append(seen, entry)
    IN  IF Len(longer) > StickyCap THEN Tail(longer) ELSE longer

Record(n, o, sticky, access) ==
    /\ IF sticky /\ o # Null
       THEN /\ \A i \in DOMAIN stickySeen : stickySeen[i] # <<n, o>>
            /\ stickySeen' = Remember(stickySeen, <<n, o>>)
       ELSE UNCHANGED stickySeen
    /\ lastUnit' = IF o # Null /\ ~access THEN [lastUnit EXCEPT ![o] = n]
                                          ELSE lastUnit
    /\ Change({n} \cup Caller(n, o, access))

\* A spawn of node c: counted when it starts, unless the pair is new and there
\* is no room; its summary, when there is one, is added to c.
Spawn(p, c, starts, summary) ==
    LET room == stats[<<p, c>>] > 0 \/ Cardinality(Pairs(stats)) < PairCap
    IN  /\ Change((IF starts /\ room THEN {<<p, c>>} ELSE {})
                     \cup (IF summary THEN {c} ELSE {}))
        /\ UNCHANGED <<stickySeen, lastUnit>>

-----------------------------------------------------------------------------
(***************************************************************************)
(* flush: stop the timer, await the write under way, then take what is     *)
(* dirty and write it, the nodes' rows first.                              *)
(***************************************************************************)
Flight(by) ==
    [by |-> by, keys |-> dirty, rows |-> stats,
     todo |-> {k \in dirty : stats[k] > 0}]

\* What flush does past its await.
Take(by, others) ==
    /\ flights' = IF dirty = {} THEN others ELSE others \cup {Flight(by)}
    /\ dirty' = {}

\* Mutant: a flush does not await the write under way.
FlushAtOnce(by) ==
    /\ flushTimer' = FALSE
    /\ Take(by, flights)
    /\ UNCHANGED <<waiting, stats, stickySeen, lastUnit>>

\* Mutant: a flush that meets a write under way leaves it at that.
FlushGivesUp(by) ==
    /\ flushTimer' = FALSE
    /\ IF flights # {} THEN UNCHANGED <<flights, dirty>> ELSE Take(by, {})
    /\ UNCHANGED <<waiting, stats, stickySeen, lastUnit>>

Flush(by) ==
    /\ flushTimer' = FALSE
    /\ IF flights # {}
       THEN waiting' = Append(waiting, by) /\ UNCHANGED <<flights, dirty>>
       ELSE Take(by, {}) /\ UNCHANGED waiting
    /\ UNCHANGED <<stats, stickySeen, lastUnit>>

TimerFires ==
    /\ Serving /\ flushTimer
    /\ Flush("timer")
    /\ UNCHANGED <<server, disk, clearing, astray, bounds>>

\* The rows of the call a flight is in: upsertNodes, then upsertPairs.
Phase(f) == IF f.todo \cap Node # {} THEN f.todo \cap Node ELSE f.todo

\* f gets past the rows of keys; nothing else of the service changes.
Past(f, keys) ==
    /\ flights' = (flights \ {f}) \cup {[f EXCEPT !.todo = @ \ keys]}
    /\ UNCHANGED <<stats, flushTimer, waiting, stickySeen, lastUnit,
                   server, present, clearing, frames>>

\* One row of the call.  Rows that a clear removes, or removed, are astray.
Write(f, k) ==
    /\ present
    /\ k \in Phase(f)
    /\ table' = [table EXCEPT ![k] = f.rows[k]]
    /\ astray' = IF k \in Clearing \/ f.rows[k] > stats[k] THEN astray \cup {k}
                 ELSE IF f.rows[k] = stats[k] THEN astray \ {k}
                 ELSE astray
    /\ Past(f, {k})
    /\ UNCHANGED <<dirty, accidents>>

\* tryWithSqlite: without a file the call does nothing, and resolves.
Skip(f) ==
    /\ ~present
    /\ f.todo # {}
    /\ astray' = astray \cup Phase(f)
    /\ Past(f, Phase(f))
    /\ UNCHANGED <<dirty, table, accidents>>

\* Mutant: the rows of a rejected call are forgotten.
FailForgets(f) ==
    /\ Accident
    /\ f.todo # {}
    /\ Past(f, Phase(f))
    /\ UNCHANGED <<dirty, table, astray>>

\* The call rejects, some of its rows written: all of them are dirty again.
\* Nothing arms the timer: the next change does.
Fail(f) ==
    /\ Accident
    /\ f.todo # {}
    /\ dirty' = dirty \cup (f.keys \cap (IF Phase(f) \subseteq Node THEN Node
                                                                   ELSE Pair))
    /\ Past(f, Phase(f))
    /\ UNCHANGED <<table, astray>>

\* The write is over.  Its flush returns, and of those that awaited it the
\* first takes what is dirty; the others then find nothing, and return.
Settle(f) ==
    /\ f.todo = {}
    /\ IF waiting = <<>>
       THEN flights' = flights \ {f} /\ UNCHANGED dirty
       ELSE Take(Head(waiting), flights \ {f})
    /\ waiting' = <<>>
    /\ UNCHANGED <<stats, flushTimer, stickySeen, lastUnit,
                   server, disk, clearing, astray, bounds>>

-----------------------------------------------------------------------------
(***************************************************************************)
(* DELETE /api/activity/node: the rows of the node and of its pairs, then  *)
(* the memory; without a database the memory only.  A node that no scan    *)
(* knows is refused before anything is deleted.                            *)
(***************************************************************************)
Clear(n) ==
    /\ Serving /\ clearing = NoClear
    /\ Accident
    /\ clearing' = [node |-> n, step |-> IF present THEN "pairs" ELSE "memory"]
    /\ table' = [table EXCEPT ![n] = 0]
    /\ UNCHANGED <<memory, server, present, astray, frames>>

ClearPairs ==
    /\ clearing.step = "pairs"
    /\ clearing' = [clearing EXCEPT !.step = "memory"]
    /\ table' = [k \in Key |-> IF k \in Clearing \ Node THEN 0 ELSE table[k]]
    /\ UNCHANGED <<memory, server, present, astray, bounds>>

\* The second delete throws: the memory keeps what the first one deleted.
ClearFails ==
    /\ clearing.step = "pairs"
    /\ Accident
    /\ clearing' = NoClear
    /\ astray' = astray \cup {k \in Clearing \ (dirty \cup InFlight) : stats[k] # table[k]}
    /\ UNCHANGED <<memory, server, disk, frames>>

\* clearNode.  A flight that took the rows before will write them again.
ClearNode ==
    /\ clearing.step = "memory"
    /\ stats' = [k \in Key |-> IF k \in Clearing THEN 0 ELSE stats[k]]
    /\ dirty' = dirty \ Clearing
    /\ clearing' = NoClear
    /\ astray' = astray \cup (Clearing \cap InFlight)
    /\ UNCHANGED <<flushTimer, flights, waiting, stickySeen, lastUnit,
                   server, disk, bounds>>

-----------------------------------------------------------------------------
(***************************************************************************)
(* What others do to the database: the first scan makes it, and a scan     *)
(* that finds a renamed to b moves its rows, one at b winning.  The        *)
(* service does not hear of it.                                            *)
(***************************************************************************)
CreateDatabase ==
    /\ ~present /\ present' = TRUE
    /\ UNCHANGED <<memory, server, table, clearing, astray, bounds>>

Renamed(k, a, b) ==
    LET swap(x) == IF x = a THEN b ELSE x
    IN  IF k \in Node THEN swap(k) ELSE <<swap(k[1]), swap(k[2])>>

\* migrateActivityStats and migrateActivityPairs; of several pairs that become
\* one, the first the database returns.
Migrated(a, b) ==
    [k \in Key |->
        LET movers == {m \in About(a) : Renamed(m, a, b) = k /\ table[m] > 0}
        IN  IF k \in About(a) THEN 0
            ELSE IF table[k] > 0 \/ movers = {} THEN table[k]
            ELSE table[CHOOSE m \in movers : TRUE]]

Rename(a, b) ==
    /\ present /\ a # b
    /\ Accident
    /\ table' = Migrated(a, b)
    /\ astray' = astray \cup About(a) \cup About(b)
    /\ UNCHANGED <<memory, server, present, clearing, frames>>

-----------------------------------------------------------------------------
(***************************************************************************)
(* The server.                                                             *)
(***************************************************************************)
Fresh ==
    /\ dirty' = {} /\ flushTimer' = FALSE /\ flights' = {} /\ waiting' = <<>>
    /\ stickySeen' = <<>> /\ lastUnit' = NoUnit
    /\ clearing' = NoClear

\* close(): its flush is one of the steps of the shutdown; requests are served
\* and timers fire until the listener is closed.
Close ==
    /\ server = "up" /\ server' = "closing"
    /\ Accident
    /\ Flush("close")
    /\ UNCHANGED <<disk, clearing, astray, frames>>

Down ==
    /\ server' = "down"
    /\ stats' = NoRows /\ astray' = {}
    /\ Fresh
    /\ UNCHANGED <<disk, frames>>

Exit ==
    /\ server = "closing"
    /\ \A f \in flights : f.by # "close"
    /\ \A i \in DOMAIN waiting : waiting[i] # "close"
    /\ Down
    /\ UNCHANGED accidents

Crash == Serving /\ Accident /\ Down

\* hydrate(rows): of the pairs, as many as the cap admits.
Hydrate(rows) ==
    \E room \in SUBSET Pairs(rows) :
        /\ \/ room = Pairs(rows)
           \/ Cardinality(room) = PairCap
        /\ Cardinality(room) <= PairCap
        /\ stats' = [k \in Key |-> IF k \in Node \cup room THEN rows[k] ELSE 0]
        /\ astray' = Pairs(rows) \ room

\* hydrateActivityStats, before the server listens: whatever fails, it goes on
\* without the rows there are.
Boot ==
    /\ server = "down" /\ server' = "up"
    /\ \/ Hydrate(IF present THEN table ELSE NoRows) /\ UNCHANGED accidents
       \/ /\ present /\ Accident
          /\ stats' = NoRows
          /\ astray' = {k \in Key : table[k] > 0}
    /\ Fresh
    /\ UNCHANGED <<disk, frames>>

-----------------------------------------------------------------------------
Init ==
    /\ stats = NoRows /\ dirty = {} /\ flushTimer = FALSE
    /\ flights = {} /\ waiting = <<>>
    /\ stickySeen = <<>> /\ lastUnit = NoUnit
    /\ server = "up" /\ present \in BOOLEAN /\ table = NoRows
    /\ clearing = NoClear /\ astray = {}
    /\ frames = 0 /\ accidents = 0

Frame ==
    \/ \E n \in Node, o \in Owner \cup {Null}, sticky, access \in BOOLEAN :
          Record(n, o, sticky, access)
    \/ \E p \in Node \cup Owner, c \in Node, starts, summary \in BOOLEAN :
          (starts \/ summary) /\ Spawn(p, c, starts, summary)

Sink(f)  == (\E k \in Key : Write(f, k)) \/ Skip(f) \/ Settle(f)
Request  == (\E n \in Node : Clear(n)) \/ ClearPairs \/ ClearFails \/ ClearNode
Others   == CreateDatabase \/ \E a, b \in Node : Rename(a, b)
Lifetime == Close \/ Exit \/ Crash \/ Boot

Next ==
    \/ Frame \/ TimerFires
    \/ \E f \in flights : Sink(f) \/ Fail(f)
    \/ Request \/ Others \/ Lifetime

Spec == Init /\ [][Next]_vars

\* The timer fires, and the promises of the sink resolve.
FairSpec == Spec /\ WF_vars(TimerFires) /\ WF_vars(\E f \in flights : Sink(f))

-----------------------------------------------------------------------------
(***************************************************************************)
(* Properties.                                                             *)
(***************************************************************************)
StatsTypeOK ==
    /\ stats \in [Key -> Nat] /\ table \in [Key -> Nat]
    /\ dirty \subseteq Key /\ astray \subseteq Key
    /\ flushTimer \in BOOLEAN /\ present \in BOOLEAN
    /\ flights \subseteq [by: {"timer", "close"}, keys: SUBSET Key,
                          rows: [Key -> Nat], todo: SUBSET Key]
    /\ waiting \in Seq({"timer", "close"})
    /\ stickySeen \in Seq(Node \X Owner)
    /\ lastUnit \in [Owner -> Node \cup {Null}]
    /\ server \in {"up", "closing", "down"}
    /\ clearing \in [node: Node \cup {Null}, step: {"none", "pairs", "memory"}]
    /\ frames \in Nat /\ accidents \in Nat

\* No change is forgotten, whatever changes, fails, or is cleared while rows
\* are being written: a row that differs from the table is dirty, in a write
\* under way, or one that a clear, a rename or a missing file has its hand in.
UnsavedIsPending ==
    Serving => \A k \in Key : stats[k] # table[k] =>
                   k \in dirty \cup InFlight \cup Clearing \cup astray

\* A later write never gives way to an earlier one: a row of the table only
\* gains changes, unless it is deleted, or another hand has been at it (astray:
\* the memory may then be the older of the two, and a write of it lowers the row).
NeverRegresses ==
    [][\A k \in Key \ astray : table'[k] < table[k] => table'[k] = 0]_vars

\* "Dirty for the next window": once nothing fails any more, the next change
\* writes everything that is behind, what failed before it included.
NextWindowSavesAll ==
    (flushTimer /\ accidents = MaxAccidents) ~> (dirty = {} /\ flights = {})
=============================================================================
