------------------------ MODULE ActivityStatsProofs -------------------------
(***************************************************************************)
(* No change to the statistics is forgotten, and no write gives way to an  *)
(* older one, for any nodes, owners, caps and number of accidents.         *)
(***************************************************************************)
EXTENDS ActivityStats, SequenceTheorems, TLAPS

\* One write is under way at a time: flush awaits the one there is.
OneFlight == \A f, g \in flights : f = g

Idle == ~Serving => flights = {} /\ clearing = NoClear

\* What a write has still to do: its rows are those of the memory, or a
\* later write or a clear knows of the difference; and the table is behind.
Carried ==
    \A f \in flights :
        /\ f.todo \subseteq f.keys
        /\ \A k \in f.todo :
              /\ f.rows[k] # stats[k] => k \in dirty \cup astray
              /\ k \notin astray => table[k] <= f.rows[k]

NoFile == ~present => table = NoRows

\* A clear that has passed the table left none of its rows there, but those a
\* write put back.
Removed ==
    \A k \in Clearing : clearing.step = "memory" \/ k \in Node =>
                            table[k] = 0 \/ k \in astray

Behind == Serving => \A k \in Key \ astray : table[k] <= stats[k]

Inv ==
    /\ StatsTypeOK /\ OneFlight /\ Idle /\ Carried
    /\ NoFile /\ Removed /\ Behind /\ UnsavedIsPending

-----------------------------------------------------------------------------
(***************************************************************************)
(* Rows and flights.                                                       *)
(***************************************************************************)
FlightType == [by: {"timer", "close"}, keys: SUBSET Key,
               rows: [Key -> Nat], todo: SUBSET Key]

LEMMA AboutTyped ==
    ASSUME NEW n \in Node
    PROVE  About(n) \subseteq Key /\ \A k \in About(n) : k \in Node => k = n
  BY StatsAssumption DEF About, Key

LEMMA ClearingTyped ==
    ASSUME StatsTypeOK
    PROVE  Clearing \subseteq Key /\ \A k \in Clearing : k \in Node => k = clearing.node
  <1>1. CASE clearing.node = Null
    BY <1>1 DEF Clearing
  <1>2. CASE clearing.node # Null
    <2>1. clearing.node \in Node
      BY <1>2 DEF StatsTypeOK
    <2> QED BY <2>1, <1>2, AboutTyped DEF Clearing
  <1> QED BY <1>1, <1>2

LEMMA FlightTyped ==
    ASSUME StatsTypeOK, NEW by \in {"timer", "close"}
    PROVE  Flight(by) \in FlightType
  BY DEF Flight, FlightType, StatsTypeOK

LEMMA PhaseTyped ==
    ASSUME NEW f, f \in FlightType
    PROVE  /\ Phase(f) \subseteq f.todo
           /\ Phase(f) \subseteq Node \/ Phase(f) \subseteq Pair
           /\ f.todo # {} => Phase(f) # {}
  BY DEF Phase, FlightType, Key

\* What is left of the one flight f when it gets past some keys.
LEMMA PastFlight ==
    ASSUME StatsTypeOK, OneFlight, NEW f \in flights, NEW keys, Past(f, keys)
    PROVE  /\ f \in FlightType
           /\ flights' = {[f EXCEPT !.todo = f.todo \ keys]}
           /\ [f EXCEPT !.todo = f.todo \ keys] \in FlightType
           /\ [f EXCEPT !.todo = f.todo \ keys].todo = f.todo \ keys
           /\ [f EXCEPT !.todo = f.todo \ keys].keys = f.keys
           /\ [f EXCEPT !.todo = f.todo \ keys].rows = f.rows
           /\ InFlight = f.todo /\ InFlight' = f.todo \ keys
  <1>1. f \in FlightType
    BY DEF StatsTypeOK, FlightType
  <1>2. flights = {f}
    BY DEF OneFlight
  <1>3. flights' = {[f EXCEPT !.todo = f.todo \ keys]}
    BY <1>2 DEF Past
  <1>4. /\ [f EXCEPT !.todo = f.todo \ keys] \in FlightType
        /\ [f EXCEPT !.todo = f.todo \ keys].todo = f.todo \ keys
        /\ [f EXCEPT !.todo = f.todo \ keys].keys = f.keys
        /\ [f EXCEPT !.todo = f.todo \ keys].rows = f.rows
    BY <1>1 DEF FlightType
  <1>5. InFlight = f.todo /\ InFlight' = f.todo \ keys
    BY <1>2, <1>3, <1>4 DEF InFlight
  <1> QED BY <1>1, <1>3, <1>4, <1>5

-----------------------------------------------------------------------------
(***************************************************************************)
(* The sink.                                                               *)
(***************************************************************************)
LEMMA WriteKeeps ==
    ASSUME Inv, NEW f \in flights, NEW k \in Key, Write(f, k)
    PROVE  Inv'
  <1> DEFINE g == [f EXCEPT !.todo = f.todo \ {k}]
  <1>1. /\ f \in FlightType /\ flights' = {g} /\ g \in FlightType
        /\ g.todo = f.todo \ {k} /\ g.keys = f.keys /\ g.rows = f.rows
        /\ InFlight = f.todo /\ InFlight' = f.todo \ {k}
    BY PastFlight DEF Inv, Write
  <1>2. k \in f.todo
    BY <1>1, PhaseTyped DEF Write
  <1>3. /\ Clearing' = Clearing /\ Serving' = Serving
        /\ stats' = stats /\ dirty' = dirty /\ clearing' = clearing
        /\ server' = server /\ present' = present /\ present
    BY DEF Write, Past, Clearing, Serving
  <1>4. /\ stats \in [Key -> Nat] /\ table \in [Key -> Nat] /\ f.rows \in [Key -> Nat]
        /\ table' = [table EXCEPT ![k] = f.rows[k]]
    BY <1>1 DEF Inv, StatsTypeOK, FlightType, Write
  <1>5. /\ astray \ {k} \subseteq astray' /\ astray' \subseteq astray \cup {k}
        /\ k \in Clearing \/ f.rows[k] > stats[k] => k \in astray'
        /\ k \notin astray' /\ k \in astray => f.rows[k] = stats[k]
    BY DEF Write
  <1> HIDE DEF g
  <1>6. StatsTypeOK'
    <2>1. astray' \subseteq Key
      BY <1>5 DEF Inv, StatsTypeOK
    <2>2. table' \in [Key -> Nat]
      BY <1>4
    <2> QED BY <1>1, <2>1, <2>2 DEF Inv, StatsTypeOK, FlightType, Write, Past
  <1>7. OneFlight' /\ Idle' /\ NoFile'
    BY <1>1, <1>3 DEF Inv, OneFlight, Idle, NoFile
  <1>8. Carried'
    BY <1>1, <1>3, <1>4, <1>5 DEF Inv, Carried
  <1>9. Removed'
    <2>1. Clearing \subseteq Key
      BY ClearingTyped DEF Inv
    <2> QED BY <2>1, <1>3, <1>4, <1>5 DEF Inv, Removed
  <1>10. f.rows[k] # stats[k] => k \in dirty \cup astray
    BY <1>2 DEF Inv, Carried
  <1>11. Behind'
    BY <1>3, <1>4, <1>5 DEF Inv, Behind
  <1>12. UnsavedIsPending'
    BY <1>1, <1>3, <1>4, <1>5, <1>10 DEF Inv, UnsavedIsPending
  <1> QED BY <1>6, <1>7, <1>8, <1>9, <1>11, <1>12 DEF Inv

LEMMA SkipKeeps ==
    ASSUME Inv, NEW f \in flights, Skip(f)
    PROVE  Inv'
  <1> DEFINE g == [f EXCEPT !.todo = f.todo \ Phase(f)]
  <1>1. /\ f \in FlightType /\ flights' = {g} /\ g \in FlightType
        /\ g.todo = f.todo \ Phase(f) /\ g.keys = f.keys /\ g.rows = f.rows
        /\ InFlight = f.todo /\ InFlight' = f.todo \ Phase(f)
    BY PastFlight DEF Inv, Skip
  <1>2. Phase(f) \subseteq f.todo
    BY <1>1, PhaseTyped
  <1>3. /\ Clearing' = Clearing /\ Serving' = Serving
        /\ stats' = stats /\ dirty' = dirty /\ clearing' = clearing
        /\ server' = server /\ present' = present /\ table' = table
        /\ astray' = astray \cup Phase(f)
    BY DEF Skip, Past, Clearing, Serving
  <1> HIDE DEF g
  <1>4. StatsTypeOK'
    <2>1. astray' \subseteq Key
      BY <1>1, <1>2, <1>3 DEF Inv, StatsTypeOK, FlightType
    <2> QED BY <1>1, <1>3, <2>1 DEF Inv, StatsTypeOK, FlightType, Skip, Past
  <1>5. OneFlight' /\ Idle' /\ NoFile'
    BY <1>1, <1>3 DEF Inv, OneFlight, Idle, NoFile
  <1>6. Carried'
    BY <1>1, <1>3 DEF Inv, Carried
  <1>7. Removed' /\ Behind'
    BY <1>3 DEF Inv, Removed, Behind
  <1>8. UnsavedIsPending'
    BY <1>1, <1>3 DEF Inv, UnsavedIsPending
  <1> QED BY <1>4, <1>5, <1>6, <1>7, <1>8 DEF Inv

LEMMA FailKeeps ==
    ASSUME Inv, NEW f \in flights, Fail(f)
    PROVE  Inv'
  <1> DEFINE g == [f EXCEPT !.todo = f.todo \ Phase(f)]
  <1>1. /\ f \in FlightType /\ flights' = {g} /\ g \in FlightType
        /\ g.todo = f.todo \ Phase(f) /\ g.keys = f.keys /\ g.rows = f.rows
        /\ InFlight = f.todo /\ InFlight' = f.todo \ Phase(f)
    BY PastFlight DEF Inv, Fail
  <1>2. /\ Phase(f) \subseteq f.todo
        /\ Phase(f) \subseteq Node \/ Phase(f) \subseteq Pair
    BY <1>1, PhaseTyped
  <1>3. f.todo \subseteq f.keys /\ f.keys \subseteq Key
    BY <1>1 DEF Inv, Carried, FlightType
  <1>4. /\ Clearing' = Clearing /\ Serving' = Serving
        /\ stats' = stats /\ table' = table /\ astray' = astray
        /\ clearing' = clearing /\ server' = server /\ present' = present
    BY DEF Fail, Past, Clearing, Serving
  <1>5. dirty \cup Phase(f) \subseteq dirty' /\ dirty' \subseteq dirty \cup f.keys
    BY <1>2, <1>3 DEF Fail
  <1> HIDE DEF g
  <1>6. StatsTypeOK'
    <2>1. dirty' \subseteq Key
      BY <1>3, <1>5 DEF Inv, StatsTypeOK
    <2>2. accidents' \in Nat
      BY DEF Inv, StatsTypeOK, Fail, Accident
    <2> QED BY <1>1, <1>4, <2>1, <2>2 DEF Inv, StatsTypeOK, FlightType, Fail, Past
  <1>7. OneFlight' /\ Idle' /\ NoFile'
    BY <1>1, <1>4 DEF Inv, OneFlight, Idle, NoFile
  <1>8. Carried'
    BY <1>1, <1>4, <1>5 DEF Inv, Carried
  <1>9. Removed' /\ Behind'
    BY <1>4 DEF Inv, Removed, Behind
  <1>10. UnsavedIsPending'
    BY <1>1, <1>4, <1>5 DEF Inv, UnsavedIsPending
  <1> QED BY <1>6, <1>7, <1>8, <1>9, <1>10 DEF Inv

\* Past its await, a flush: there is no write under way, or the one there was
\* is done.
LEMMA TakeKeeps ==
    ASSUME Inv, Serving, InFlight = {}, NEW by \in {"timer", "close"}, Take(by, {}),
           stats' = stats, table' = table, astray' = astray, clearing' = clearing,
           present' = present, Serving', waiting' \in Seq({"timer", "close"}),
           flushTimer' \in BOOLEAN, stickySeen' = stickySeen, lastUnit' = lastUnit,
           server' \in {"up", "closing", "down"}, frames' = frames, accidents' \in Nat
    PROVE  Inv'
  <1> DEFINE g == Flight(by)
  <1>1. /\ g \in FlightType /\ g.keys = dirty /\ g.rows = stats
        /\ g.todo = {k \in dirty : stats[k] > 0}
    BY FlightTyped DEF Inv, Flight
  <1>2. dirty' = {} /\ flights' = IF dirty = {} THEN {} ELSE {g}
    BY DEF Take
  <1>3. InFlight' = {k \in dirty : stats[k] > 0}
    BY <1>1, <1>2 DEF InFlight
  <1>4. Clearing' = Clearing
    BY DEF Clearing
  <1>5. stats \in [Key -> Nat] /\ table \in [Key -> Nat] /\ dirty \subseteq Key
    BY DEF Inv, StatsTypeOK
  <1>6. \A k \in Key \ astray : table[k] <= stats[k]
    BY DEF Inv, Behind
  <1> HIDE DEF g
  <1>7. StatsTypeOK'
    BY <1>1, <1>2 DEF Inv, StatsTypeOK, FlightType
  <1>8. OneFlight' /\ Idle' /\ NoFile'
    BY <1>2 DEF Inv, OneFlight, Idle, NoFile
  <1>9. Carried'
    BY <1>1, <1>2, <1>5, <1>6 DEF Carried
  <1>10. Removed' /\ Behind'
    BY <1>4 DEF Inv, Removed, Behind
  <1>11. UnsavedIsPending'
    <2>1. SUFFICES ASSUME NEW k \in Key, stats[k] # table[k], k \notin Clearing, k \notin astray
                   PROVE  k \in InFlight'
      BY <1>4 DEF UnsavedIsPending
    <2>2. k \in dirty
      BY <2>1 DEF Inv, UnsavedIsPending
    <2>3. table[k] <= stats[k] /\ table[k] \in Nat /\ stats[k] \in Nat
      BY <1>5, <1>6, <2>1
    <2> QED BY <1>3, <2>1, <2>2, <2>3
  <1> QED BY <1>7, <1>8, <1>9, <1>10, <1>11 DEF Inv

LEMMA SettleKeeps ==
    ASSUME Inv, NEW f \in flights, Settle(f)
    PROVE  Inv'
  <1>1. flights = {f} /\ f.todo = {}
    BY DEF Inv, OneFlight, Settle
  <1>2. InFlight = {} /\ flights \ {f} = {}
    BY <1>1 DEF InFlight
  <1>3. Serving /\ Serving'
    BY <1>1 DEF Inv, Idle, Serving, Settle
  <1>4. waiting' \in Seq({"timer", "close"}) /\ accidents' \in Nat
        /\ flushTimer' \in BOOLEAN /\ server' \in {"up", "closing", "down"}
    BY DEF Inv, StatsTypeOK, Settle, bounds
  <1>5. CASE waiting = <<>>
    <2>1. flights' = {} /\ dirty' = dirty /\ InFlight' = {}
      BY <1>2, <1>5 DEF Settle, InFlight
    <2>2. /\ Clearing' = Clearing /\ stats' = stats /\ table' = table /\ astray' = astray
          /\ clearing' = clearing /\ present' = present /\ server' = server
      BY DEF Settle, disk, Clearing
    <2>3. StatsTypeOK'
      BY <1>4, <2>1, <2>2 DEF Inv, StatsTypeOK, Settle, bounds
    <2>4. OneFlight' /\ Idle' /\ NoFile' /\ Carried'
      BY <1>3, <2>1, <2>2 DEF Inv, OneFlight, Idle, NoFile, Carried
    <2>5. Removed' /\ Behind'
      BY <1>3, <2>2 DEF Inv, Removed, Behind
    <2>6. UnsavedIsPending'
      BY <1>2, <1>3, <2>1, <2>2 DEF Inv, UnsavedIsPending
    <2> QED BY <2>3, <2>4, <2>5, <2>6 DEF Inv
  <1>6. CASE waiting # <<>>
    <2>1. Head(waiting) \in {"timer", "close"}
      BY <1>6 DEF Inv, StatsTypeOK
    <2>2. Take(Head(waiting), {})
      BY <1>2, <1>6 DEF Settle
    <2> QED BY <1>2, <1>3, <1>4, <2>1, <2>2, TakeKeeps DEF Settle, disk, bounds
  <1> QED BY <1>5, <1>6

\* flush, from the timer or from close().
LEMMA FlushKeeps ==
    ASSUME Inv, Serving, Serving', NEW by \in {"timer", "close"}, Flush(by),
           UNCHANGED <<disk, clearing, astray, frames>>,
           server' \in {"up", "closing", "down"}, accidents' \in Nat
    PROVE  Inv'
  <1>1. CASE flights # {}
    <2>1. /\ flights' = flights /\ dirty' = dirty /\ InFlight' = InFlight
          /\ Clearing' = Clearing /\ stats' = stats /\ table' = table
          /\ astray' = astray /\ clearing' = clearing /\ present' = present
      BY <1>1 DEF Flush, disk, Clearing, InFlight
    <2>2. waiting' \in Seq({"timer", "close"})
      <3>1. waiting \in Seq({"timer", "close"}) /\ waiting' = Append(waiting, by)
        BY <1>1 DEF Flush, Inv, StatsTypeOK
      <3> QED BY <3>1, AppendProperties
    <2>3. StatsTypeOK'
      BY <2>1, <2>2 DEF Inv, StatsTypeOK, Flush
    <2>4. OneFlight' /\ Idle' /\ NoFile'
      BY <2>1 DEF Inv, OneFlight, Idle, NoFile
    <2>5. Carried'
      BY <2>1 DEF Inv, Carried
    <2>6. Removed' /\ Behind' /\ UnsavedIsPending'
      BY <2>1 DEF Inv, Removed, Behind, UnsavedIsPending
    <2> QED BY <2>3, <2>4, <2>5, <2>6 DEF Inv
  <1>2. CASE flights = {}
    <2>1. InFlight = {}
      BY <1>2 DEF InFlight
    <2>2. Take(by, {}) /\ waiting' = waiting
      BY <1>2 DEF Flush
    <2>3. waiting' \in Seq({"timer", "close"}) /\ flushTimer' \in BOOLEAN
      BY <2>2 DEF Flush, Inv, StatsTypeOK
    <2> QED BY <2>1, <2>2, <2>3, TakeKeeps DEF Flush, disk
  <1> QED BY <1>1, <1>2

-----------------------------------------------------------------------------
(***************************************************************************)
(* The frames.                                                             *)
(***************************************************************************)
LEMMA ChangeKeeps ==
    ASSUME Inv, NEW keys \in SUBSET Key, Change(keys),
           stickySeen' \in Seq(Node \X Owner), lastUnit' \in [Owner -> Node \cup {Null}]
    PROVE  Inv'
  <1>1. /\ flights' = flights /\ InFlight' = InFlight /\ Clearing' = Clearing
        /\ table' = table /\ astray' = astray /\ clearing' = clearing
        /\ server' = server /\ present' = present /\ Serving /\ Serving'
    BY DEF Change, disk, Clearing, InFlight, Serving
  <1>2. stats \in [Key -> Nat] /\ table \in [Key -> Nat]
    BY DEF Inv, StatsTypeOK
  <1>3. /\ stats' \in [Key -> Nat]
        /\ \A k \in Key : IF k \in keys THEN stats'[k] = stats[k] + 1 ELSE stats'[k] = stats[k]
    BY <1>2 DEF Change
  <1>4. dirty' = dirty \cup keys
    BY DEF Change
  <1>5. StatsTypeOK'
    <2>1. frames' \in Nat /\ flushTimer' \in BOOLEAN
      BY DEF Inv, StatsTypeOK, Change
    <2> QED BY <1>1, <1>3, <1>4, <2>1 DEF Inv, StatsTypeOK, Change
  <1>6. OneFlight' /\ Idle' /\ NoFile' /\ Removed'
    BY <1>1 DEF Inv, OneFlight, Idle, NoFile, Removed
  <1>7. Carried'
    <2>1. \A f \in flights : f.todo \subseteq Key
      BY DEF Inv, StatsTypeOK
    <2> QED BY <1>1, <1>3, <1>4, <2>1 DEF Inv, Carried
  <1>8. Behind'
    <2>1. ASSUME NEW k \in Key \ astray
          PROVE  table[k] <= stats'[k]
      <3>1. table[k] <= stats[k] /\ table[k] \in Nat /\ stats[k] \in Nat
        BY <1>1, <1>2 DEF Inv, Behind
      <3>2. stats'[k] = stats[k] + 1 \/ stats'[k] = stats[k]
        BY <1>3
      <3> QED BY <3>1, <3>2
    <2> QED BY <1>1, <2>1 DEF Behind
  <1>9. UnsavedIsPending'
    BY <1>1, <1>3, <1>4 DEF Inv, UnsavedIsPending
  <1> QED BY <1>5, <1>6, <1>7, <1>8, <1>9 DEF Inv

LEMMA RecordKeeps ==
    ASSUME Inv, NEW n \in Node, NEW o \in Owner \cup {Null},
           NEW sticky \in BOOLEAN, NEW access \in BOOLEAN, Record(n, o, sticky, access)
    PROVE  Inv'
  <1>1. lastUnit \in [Owner -> Node \cup {Null}] /\ stickySeen \in Seq(Node \X Owner)
    BY DEF Inv, StatsTypeOK
  <1>2. Caller(n, o, access) \subseteq Node
    BY <1>1 DEF Caller
  <1>3. {n} \cup Caller(n, o, access) \in SUBSET Key
    BY <1>2 DEF Key
  <1>4. lastUnit' \in [Owner -> Node \cup {Null}]
    BY <1>1 DEF Record
  <1>5. stickySeen' \in Seq(Node \X Owner)
    <2>1. CASE sticky /\ o # Null
      <3>1. <<n, o>> \in Node \X Owner
        BY <2>1
      <3> DEFINE longer == Append(stickySeen, <<n, o>>)
      <3>2. longer \in Seq(Node \X Owner) /\ longer # <<>>
        BY <1>1, <3>1, AppendProperties
      <3>3. Tail(longer) \in Seq(Node \X Owner)
        BY <3>2, HeadTailProperties
      <3> QED BY <2>1, <3>2, <3>3 DEF Record, Remember
    <2> QED BY <1>1, <2>1 DEF Record
  <1> QED BY <1>3, <1>4, <1>5, ChangeKeeps DEF Record

LEMMA SpawnKeeps ==
    ASSUME Inv, NEW p \in Node \cup Owner, NEW c \in Node,
           NEW starts \in BOOLEAN, NEW summary \in BOOLEAN, Spawn(p, c, starts, summary)
    PROVE  Inv'
  <1>1. PICK keys \in SUBSET Key : Change(keys)
    <2>1. {<<p, c>>} \subseteq Key /\ {c} \subseteq Key
      BY DEF Key, Pair
    <2> QED BY <2>1 DEF Spawn
  <1> QED BY <1>1, ChangeKeeps DEF Spawn, Inv, StatsTypeOK

-----------------------------------------------------------------------------
(***************************************************************************)
(* Requests, scans, and the life of the server.                            *)
(***************************************************************************)
LEMMA ClearKeeps ==
    ASSUME Inv, NEW n \in Node, Clear(n)
    PROVE  Inv'
  <1>1. Clearing = {} /\ clearing = NoClear
    BY DEF Clear, Clearing, NoClear
  <1>2. /\ clearing' = [node |-> n, step |-> IF present THEN "pairs" ELSE "memory"]
        /\ clearing'.node = n /\ clearing'.step = IF present THEN "pairs" ELSE "memory"
    BY DEF Clear
  <1>3. Clearing' = About(n)
    BY <1>2, StatsAssumption DEF Clearing
  <1>4. About(n) \subseteq Key /\ (\A k \in About(n) : k \in Node => k = n) /\ n \in Key
    BY AboutTyped DEF Key
  <1>5. n \in About(n)
    BY DEF About
  <1>6. /\ stats' = stats /\ dirty' = dirty /\ flights' = flights /\ InFlight' = InFlight
        /\ server' = server /\ present' = present /\ astray' = astray /\ Serving /\ Serving'
    BY DEF Clear, memory, Serving, InFlight
  <1>7. /\ table \in [Key -> Nat] /\ table' = [table EXCEPT ![n] = 0]
        /\ stats \in [Key -> Nat]
    BY DEF Clear, Inv, StatsTypeOK
  <1>8. StatsTypeOK'
    <2>1. accidents' \in Nat
      BY DEF Inv, StatsTypeOK, Clear, Accident
    <2>2. table' \in [Key -> Nat]
      BY <1>7
    <2> QED BY <1>2, <1>6, <2>1, <2>2 DEF Inv, StatsTypeOK, Clear, memory
  <1>9. OneFlight' /\ Idle'
    BY <1>6 DEF Inv, OneFlight, Idle
  <1>10. NoFile'
    <2>1. ~present => table' = NoRows
      BY <1>4, <1>7 DEF Inv, NoFile, NoRows
    <2> QED BY <1>6, <2>1 DEF NoFile, NoRows
  <1>11. \A k \in Key : table'[k] = table[k] \/ (k = n /\ table'[k] = 0)
    BY <1>4, <1>7
  <1>12. Carried'
    <2>1. \A f \in flights : f.todo \subseteq Key /\ f.rows \in [Key -> Nat]
      BY DEF Inv, StatsTypeOK
    <2> QED BY <1>1, <1>6, <1>7, <1>11, <2>1 DEF Inv, Carried
  <1>13. Removed'
    <2>1. ASSUME NEW k \in About(n), clearing'.step = "memory" \/ k \in Node
          PROVE  table'[k] = 0
      <3>1. CASE k \in Node
        BY <1>4, <1>7, <3>1
      <3>2. CASE k \notin Node
        BY <1>2, <1>4, <1>11, <2>1, <3>2 DEF Inv, NoFile, NoRows
      <3> QED BY <3>1, <3>2
    <2> QED BY <1>3, <2>1 DEF Removed
  <1>14. Behind'
    <2>1. ASSUME NEW k \in Key \ astray
          PROVE  table'[k] <= stats[k]
      <3>1. table[k] <= stats[k] /\ table[k] \in Nat /\ stats[k] \in Nat
        BY <1>6, <1>7 DEF Inv, Behind
      <3> QED BY <1>11, <3>1
    <2> QED BY <1>6, <2>1 DEF Behind
  <1>15. UnsavedIsPending'
    BY <1>1, <1>3, <1>5, <1>6, <1>11 DEF Inv, UnsavedIsPending
  <1> QED BY <1>8, <1>9, <1>10, <1>12, <1>13, <1>14, <1>15 DEF Inv

LEMMA ClearPairsKeeps ==
    ASSUME Inv, ClearPairs
    PROVE  Inv'
  <1>1. /\ clearing' = [clearing EXCEPT !.step = "memory"]
        /\ clearing'.node = clearing.node
    BY DEF ClearPairs, Inv, StatsTypeOK
  <1>2. Clearing' = Clearing
    BY <1>1 DEF Clearing
  <1>3. /\ stats' = stats /\ dirty' = dirty /\ flights' = flights /\ InFlight' = InFlight
        /\ server' = server /\ present' = present /\ astray' = astray /\ Serving' = Serving
    BY DEF ClearPairs, memory, Serving, InFlight
  <1>4. /\ table \in [Key -> Nat] /\ stats \in [Key -> Nat]
        /\ table' = [k \in Key |-> IF k \in Clearing \ Node THEN 0 ELSE table[k]]
    BY DEF ClearPairs, Inv, StatsTypeOK
  <1>5. \A k \in Key : table'[k] = IF k \in Clearing \ Node THEN 0 ELSE table[k]
    BY <1>4
  <1>6. Clearing \subseteq Key
    BY ClearingTyped DEF Inv
  <1>7. clearing.node # Null \/ Clearing = {}
    BY DEF Clearing
  <1>8. StatsTypeOK'
    <2>1. table' \in [Key -> Nat]
      BY <1>4
    <2>2. clearing' \in [node: Node \cup {Null}, step: {"none", "pairs", "memory"}]
      BY <1>1 DEF Inv, StatsTypeOK
    <2> QED BY <1>3, <2>1, <2>2 DEF Inv, StatsTypeOK, ClearPairs, memory, bounds
  <1>9. OneFlight' /\ Idle'
    <2>1. Serving
      BY DEF ClearPairs, Inv, Idle, NoClear
    <2> QED BY <1>3, <2>1 DEF Inv, OneFlight, Idle
  <1>10. NoFile'
    <2>1. ~present => table' = NoRows
      BY <1>4 DEF Inv, NoFile, NoRows
    <2> QED BY <1>3, <2>1 DEF NoFile, NoRows
  <1>11. Carried'
    <2>1. \A f \in flights : f.todo \subseteq Key /\ f.rows \in [Key -> Nat]
      BY DEF Inv, StatsTypeOK
    <2> QED BY <1>2, <1>3, <1>4, <1>5, <2>1 DEF Inv, Carried
  <1>12. Removed'
    BY <1>2, <1>3, <1>5, <1>6 DEF Inv, Removed
  <1>13. Behind'
    BY <1>3, <1>4, <1>5 DEF Inv, Behind
  <1>14. UnsavedIsPending'
    BY <1>2, <1>3, <1>5 DEF Inv, UnsavedIsPending
  <1> QED BY <1>8, <1>9, <1>10, <1>11, <1>12, <1>13, <1>14 DEF Inv

LEMMA ClearFailsKeeps ==
    ASSUME Inv, ClearFails
    PROVE  Inv'
  <1> DEFINE lost == {k \in Clearing \ (dirty \cup InFlight) : stats[k] # table[k]}
  <1>1. Clearing' = {} /\ clearing' = NoClear
    BY DEF ClearFails, Clearing, NoClear
  <1>2. lost \subseteq Key
    BY ClearingTyped DEF Inv
  <1>3. /\ stats' = stats /\ dirty' = dirty /\ flights' = flights /\ InFlight' = InFlight
        /\ table' = table /\ server' = server /\ present' = present /\ Serving' = Serving
        /\ astray' = astray \cup lost
    BY DEF ClearFails, memory, disk, Serving, InFlight
  <1>4. StatsTypeOK'
    <2>1. clearing' \in [node: Node \cup {Null}, step: {"none", "pairs", "memory"}]
      BY <1>1 DEF NoClear
    <2>2. accidents' \in Nat
      BY DEF Inv, StatsTypeOK, ClearFails, Accident
    <2>3. astray' \subseteq Key
      BY <1>2, <1>3 DEF Inv, StatsTypeOK
    <2> QED BY <1>3, <2>1, <2>2, <2>3 DEF Inv, StatsTypeOK, ClearFails, memory
  <1>5. OneFlight' /\ Idle' /\ NoFile'
    BY <1>1, <1>3 DEF Inv, OneFlight, Idle, NoFile, NoClear
  <1>6. UnsavedIsPending'
    BY <1>1, <1>3 DEF Inv, UnsavedIsPending
  <1> HIDE DEF lost
  <1>7. Carried'
    BY <1>3 DEF Inv, Carried
  <1>8. Removed' /\ Behind'
    BY <1>1, <1>3 DEF Inv, Removed, Behind
  <1> QED BY <1>4, <1>5, <1>6, <1>7, <1>8 DEF Inv

LEMMA ClearNodeKeeps ==
    ASSUME Inv, ClearNode
    PROVE  Inv'
  <1>1. Clearing' = {} /\ clearing' = NoClear
    BY DEF ClearNode, Clearing, NoClear
  <1>2. Clearing \subseteq Key
    BY ClearingTyped DEF Inv
  <1>3. /\ dirty' = dirty \ Clearing /\ astray' = astray \cup (Clearing \cap InFlight)
        /\ flights' = flights /\ InFlight' = InFlight /\ table' = table
        /\ server' = server /\ present' = present /\ Serving' = Serving
    BY DEF ClearNode, disk, Serving, InFlight
  <1>4. /\ table \in [Key -> Nat] /\ stats \in [Key -> Nat]
        /\ stats' = [k \in Key |-> IF k \in Clearing THEN 0 ELSE stats[k]]
    BY DEF ClearNode, Inv, StatsTypeOK
  <1>5. \A k \in Key : stats'[k] = IF k \in Clearing THEN 0 ELSE stats[k]
    BY <1>4
  <1>6. \A k \in Clearing : table[k] = 0 \/ k \in astray
    BY DEF ClearNode, Inv, Removed
  <1>7. StatsTypeOK'
    <2>1. stats' \in [Key -> Nat]
      BY <1>4
    <2>2. astray' \subseteq Key /\ dirty' \subseteq Key
      BY <1>2, <1>3 DEF Inv, StatsTypeOK
    <2>3. clearing' \in [node: Node \cup {Null}, step: {"none", "pairs", "memory"}]
      BY <1>1 DEF NoClear
    <2> QED BY <1>3, <2>1, <2>2, <2>3 DEF Inv, StatsTypeOK, ClearNode, bounds
  <1>8. OneFlight' /\ Idle' /\ NoFile'
    BY <1>1, <1>3 DEF Inv, OneFlight, Idle, NoFile, NoClear
  <1>9. Carried'
    <2>1. \A f \in flights : f.todo \subseteq Key
      BY DEF Inv, StatsTypeOK
    <2>2. \A f \in flights : f.todo \subseteq InFlight
      BY DEF InFlight
    <2> QED BY <1>1, <1>3, <1>5, <2>1, <2>2 DEF Inv, Carried
  <1>10. Removed'
    BY <1>1 DEF Removed
  <1>11. Behind'
    <2>1. ASSUME Serving, NEW k \in Key \ astray
          PROVE  table[k] <= stats'[k]
      <3>1. table[k] <= stats[k] /\ table[k] \in Nat
        BY <1>4, <2>1 DEF Inv, Behind
      <3>2. k \in Clearing => table[k] = 0
        BY <1>6
      <3> QED BY <1>5, <3>1, <3>2
    <2> QED BY <1>3, <2>1 DEF Behind
  <1>12. UnsavedIsPending'
    BY <1>1, <1>3, <1>5, <1>6 DEF Inv, UnsavedIsPending
  <1> QED BY <1>7, <1>8, <1>9, <1>10, <1>11, <1>12 DEF Inv

\* What a rename makes of a row: one that is about neither path stays, and one
\* that is there keeps its changes or goes.
LEMMA MigratedRows ==
    ASSUME StatsTypeOK, NEW a \in Node, NEW b \in Node
    PROVE  /\ Migrated(a, b) \in [Key -> Nat]
           /\ \A k \in Key \ (About(a) \cup About(b)) : Migrated(a, b)[k] = table[k]
           /\ \A k \in Key : Migrated(a, b)[k] < table[k] => Migrated(a, b)[k] = 0
  <1> DEFINE movers(k) == {m \in About(a) : Renamed(m, a, b) = k /\ table[m] > 0}
             row(k) == IF k \in About(a) THEN 0
                       ELSE IF table[k] > 0 \/ movers(k) = {} THEN table[k]
                       ELSE table[CHOOSE m \in movers(k) : TRUE]
  <1>1. Migrated(a, b) = [k \in Key |-> row(k)]
    BY DEF Migrated
  <1>2. table \in [Key -> Nat]
    BY DEF StatsTypeOK
  <1>3. \A k : movers(k) \subseteq Key
    BY AboutTyped
  <1>4. \A k : movers(k) # {} => (CHOOSE m \in movers(k) : TRUE) \in movers(k)
    OBVIOUS
  <1>5. \A m \in About(a) : Renamed(m, a, b) \in About(b) \cup About(a)
    <2>1. ASSUME NEW m \in About(a)
          PROVE  Renamed(m, a, b) \in About(b) \cup About(a)
      <3>1. CASE m = a
        BY <3>1 DEF Renamed, About
      <3>2. CASE m # a
        <4>1. m \in Pair /\ m \notin Node
          BY <3>2, StatsAssumption DEF About
        <4>2. m = <<m[1], m[2]>> /\ m[1] \in Node \cup Owner /\ m[2] \in Node /\ a \in {m[1], m[2]}
          BY <3>2, <4>1 DEF About, Pair
        <4> QED BY <4>1, <4>2 DEF Renamed, About, Pair
      <3> QED BY <3>1, <3>2
    <2> QED BY <2>1
  <1> HIDE DEF movers
  <1>6. \A k \in Key : row(k) \in Nat
    BY <1>2, <1>3, <1>4
  <1>7. Migrated(a, b) \in [Key -> Nat] /\ \A k \in Key : Migrated(a, b)[k] = row(k)
    BY <1>1, <1>6
  <1>8. \A k \in Key \ (About(a) \cup About(b)) : movers(k) = {}
    BY <1>5 DEF movers
  <1>9. \A k \in Key \ (About(a) \cup About(b)) : row(k) = table[k]
    BY <1>8
  <1>10. \A k \in Key : row(k) < table[k] => row(k) = 0
    <2>1. ASSUME NEW k \in Key, row(k) < table[k]
          PROVE  row(k) = 0
      <3>1. table[k] > 0
        BY <1>2, <1>6, <2>1
      <3>2. k \notin About(a) => row(k) = table[k]
        BY <3>1
      <3> QED BY <1>2, <2>1, <3>2
    <2> QED BY <2>1
  <1> QED BY <1>7, <1>9, <1>10

LEMMA RenameKeeps ==
    ASSUME Inv, NEW a \in Node, NEW b \in Node, Rename(a, b)
    PROVE  Inv'
  <1>1. /\ stats' = stats /\ dirty' = dirty /\ flights' = flights /\ InFlight' = InFlight
        /\ clearing' = clearing /\ Clearing' = Clearing
        /\ server' = server /\ Serving' = Serving /\ present' = present /\ present
        /\ table' = Migrated(a, b) /\ astray' = astray \cup About(a) \cup About(b)
    BY DEF Rename, memory, Serving, InFlight, Clearing
  <1>2. /\ table' \in [Key -> Nat]
        /\ \A k \in Key \ (About(a) \cup About(b)) : table'[k] = table[k]
    BY <1>1, MigratedRows DEF Inv
  <1>3. \A k \in Key \ astray' : table'[k] = table[k] /\ k \notin astray
    BY <1>1, <1>2
  <1>4. Clearing \subseteq Key
    BY ClearingTyped DEF Inv
  <1>5. StatsTypeOK'
    <2>1. accidents' \in Nat
      BY DEF Inv, StatsTypeOK, Rename, Accident
    <2>2. astray' \subseteq Key
      BY <1>1, AboutTyped DEF Inv, StatsTypeOK
    <2> QED BY <1>1, <1>2, <2>1, <2>2 DEF Inv, StatsTypeOK, Rename, memory
  <1>6. OneFlight' /\ Idle' /\ NoFile'
    BY <1>1 DEF Inv, OneFlight, Idle, NoFile, NoClear
  <1>7. Carried'
    <2>1. \A f \in flights : f.todo \subseteq Key
      BY DEF Inv, StatsTypeOK
    <2> QED BY <1>1, <1>3, <2>1 DEF Inv, Carried
  <1>8. Removed'
    BY <1>1, <1>3, <1>4 DEF Inv, Removed
  <1>9. Behind'
    BY <1>1, <1>3 DEF Inv, Behind
  <1>10. UnsavedIsPending'
    BY <1>1, <1>3 DEF Inv, UnsavedIsPending
  <1> QED BY <1>5, <1>6, <1>7, <1>8, <1>9, <1>10 DEF Inv

LEMMA CreateDatabaseKeeps ==
    ASSUME Inv, CreateDatabase
    PROVE  Inv'
  <1>1. /\ UNCHANGED <<memory, server, table, clearing, astray, bounds>> /\ present'
        /\ InFlight' = InFlight /\ Clearing' = Clearing /\ Serving' = Serving
    BY DEF CreateDatabase, memory, InFlight, Clearing, Serving
  <1>2. StatsTypeOK'
    BY <1>1 DEF Inv, StatsTypeOK, memory, bounds, CreateDatabase
  <1>3. OneFlight' /\ Idle' /\ NoFile'
    BY <1>1 DEF Inv, OneFlight, Idle, NoFile, NoClear, memory
  <1>4. Carried'
    BY <1>1 DEF Inv, Carried, memory
  <1>5. Removed' /\ Behind' /\ UnsavedIsPending'
    BY <1>1 DEF Inv, Removed, Behind, UnsavedIsPending, memory
  <1> QED BY <1>2, <1>3, <1>4, <1>5 DEF Inv

\* Memory without clears and writes.
LEMMA FreshKeeps ==
    ASSUME Inv, Fresh, stats' \in [Key -> Nat], astray' \subseteq Key, table' = table,
           present' = present, server' \in {"up", "closing", "down"}, frames' = frames,
           accidents' \in Nat,
           Serving' => \A k \in Key : stats'[k] = table[k] \/ k \in astray'
    PROVE  Inv'
  <1>1. /\ dirty' = {} /\ flights' = {} /\ clearing' = NoClear
        /\ InFlight' = {} /\ Clearing' = {}
    BY DEF Fresh, InFlight, Clearing, NoClear
  <1>2. table \in [Key -> Nat]
    BY DEF Inv, StatsTypeOK
  <1>3. StatsTypeOK'
    <2>1. clearing' \in [node: Node \cup {Null}, step: {"none", "pairs", "memory"}]
      BY <1>1 DEF NoClear
    <2>2. /\ waiting' = <<>> /\ stickySeen' = <<>> /\ flushTimer' = FALSE
          /\ lastUnit' \in [Owner -> Node \cup {Null}]
      BY DEF Fresh, NoUnit
    <2>3. waiting' \in Seq({"timer", "close"}) /\ stickySeen' \in Seq(Node \X Owner)
      BY <2>2
    <2> QED BY <1>1, <1>2, <2>1, <2>2, <2>3 DEF Inv, StatsTypeOK
  <1>4. OneFlight' /\ Idle' /\ NoFile' /\ Carried' /\ Removed'
    BY <1>1 DEF Inv, OneFlight, Idle, NoFile, Carried, Removed, NoRows, NoClear
  <1>5. Behind'
    BY <1>2 DEF Behind
  <1>6. UnsavedIsPending'
    BY DEF UnsavedIsPending
  <1> QED BY <1>3, <1>4, <1>5, <1>6 DEF Inv

LEMMA DownKeeps ==
    ASSUME Inv, Down, accidents' \in Nat
    PROVE  Inv'
  <1>1. stats' \in [Key -> Nat] /\ astray' \subseteq Key /\ ~Serving'
    BY DEF Down, NoRows, Serving
  <1> QED BY <1>1, FreshKeeps DEF Down, disk

LEMMA BootKeeps ==
    ASSUME Inv, Boot
    PROVE  Inv'
  <1>1. table \in [Key -> Nat] /\ accidents \in Nat /\ (~present => table = NoRows)
    BY DEF Inv, StatsTypeOK, NoFile
  <1>2. CASE Hydrate(IF present THEN table ELSE NoRows) /\ UNCHANGED accidents
    <2>1. Hydrate(table)
      BY <1>1, <1>2
    <2>2. PICK room \in SUBSET Pairs(table) :
              /\ stats' = [k \in Key |-> IF k \in Node \cup room THEN table[k] ELSE 0]
              /\ astray' = Pairs(table) \ room
      BY <2>1 DEF Hydrate
    <2>3. stats' \in [Key -> Nat] /\ astray' \subseteq Key
      BY <1>1, <2>2 DEF Pairs, Key
    <2>4. ASSUME NEW k \in Key
          PROVE  stats'[k] = table[k] \/ k \in astray'
      <3>1. CASE k \in Node \cup room
        BY <2>2, <3>1
      <3>2. CASE k \notin Node \cup room
        <4>1. k \in Pair /\ stats'[k] = 0 /\ table[k] \in Nat
          BY <1>1, <2>2, <3>2 DEF Key
        <4> QED BY <2>2, <3>2, <4>1 DEF Pairs
      <3> QED BY <3>1, <3>2
    <2> QED BY <1>1, <1>2, <2>3, <2>4, FreshKeeps DEF Boot, disk
  <1>3. CASE present /\ Accident /\ stats' = NoRows /\ astray' = {k \in Key : table[k] > 0}
    <2>1. accidents' \in Nat
      BY <1>1, <1>3 DEF Accident
    <2>2. stats' \in [Key -> Nat] /\ astray' \subseteq Key
      BY <1>3 DEF NoRows
    <2>3. \A k \in Key : stats'[k] = table[k] \/ k \in astray'
      BY <1>1, <1>3 DEF NoRows
    <2> QED BY <2>1, <2>2, <2>3, FreshKeeps DEF Boot, disk
  <1> QED BY <1>2, <1>3 DEF Boot

-----------------------------------------------------------------------------
(***************************************************************************)
(* The invariant, and the theorems.                                        *)
(***************************************************************************)
LEMMA InitInv == Init => Inv
  <1> SUFFICES ASSUME Init PROVE Inv
    OBVIOUS
  <1>1. Clearing = {} /\ InFlight = {} /\ clearing = NoClear
    BY DEF Init, Clearing, InFlight, NoClear
  <1>2. StatsTypeOK
    <2>1. clearing \in [node: Node \cup {Null}, step: {"none", "pairs", "memory"}]
      BY <1>1 DEF NoClear
    <2>2. lastUnit \in [Owner -> Node \cup {Null}] /\ NoRows \in [Key -> Nat]
      BY DEF Init, NoUnit, NoRows
    <2>3. <<>> \in Seq({"timer", "close"}) /\ <<>> \in Seq(Node \X Owner)
      OBVIOUS
    <2> QED BY <2>1, <2>2, <2>3 DEF StatsTypeOK, Init
  <1> QED BY <1>1, <1>2 DEF Init, Inv, OneFlight, Idle, Carried, NoFile, Removed,
             Behind, UnsavedIsPending, NoRows

LEMMA StepInv == Inv /\ [Next]_vars => Inv'
  <1> SUFFICES ASSUME Inv, [Next]_vars PROVE Inv'
    OBVIOUS
  <1>1. ASSUME UNCHANGED vars PROVE Inv'
    BY <1>1 DEF Inv, vars, memory, disk, bounds, StatsTypeOK, OneFlight, Idle, Carried,
                NoFile, Removed, Behind, UnsavedIsPending, Clearing, InFlight, Serving
  <1>2. ASSUME Frame PROVE Inv'
    BY <1>2, RecordKeeps, SpawnKeeps DEF Frame
  <1>3. ASSUME TimerFires PROVE Inv'
    <2>1. Serving' /\ server' \in {"up", "closing", "down"} /\ accidents' \in Nat
          /\ UNCHANGED <<disk, clearing, astray, frames>>
      BY <1>3 DEF TimerFires, bounds, Serving, Inv, StatsTypeOK
    <2> QED BY <1>3, <2>1, FlushKeeps DEF TimerFires
  <1>4. ASSUME NEW f \in flights, Sink(f) \/ Fail(f) PROVE Inv'
    BY <1>4, WriteKeeps, SkipKeeps, SettleKeeps, FailKeeps DEF Sink
  <1>5. ASSUME Request PROVE Inv'
    BY <1>5, ClearKeeps, ClearPairsKeeps, ClearFailsKeeps, ClearNodeKeeps DEF Request
  <1>6. ASSUME Others PROVE Inv'
    BY <1>6, CreateDatabaseKeeps, RenameKeeps DEF Others
  <1>7. ASSUME Close PROVE Inv'
    <2>1. Serving /\ Serving' /\ server' \in {"up", "closing", "down"}
      BY <1>7 DEF Close, Serving
    <2>2. accidents' \in Nat
      BY <1>7 DEF Close, Accident, Inv, StatsTypeOK
    <2> QED BY <1>7, <2>1, <2>2, FlushKeeps DEF Close
  <1>8. ASSUME Exit \/ Crash PROVE Inv'
    <2>1. accidents' \in Nat
      BY <1>8 DEF Exit, Crash, Accident, Inv, StatsTypeOK
    <2> QED BY <1>8, <2>1, DownKeeps DEF Exit, Crash
  <1>9. ASSUME Boot PROVE Inv'
    BY <1>9, BootKeeps
  <1> QED BY <1>1, <1>2, <1>3, <1>4, <1>5, <1>6, <1>7, <1>8, <1>9 DEF Next, Lifetime

\* What the service keeps in memory, on its way and on disk is well formed.
THEOREM StatsTyped == Spec => []StatsTypeOK
  <1>1. Inv => StatsTypeOK
    BY DEF Inv
  <1> QED BY InitInv, StepInv, <1>1, PTL DEF Spec

\* No change to the statistics is forgotten: whatever differs from the table is
\* dirty or in a write under way, through failures, clears and closes, but for
\* the rows that a clear, a rename or a missing file has its hand in.
THEOREM NothingIsForgotten == Spec => []UnsavedIsPending
  <1>1. Inv => UnsavedIsPending
    BY DEF Inv
  <1> QED BY InitInv, StepInv, <1>1, PTL DEF Spec

\* A later write never gives way to an earlier one: only a write lowers a row
\* that is not deleted, and what it carries is no older than the table.
THEOREM WritesGoForward == Spec => NeverRegresses
  <1>1. ASSUME Inv, [Next]_vars
        PROVE  [\A k \in Key \ astray : table'[k] < table[k] => table'[k] = 0]_vars
    <2>1. table \in [Key -> Nat]
      BY <1>1 DEF Inv, StatsTypeOK
    <2>2. SUFFICES ASSUME table' # table
                   PROVE  \A k \in Key \ astray : table'[k] < table[k] => table'[k] = 0
      BY <2>1
    <2>3. CASE \E f \in flights, k \in Key : Write(f, k)
      <3>1. PICK f \in flights, k \in Key : Write(f, k)
        BY <2>3
      <3>2. f \in FlightType
        BY <1>1 DEF Inv, StatsTypeOK, FlightType
      <3>3. k \in f.todo /\ f.rows[k] \in Nat
        BY <3>1, <3>2, PhaseTyped DEF Write, FlightType
      <3>4. k \notin astray => table[k] <= f.rows[k]
        BY <1>1, <3>3 DEF Inv, Carried
      <3> QED BY <2>1, <3>1, <3>3, <3>4 DEF Write
    <2>4. CASE \E n \in Node : Clear(n)
      BY <2>1, <2>4 DEF Clear
    <2>5. CASE ClearPairs
      BY <2>1, <2>5 DEF ClearPairs
    <2>6. CASE \E a, b \in Node : Rename(a, b)
      <3>1. PICK a \in Node, b \in Node : Rename(a, b)
        BY <2>6
      <3>2. table' = Migrated(a, b) /\ StatsTypeOK
        BY <1>1, <3>1 DEF Inv, Rename
      <3>3. \A k \in Key : Migrated(a, b)[k] < table[k] => Migrated(a, b)[k] = 0
        BY <3>2, MigratedRows
      <3> QED BY <3>2, <3>3
    <2> QED BY <1>1, <2>2, <2>3, <2>4, <2>5, <2>6, ZenonT(60)
         DEF Next, Frame, Record, Spawn, Change, TimerFires, Sink, Skip, Fail, Past, Settle,
             Request, ClearFails, ClearNode, Others, CreateDatabase, Lifetime, Close, Exit, Crash,
             Down, Boot, disk, vars
  <1> QED BY InitInv, StepInv, <1>1, PTL DEF Spec, NeverRegresses
=============================================================================
