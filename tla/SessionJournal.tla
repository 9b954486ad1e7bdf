--------------------------- MODULE SessionJournal ---------------------------
(***************************************************************************)
(* The session journal, src/src/server/activity-journal.ts: while the      *)
(* operator records, the frames that agents' hooks report are grouped into *)
(* one session per conversation and kept in one file each.                 *)
(*                                                                         *)
(* The hook processes of a parent and of its children race, so the frames  *)
(* of a tree of owners arrive in any order.  A frame is its number, which  *)
(* is also the millisecond it came in: no two come in the same one.        *)
(* Payloads, the operations log, capture levels, the cap on the frames of  *)
(* a session and the bound on the bytes of the files are left out; a write *)
(* fails when the project directory is missing, an unlink never does.      *)
(***************************************************************************)
EXTENDS Integers, FiniteSets, Sequences

CONSTANTS
    Main,         \* owners that are conversations
    Prefixed,     \* those whose name carries the session id, `main:<id>'
    Agent,        \* owners that some owner spawned
    Parent,       \* agent -> the owner that spawned it
    MaxFiles,     \* activity.journal.maxFiles
    MaxFrames,    \* bound on the frames
    MaxGestures,  \* bound on what the operator does and on what breaks
    MaxEvents     \* bound on both together

Owner   == Main \cup Agent
Nobody  == "nobody"      \* a frame without an owner
Bucket  == "bucket"      \* UNATTRIBUTED_ROOT
NoName  == <<>>
NoSession == "no session"

ASSUME JournalAssumption ==
    /\ Prefixed \subseteq Main /\ Main \cap Agent = {}
    /\ {Nobody, Bucket} \cap Owner = {}
    /\ Parent \in [Agent -> Owner]
    /\ IsFiniteSet(Agent)
    /\ \E depth \in [Owner -> 0..Cardinality(Agent)] :    \* nobody spawns an ancestor
          \A a \in Agent : depth[Parent[a]] < depth[a]
    /\ MaxFiles \in Nat \ {0}
    /\ MaxFrames \in Nat /\ MaxGestures \in Nat /\ MaxEvents \in Nat

VARIABLES
    journal,     \* sessions, closedSessions and ownerToRoot
    recording,   \* recordingActive
    closed,      \* after shutdown()
    timer,       \* flushTimer is armed
    files,       \* the sessions directory: name -> file
    scope,       \* the .skill-map directory is there
    stamped,     \* whether the provider puts the session id on its frames
    frames,      \* frames so far
    gestures,    \* gestures and failures so far
    tape,        \* history: frame of this recording -> its owner
    claimed,     \* history: the agents claimed in this recording
    strayed,     \* history: those that spawned like a conversation since
    forgot,      \* history: this recording lost a session it could reopen
    failed,      \* history: some write failed
    pruned       \* history: names the retention sweep took

vars == <<journal, recording, closed, timer, files, scope, stamped, frames,
          gestures, tape, claimed, strayed, forgot, failed, pruned>>

EmptyJournal == [open |-> <<>>, parked |-> <<>>, owners |-> <<>>]

\* The conversation an owner belongs to, and its runtime's session id.
TrueRoot[o \in Owner] == IF o \in Main THEN o ELSE TrueRoot[Parent[o]]

-----------------------------------------------------------------------------
(***************************************************************************)
(* Maps in insertion order.                                                *)
(***************************************************************************)
Has(q, r)     == \E i \in DOMAIN q : q[i].root = r
At(q, r)      == CHOOSE i \in DOMAIN q : q[i].root = r
Of(q, r)      == q[At(q, r)]
Without(q, r) == IF ~Has(q, r) THEN q
                 ELSE [i \in 1..Len(q) - 1 |-> IF i < At(q, r) THEN q[i] ELSE q[i + 1]]
Put(q, s)     == [i \in DOMAIN q |-> IF q[i].root = s.root THEN s ELSE q[i]]
Sessions(j)   == {j.open[i] : i \in DOMAIN j.open}
                   \cup {j.parked[i] : i \in DOMAIN j.parked}

\* ownerToRoot.get(o) ?? o
RootOf(j, o) == IF o \in DOMAIN j.owners THEN j.owners[o] ELSE o

-----------------------------------------------------------------------------
(***************************************************************************)
(* Files.                                                                  *)
(***************************************************************************)

\* Mutant: the name is computed again at every write.
NameOfAnew(s) == <<s.start, IF s.sid # NoSession THEN s.sid ELSE s.root>>

\* fileNameFor, computed at the first write and kept.
NameOf(s) == IF s.name # NoName THEN s.name
             ELSE <<s.start, IF s.sid # NoSession THEN s.sid ELSE s.root>>

\* writeSession: what it does to the session and to the directory.
Saved(s) == IF scope THEN [s EXCEPT !.name = NameOf(s), !.dirty = FALSE] ELSE s
Written(fs, ss, ended) ==
    IF ~scope THEN fs
    ELSE [n \in DOMAIN fs \cup {NameOf(s) : s \in ss} |->
            IF \E s \in ss : NameOf(s) = n
            THEN [frames |-> (CHOOSE s \in ss : NameOf(s) = n).frames,
                  ended |-> ended, ours |-> TRUE]
            ELSE fs[n]]

Keeping(fs, names) == [n \in DOMAIN fs \cap names |-> fs[n]]

\* prune: the newest maxFiles by name stay.
Newest(fs) == {n \in DOMAIN fs :
                  Cardinality({m \in DOMAIN fs : m[1] > n[1]}) < MaxFiles}

Store(fs, sweep) ==
    /\ files' = IF sweep THEN Keeping(fs, Newest(fs)) ELSE fs
    /\ pruned' = IF sweep THEN pruned \cup (DOMAIN fs \ Newest(fs)) ELSE pruned

-----------------------------------------------------------------------------
(***************************************************************************)
(* Sessions.                                                               *)
(***************************************************************************)
NewSession(r, t) ==
    [root |-> r, sid |-> IF r \in Prefixed THEN r ELSE NoSession, start |-> t,
     last |-> t, frames |-> {}, name |-> NoName, dirty |-> FALSE]

\* sessionFor: the open session of a root, one reopened, or a new one.
SessionFor(j, r, t) ==
    IF Has(j.open, r) THEN j
    ELSE IF Has(j.parked, r)
    THEN [j EXCEPT !.parked = Without(@, r),
                   !.open = Append(@, [Of(j.parked, r) EXCEPT !.dirty = TRUE])]
    ELSE [j EXCEPT !.open = Append(@, NewSession(r, t))]

\* append.
Land(j, r, t) ==
    LET s == Of(j.open, r)
    IN [j EXCEPT !.open = Put(@, [s EXCEPT !.last = t, !.dirty = TRUE,
                                           !.frames = @ \cup {t}])]

\* The session learns its id from a frame that carries one.
Named(j, r, sid) ==
    LET s == Of(j.open, r)
    IN IF s.sid # NoSession THEN j
       ELSE [j EXCEPT !.open = Put(@, [s EXCEPT !.sid = sid])]

\* retainForReopen: the oldest beyond maxFiles is forgotten, owners and all.
Retain(j, s) ==
    LET queue == Append(j.parked, s)
        oldest == Head(queue).root
    IN IF Len(queue) <= MaxFiles THEN [j EXCEPT !.parked = queue]
       ELSE [j EXCEPT !.parked = Tail(queue),
                      !.owners = [o \in {p \in DOMAIN @ : @[p] # oldest} |-> @[o]]]

\* finalize, but for its effect on the directory.
Finalized(j, r) ==
    LET s == Of(j.open, r)
    IN Retain([j EXCEPT !.open = Without(@, r)], Saved(s))

Min2(a, b) == IF a < b THEN a ELSE b
Max2(a, b) == IF a < b THEN b ELSE a

\* mergeOrphanInto.
Merge(into, orphan) ==
    [into EXCEPT !.frames = @ \cup orphan.frames,
                 !.start = Min2(@, orphan.start),
                 !.last = Max2(@, orphan.last),
                 !.sid = IF @ = NoSession THEN orphan.sid ELSE @,
                 !.dirty = TRUE]

\* adoptMisrootedOwner: the session a late claim proves to be r's, open or
\* parked.
Orphan(j, o) == IF Has(j.open, o) THEN Of(j.open, o) ELSE Of(j.parked, o)
Misrooted(j, o, r) == o # r /\ (Has(j.open, o) \/ Has(j.parked, o))

\* Mutant: the owners attributed to the orphan stay with it.
AdoptAlone(j, o, r) ==
    IF ~Misrooted(j, o, r) THEN j
    ELSE [open   |-> Put(Without(j.open, o), Merge(Of(j.open, r), Orphan(j, o))),
          parked |-> Without(j.parked, o),
          owners |-> j.owners]

Adopt(j, o, r) ==
    IF ~Misrooted(j, o, r) THEN j
    ELSE [open   |-> Put(Without(j.open, o), Merge(Of(j.open, r), Orphan(j, o))),
          parked |-> Without(j.parked, o),
          owners |-> [p \in DOMAIN j.owners |->
                         IF j.owners[p] = o THEN r ELSE j.owners[p]]]

-----------------------------------------------------------------------------
(***************************************************************************)
(* Frames.                                                                 *)
(***************************************************************************)
Capturing == recording /\ ~closed

\* Mutant: only the first frame of a session asks for a flush.
FrameUnscheduled(o) ==
    /\ Capturing
    /\ frames < MaxFrames /\ frames + gestures < MaxEvents
    /\ frames' = frames + 1
    /\ tape' = [i \in DOMAIN tape \cup {frames'} |->
                   IF i = frames' THEN o ELSE tape[i]]
    /\ timer' = (timer \/ tape = <<>>)
    /\ UNCHANGED <<recording, closed, scope, stamped, gestures>>

Frame(o) ==
    /\ Capturing
    /\ frames < MaxFrames /\ frames + gestures < MaxEvents
    /\ frames' = frames + 1
    /\ tape' = [i \in DOMAIN tape \cup {frames'} |->
                   IF i = frames' THEN o ELSE tape[i]]
    /\ timer' = TRUE    \* scheduleFlush
    /\ UNCHANGED <<recording, closed, scope, stamped, gestures>>

\* What a frame that ends a session adds to its recording: finalize.
Ends(j, r) ==
    LET fs == Written(files, {Of(j.open, r)}, TRUE)
    IN /\ journal' = Finalized(j, r)
       /\ Store(fs, TRUE)
       /\ forgot' = (forgot \/ Len(j.parked) = MaxFiles)
       /\ failed' = (failed \/ ~scope)

Lands(j) ==
    /\ journal' = j
    /\ UNCHANGED <<files, pruned, forgot, failed>>

\* recordActivity of an owner; terminal is an ownerScope end.
RecordActivity(o, terminal) ==
    /\ Frame(o)
    /\ LET r == RootOf(journal, o)
           opened == SessionFor(journal, r, frames')
           j == Land(IF stamped THEN Named(opened, r, TrueRoot[o]) ELSE opened,
                     r, frames')
       IN IF terminal /\ Has(j.open, o) THEN Ends(j, o) ELSE Lands(j)
    /\ UNCHANGED <<claimed, strayed>>

\* attributeOwnerless and findBySessionId: the session the id names, the most
\* recent one, or the bucket.
FirstNamed(q, sid) ==
    LET named == {i \in DOMAIN q : q[i].sid = sid}
    IN IF named = {} THEN Nobody
       ELSE q[CHOOSE i \in named : \A k \in named : i <= k].root
Latest(q) ==
    LET known == {i \in DOMAIN q : q[i].root # Bucket}
    IN IF known = {} THEN Bucket
       ELSE q[CHOOSE i \in known : \A k \in known : q[k].last <= q[i].last].root
Ownerless(j, sid) ==
    IF FirstNamed(j.open, sid) # Nobody THEN FirstNamed(j.open, sid)
    ELSE IF FirstNamed(j.parked, sid) # Nobody THEN FirstNamed(j.parked, sid)
    ELSE Latest(j.open)

\* recordActivity without an owner: a sessionScope end, or a stray frame.
RecordOwnerless(sid) ==
    /\ Frame(Nobody)
    /\ LET r == Ownerless(journal, sid)
           j == Land(SessionFor(journal, r, frames'), r, frames')
           target == FirstNamed(j.open, sid)
       IN IF target # Nobody THEN Ends(j, target) ELSE Lands(j)
    /\ UNCHANGED <<claimed, strayed>>

\* A spawn without a parentNodePath is taken for one of a session context: of
\* a conversation, but also of an agent that runs no scanned node.
SpawnRoot(j, p, anchored) == IF anchored THEN RootOf(j, p) ELSE p

\* recordSpawn, with the childOwner claim once the child is known.
RecordSpawn(p, child, anchored) ==
    /\ Frame(p)
    /\ LET r == SpawnRoot(journal, p, anchored)
           opened == SessionFor(journal, r, frames')
           claim == [opened EXCEPT !.owners =
                        [o \in DOMAIN @ \cup child |->
                            IF o \in child THEN r ELSE @[o]]]
           Adopted == {o \in child : Misrooted(claim, o, r)}
           j == IF child = {} THEN opened
                ELSE Adopt(claim, CHOOSE o \in child : TRUE, r)
       IN /\ journal' = Land(j, r, frames')
          /\ files' = Keeping(files, DOMAIN files
                                 \ {Orphan(claim, o).name : o \in Adopted})
    /\ claimed' = claimed \cup child
    /\ strayed' = (strayed \cup {o \in claimed : o = p /\ ~anchored}) \ child
    /\ UNCHANGED <<forgot, failed, pruned>>

-----------------------------------------------------------------------------
(***************************************************************************)
(* Flushing.                                                               *)
(***************************************************************************)

\* flushDirty: the open sessions only.
Flushed(j) ==
    [j EXCEPT !.open = [i \in DOMAIN @ |->
                           IF @[i].dirty THEN Saved(@[i]) ELSE @[i]]]
Dirty(j) == {j.open[i] : i \in {k \in DOMAIN j.open : j.open[k].dirty}}

FlushDirty ==
    /\ timer' = FALSE
    /\ journal' = Flushed(journal)
    /\ Store(Written(files, Dirty(journal), FALSE), FALSE)
    /\ failed' = (failed \/ (~scope /\ Dirty(journal) # {}))
    /\ UNCHANGED <<recording, closed, scope, stamped, frames, tape, claimed,
                   strayed, forgot>>

FlushTimer == timer /\ ~closed /\ FlushDirty /\ UNCHANGED gestures

\* flushNow, for GET /api/activity/sessions.
FlushNow == ~closed /\ (timer \/ Dirty(journal) # {}) /\ FlushDirty /\ UNCHANGED gestures

-----------------------------------------------------------------------------
(***************************************************************************)
(* The operator, and what breaks.                                          *)
(***************************************************************************)
Gesture ==
    /\ gestures < MaxGestures /\ frames + gestures < MaxEvents
    /\ gestures' = gestures + 1

\* A recording starts or ends, and its history with it.
Forget ==
    /\ tape' = <<>> /\ claimed' = {} /\ strayed' = {} /\ forgot' = FALSE

StartRecording ==
    /\ Gesture
    /\ ~closed /\ ~recording
    /\ recording' = TRUE
    /\ UNCHANGED <<journal, closed, timer, files, scope, stamped, frames, tape,
                   claimed, strayed, forgot, failed, pruned>>

OpenOnes == {journal.open[i] : i \in DOMAIN journal.open}

\* Mutant: the recording stops without closing what is open.
StopAbruptly ==
    /\ Gesture
    /\ recording
    /\ recording' = FALSE
    /\ journal' = EmptyJournal
    /\ Forget
    /\ UNCHANGED <<closed, timer, files, pruned, failed, scope, stamped, frames>>

\* setRecording(false): every open session is finalized, then one prune.
StopRecording ==
    /\ Gesture
    /\ recording /\ ~closed
    /\ recording' = FALSE
    /\ journal' = EmptyJournal
    /\ Store(Written(files, OpenOnes, TRUE), TRUE)
    /\ failed' = (failed \/ (~scope /\ OpenOnes # {}))
    /\ Forget
    /\ UNCHANGED <<closed, timer, scope, stamped, frames>>

\* clearAll, at any time: the buffers and every file.
ClearAll ==
    /\ Gesture
    /\ journal' = EmptyJournal
    /\ files' = <<>>
    /\ Forget
    /\ UNCHANGED <<recording, closed, timer, scope, stamped, frames, failed, pruned>>

\* The journal after each turn of the loop that finalizes what is open.
Closing(j) ==
    LET left[i \in 0..Len(j.open)] ==
            IF i = 0 THEN j ELSE Finalized(left[i - 1], j.open[i].root)
    IN left

\* shutdown: the open sessions are finalized, which parks them.
Shutdown ==
    /\ Gesture
    /\ ~closed
    /\ closed' = TRUE
    /\ timer' = FALSE
    /\ journal' = Closing(journal)[Len(journal.open)]
    /\ Store(Written(files, OpenOnes, TRUE), TRUE)
    /\ failed' = (failed \/ (~scope /\ OpenOnes # {}))
    /\ Forget
    /\ UNCHANGED <<recording, scope, stamped, frames>>

\* The process died, or has shut down, and another one boots: the constructor.
Restart ==
    /\ Gesture
    /\ journal' = EmptyJournal
    /\ recording' = FALSE /\ closed' = FALSE /\ timer' = FALSE
    /\ Store([n \in DOMAIN files |-> [files[n] EXCEPT !.ours = FALSE]], TRUE)
    /\ Forget
    /\ UNCHANGED <<scope, stamped, frames, failed>>

\* The project directory goes, with the journal in it, or comes.
MoveScope ==
    /\ Gesture
    /\ scope' = ~scope
    /\ files' = IF scope THEN <<>> ELSE files
    /\ pruned' = pruned \cup DOMAIN files
    /\ UNCHANGED <<journal, recording, closed, timer, stamped, frames, tape,
                   claimed, strayed, forgot, failed>>

Init ==
    /\ journal = EmptyJournal
    /\ recording = FALSE /\ closed = FALSE /\ timer = FALSE
    /\ files = <<>>
    /\ scope = TRUE
    /\ stamped \in BOOLEAN
    /\ frames = 0 /\ gestures = 0
    /\ tape = <<>> /\ claimed = {} /\ strayed = {} /\ forgot = FALSE
    /\ failed = FALSE /\ pruned = {}

Next ==
    \/ \E o \in Owner, terminal \in BOOLEAN : RecordActivity(o, terminal)
    \/ \E sid \in Main \cup {Nobody} : RecordOwnerless(sid)
    \/ \E anchored \in BOOLEAN :
          \/ \E p \in Owner : RecordSpawn(p, {}, anchored)
          \/ \E o \in Agent : RecordSpawn(Parent[o], {o}, anchored)
    \/ FlushTimer \/ FlushNow
    \/ StartRecording \/ StopRecording \/ ClearAll
    \/ Shutdown \/ Restart \/ MoveScope

\* The event loop runs a timer that is due.
FairSpec == Init /\ [][Next]_vars /\ WF_vars(FlushTimer)

-----------------------------------------------------------------------------
(***************************************************************************)
(* Properties.                                                             *)
(***************************************************************************)
Session == [root : Owner \cup {Bucket}, sid : Main \cup {NoSession},
            start : 1..MaxFrames, last : 1..MaxFrames,
            frames : (SUBSET (1..MaxFrames)) \ {{}},
            name : {NoName} \cup (1..MaxFrames) \X (Owner \cup {Bucket}),
            dirty : BOOLEAN]

\* Shape of the state; no root is both open and parked, and no file has two
\* sessions writing to it.
JournalTypeOK ==
    /\ \A s \in Sessions(journal) : s \in Session /\ s.start <= s.last
    /\ \A s, t \in Sessions(journal) : s.root = t.root => s = t
    /\ \A s, t \in Sessions(journal) : s.name = t.name /\ s.name # NoName => s = t
    /\ Cardinality(Sessions(journal)) = Len(journal.open) + Len(journal.parked)
    /\ Len(journal.parked) <= MaxFiles
    /\ DOMAIN journal.owners \subseteq Agent
    /\ {recording, closed, timer, scope, stamped, forgot, failed} \subseteq BOOLEAN
    /\ DOMAIN files \subseteq (1..MaxFrames) \X (Owner \cup {Bucket})
    /\ ~scope => files = <<>>
    /\ frames \in 0..MaxFrames /\ gestures \in 0..MaxGestures
    /\ strayed \subseteq claimed /\ claimed \subseteq Agent
    /\ DOMAIN tape \subseteq 1..frames

\* Where an owner's frames may be: under the root the whole tape gives it,
\* claims that came late included, or under an agent on the way up to that
\* root that spawned like a conversation although it was claimed.
Lookback[o \in Owner] ==
    (IF o \in claimed THEN Lookback[Parent[o]] ELSE {o}) \cup ({o} \cap strayed)

\* The streaming fold groups like the fold of the whole tape does, although
\* children may be heard of before their parents claim them: each frame is in
\* one session, and the frame of an owner in that of its root
\* (adoptMisrootedOwner; the client's computeSessionIndex).  A claimed agent
\* whose spawn names no parent node starts a second session, which the
\* client's fold does not do; the next claim of it takes that one back.
GroupsLikeTheTape ==
    ~forgot => \A i \in DOMAIN tape :
        /\ Cardinality({s \in Sessions(journal) : i \in s.frames}) = 1
        /\ tape[i] # Nobody =>
              \E s \in Sessions(journal) : i \in s.frames
                                           /\ s.root \in Lookback[tape[i]]

\* A session with nothing to write is on disk as it is in memory, unless the
\* retention sweep took its file; and no frame is on disk twice, as adoption
\* takes the orphan's file away and a reopened session goes on in its own.
FilesAreTheSessions ==
    /\ \A s \in Sessions(journal) : ~s.dirty =>
          \/ s.name \in pruned
          \/ s.name \in DOMAIN files /\ files[s.name].frames = s.frames
    /\ \A m, n \in DOMAIN files :
          m # n => files[m].frames \cap files[n].frames = {}

\* Nothing stays open behind a recording: once it is stopped, each file this
\* process wrote has its end, if all could be written.
StoppedIsEnded ==
    ~recording /\ ~failed => \A n \in DOMAIN files : files[n].ours => files[n].ended

\* What was captured gets to the disk, or a write has failed.
CapturedIsFlushed == (Dirty(journal) # {}) ~> (Dirty(journal) = {} \/ failed)
=============================================================================
