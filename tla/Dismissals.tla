----------------------------- MODULE Dismissals -----------------------------
(***************************************************************************)
(* What people dismissed, kept in the sidecar of a file: the gated         *)
(* read-merge-write of src/src/kernel/sidecar/store.ts, the requests that  *)
(* edit the two lists of dismissals (routes and tools of the server, verbs *)
(* of the command line), the mirror of the annotations in the node's row,  *)
(* and the scans that write rows and mirror anew, or skip writing them.    *)
(*                                                                         *)
(* One file and its sidecar.  The requests of a server share one event     *)
(* loop; each verb of the command line is a process of its own.  An entry  *)
(* of a list is a value of an analyzer ("issue") or a class of findings    *)
(* ("class"); notes, audit blocks and the order of a list are left out,    *)
(* and so are sidecars that do not parse.                                  *)
(***************************************************************************)
EXTENDS Integers, FiniteSets

CONSTANTS
    Server,       \* requests of the server
    Cli,          \* processes of the command line
    Value,        \* values an analyzer may flag in the file
    Class,        \* classes of findings: an extension and a type
    FinderOf,     \* the extension of a class
    Body,         \* contents of the file
    Flags,        \* what the analyzer flags in a body
    Null,
    MaxRequests,  \* bound on the requests
    MaxAccidents  \* bound on crashes, on edits of the file and of its sidecar

Actor == Server \cup Cli
Item  == [issue |-> Value, class |-> Class]   \* the entries of each list
Keys  == DOMAIN Item
Entry == UNION {{k} \X Item[k] : k \in Keys}

ASSUME DismissalsAssumption ==
    /\ Server \cap Cli = {}
    /\ DOMAIN FinderOf = Class
    /\ Body # {} /\ Flags \in [Body -> SUBSET Value]
    /\ MaxRequests \in Nat /\ MaxAccidents \in Nat

VARIABLES
    body,      \* the body of the file
    file,      \* its sidecar, or Null
    db,        \* the node's row, its mirror of the annotations, its issues
    stored,    \* what result_fingerprint and scan_extractor_runs stand for
    scan,      \* the scan between its walk and its transaction, or Null
    op,        \* actor -> its request
    requests, accidents,   \* bounded counters
    standing,  \* history: entries acknowledged and promised to last
    adrift,    \* history: the mirror may differ from the sidecar
    loose      \* history: values whose row may be back

vars == <<body, file, db, stored, scan, op, requests, accidents,
          standing, adrift, loose>>

-----------------------------------------------------------------------------
(***************************************************************************)
(* The sidecar and its annotations.                                        *)
(***************************************************************************)
\* A list that is empty is not a list that is absent.
Listed(k)   == {Null} \cup SUBSET Item[k]
Annotations == [issue : Listed("issue"), class : Listed("class"), version : Nat]
Sidecar     == [ident : Body, notes : Annotations]

\* Null is none of what it stands in for.
ASSUME NullAssumption ==
    /\ Null \notin Body \cup Keys \cup Sidecar
    /\ \A k \in Keys : \A X \in SUBSET Item[k] : X # Null

NoNotes  == [issue |-> Null, class |-> Null, version |-> 0]
Notes(f) == IF f = Null THEN NoNotes ELSE f.notes

\* existingSuppressions, existingIssueSuppressions
Existing(notes, k) == IF notes[k] = Null THEN {} ELSE notes[k]
Entries(f)         == {e \in Entry : e[2] \in Existing(Notes(f), e[1])}

(***************************************************************************)
(* A request: the list it will write, read when it began, or the version   *)
(* of a bump; the identity it brings for a new sidecar; the merged file    *)
(* before it is written; the annotations it read back.  current and missed *)
(* are history: whether they are those of the sidecar still, and entries   *)
(* recorded next to this request that it may overwrite.                    *)
(***************************************************************************)
Request ==
    [at : {"idle", "lookup", "write", "merged", "refresh", "mirror", "purge"},
     kind : {"none", "dismiss", "restore", "bump"}, key : Keys \cup {Null},
     item : SUBSET (Value \cup Class), list : Nat \cup SUBSET (Value \cup Class),
     ident : Body \cup {Null}, merged : Sidecar \cup {Null},
     view : Annotations, current : BOOLEAN, missed : SUBSET Entry]

Idle == [at |-> "idle", kind |-> "none", key |-> Null, item |-> {}, list |-> {},
         ident |-> Null, merged |-> Null, view |-> NoNotes, current |-> FALSE,
         missed |-> {}]

\* One request of the server runs at a time, until it waits; a file is
\* merged and written without waiting.
Turn(p) == p \in Server => \A q \in Server \ {p} : op[q].at # "merged"

Enter(p, request) ==
    /\ op[p] = Idle /\ requests < MaxRequests
    /\ op' = [op EXCEPT ![p] = request]
    /\ requests' = requests + 1

\* An absent sidecar needs an identity block, which the server looks up.
Begin(p, kind, k, X, list) ==
    Enter(p, [Idle EXCEPT !.at = IF file = Null THEN "lookup" ELSE "write",
                          !.kind = kind, !.key = k, !.item = X, !.list = list])

-----------------------------------------------------------------------------
Dismiss(p, k, x) ==
    /\ Turn(p)
    /\ Begin(p, "dismiss", k, {x}, Existing(Notes(file), k) \cup {x})
    /\ UNCHANGED <<body, file, db, stored, scan, accidents, standing, adrift, loose>>

\* Undismiss, or the lift by a submit of the finder (removeSuppressionEntries):
\* without a match only the mirror heals.
Restore(p, k, X) ==
    LET old == Existing(Notes(file), k)
    IN  /\ Turn(p)
        /\ IF old \cap X = {}
             THEN Enter(p, [Idle EXCEPT !.at = "refresh", !.kind = "restore"])
             ELSE Begin(p, "restore", k, X, old \ X)
        /\ UNCHANGED <<body, file, db, stored, scan, accidents, standing, adrift, loose>>

\* core/node-bump: the next version, from the node's row, unless its sidecar
\* was fresh at the last scan and has a version.
Bump(p) ==
    /\ Turn(p)
    /\ ~ (db.ident = db.body /\ db.notes.version # 0)
    /\ Enter(p, [Idle EXCEPT !.at = "write", !.kind = "bump", !.ident = db.body,
                             !.list = db.notes.version + 1])
    /\ UNCHANGED <<body, file, db, stored, scan, accidents, standing, adrift, loose>>

Lookup(p) ==
    /\ Turn(p) /\ op[p].at = "lookup"
    /\ op' = [op EXCEPT ![p].at = "write", ![p].ident = db.body]
    /\ UNCHANGED <<body, file, db, stored, scan, requests, accidents, standing,
                   adrift, loose>>

\* The consent gate throws before the file is touched.  A submit keeps the
\* entry then, and refreshes the mirror all the same.
Refuse(p) ==
    /\ Turn(p) /\ op[p].at = "write"
    /\ \/ op' = [op EXCEPT ![p] = Idle]
       \/ /\ op[p].kind = "restore" /\ op[p].key = "class"
          /\ op' = [op EXCEPT ![p] = [Idle EXCEPT !.at = "refresh", !.kind = "restore"]]
    /\ UNCHANGED <<body, file, db, stored, scan, requests, accidents, standing,
                   adrift, loose>>

\* Mutant: the annotations of the patch replace those of the file.
PatchedShallow(f, o) ==
    [ident |-> IF o.ident # Null THEN o.ident ELSE f.ident,
     notes |-> [NoNotes EXCEPT ![IF o.kind = "bump" THEN "version" ELSE o.key] = o.list]]

\* deepMerge of the patch into the file as it is now: the list replaces the
\* list, its siblings stay.
Patched(f, o) ==
    [ident |-> IF o.ident # Null THEN o.ident ELSE f.ident,
     notes |-> [Notes(f) EXCEPT ![IF o.kind = "bump" THEN "version" ELSE o.key] = o.list]]

\* applyPatch up to the write; without an identity the result does not validate.
Merge(p) ==
    /\ Turn(p) /\ op[p].at = "write"
    /\ op' = [op EXCEPT ![p] = IF file = Null /\ op[p].ident = Null THEN Idle
                               ELSE [op[p] EXCEPT !.at = "merged",
                                                  !.merged = Patched(file, op[p])]]
    /\ UNCHANGED <<body, file, db, stored, scan, requests, accidents, standing,
                   adrift, loose>>

\* What a save means to the other requests: views they read are old now; who
\* has read the same list, or merged in another process, may overwrite it.
Exposed(q, k) ==
    \/ op[q].at = "merged"
    \/ op[q].key = k /\ op[q].at \in {"lookup", "write"}

Overtaken(q, added, k) ==
    [op[q] EXCEPT !.current = FALSE,
                  !.missed  = IF Exposed(q, k) THEN @ \cup added ELSE @]

Unread == IF scan = Null THEN Null ELSE [scan EXCEPT !.current = FALSE]

\* The write.  A dismissal or a restoration refreshes the mirror next; a bump
\* leaves it to the next scan.
Save(p) ==
    LET o     == op[p]
        own   == {o.key} \X o.item
        added == IF o.kind = "dismiss" THEN own ELSE {}
    IN  /\ Turn(p) /\ o.at = "merged"
        /\ file' = o.merged
        /\ op' = [q \in Actor |->
                    IF q # p THEN Overtaken(q, added, o.key)
                    ELSE IF o.kind = "bump" THEN Idle
                    ELSE [o EXCEPT !.at = "refresh", !.missed = {}]]
        /\ scan' = Unread
        /\ standing' = ((standing \ o.missed) \ own) \cup added
        /\ adrift' = (adrift \/ o.kind = "bump")
        /\ UNCHANGED <<body, db, stored, requests, accidents, loose>>

\* Mutant: a request mirrors what it wrote.
RefreshOwn(p) ==
    /\ Turn(p) /\ op[p].at = "refresh"
    /\ op' = [op EXCEPT ![p].at = "mirror", ![p].current = TRUE,
                        ![p].view = Notes(IF op[p].merged = Null THEN file ELSE op[p].merged)]
    /\ UNCHANGED <<body, file, db, stored, scan, requests, accidents, standing,
                   adrift, loose>>

\* refreshAnnotationsMirror reads the sidecar ...
Refresh(p) ==
    /\ Turn(p) /\ op[p].at = "refresh"
    /\ op' = [op EXCEPT ![p].at = "mirror", ![p].view = Notes(file), ![p].current = TRUE]
    /\ UNCHANGED <<body, file, db, stored, scan, requests, accidents, standing,
                   adrift, loose>>

\* ... and updates the node's row.
Mirror(p) ==
    LET o == op[p]
    IN  /\ Turn(p) /\ o.at = "mirror"
        /\ db' = [db EXCEPT !.notes = o.view]
        /\ op' = [op EXCEPT ![p] = IF o.kind = "dismiss" /\ o.key = "issue"
                                     THEN [o EXCEPT !.at = "purge"] ELSE Idle]
        /\ adrift' = ~o.current
        /\ UNCHANGED <<body, file, stored, scan, requests, accidents, standing, loose>>

\* deleteIssuesForSuppression
Purge(p) ==
    /\ Turn(p) /\ op[p].at = "purge"
    /\ db' = [db EXCEPT !.issues = @ \ op[p].item]
    /\ op' = [op EXCEPT ![p] = Idle]
    /\ loose' = loose \ op[p].item
    /\ UNCHANGED <<body, file, stored, scan, requests, accidents, standing, adrift>>

-----------------------------------------------------------------------------
(***************************************************************************)
(* Scans.                                                                  *)
(***************************************************************************)

\* Mutant: the dismissals are those of the mirror.
EmittedByMirror(b, f) == Flags[b] \ Existing(db.notes, "issue")

\* isDismissedByOperator over the sidecar as the walk found it.
Emitted(b, f) == Flags[b] \ Existing(Notes(f), "issue")

\* The walk: ran tells whether the extractors ran, in a full scan or as their
\* last run was over another body or other annotations.
ScanRead(full) ==
    /\ scan = Null
    /\ scan' = [body |-> body, side |-> file, issues |-> Emitted(body, file),
                ran |-> full \/ <<body, Notes(file)>> # <<stored.body, Notes(stored.side)>>,
                current |-> TRUE]
    /\ UNCHANGED <<body, file, db, stored, op, requests, accidents, standing,
                   adrift, loose>>

Result == [body |-> scan.body, side |-> scan.side, issues |-> scan.issues,
           ran |-> scan.ran]

Row(r) == [body |-> r.body, ident |-> IF r.side = Null THEN Null ELSE r.side.ident,
           notes |-> Notes(r.side), issues |-> r.issues]

\* persistScanResult: nothing is rewritten when the result has the stored
\* fingerprint.
ScanPersist ==
    /\ scan # Null
    /\ scan' = Null
    /\ IF Result = stored
         THEN UNCHANGED <<db, stored, adrift, loose>>
         ELSE /\ db' = Row(Result)
              /\ stored' = Result
              /\ adrift' = ~scan.current
              /\ loose' = IF scan.current THEN {} ELSE scan.issues
    /\ UNCHANGED <<body, file, op, requests, accidents, standing>>

-----------------------------------------------------------------------------
(***************************************************************************)
(* The environment.                                                        *)
(***************************************************************************)
EditBody(b) ==
    /\ b # body
    /\ body' = b
    /\ UNCHANGED <<file, db, stored, scan, op, requests, standing, adrift, loose>>

\* Somebody removes the sidecar or edits a list of it.
HandEdited ==
    {Null} \cup IF file = Null THEN {}
                ELSE UNION {{[file EXCEPT !.notes[k] = X] : X \in Listed(k)} : k \in Keys}

HandEdit(f) ==
    /\ f # file
    /\ file' = f
    /\ op' = [q \in Actor |-> Overtaken(q, {}, Null)]
    /\ scan' = Unread
    /\ standing' = standing \cap Entries(f)
    /\ adrift' = TRUE
    /\ UNCHANGED <<body, db, stored, requests, loose>>

\* A process dies: the server with all its requests, a verb alone.  What is
\* left of a dismissal is not undone.
Crash(P) ==
    LET cut == {p \in P : op[p].at \in {"refresh", "mirror", "purge"}}
    IN  /\ \E p \in P : op[p] # Idle
        /\ op' = [p \in Actor |-> IF p \in P THEN Idle ELSE op[p]]
        /\ adrift' = (adrift \/ \E p \in cut : op[p].at # "purge")
        /\ loose' = loose \cup UNION {op[p].item :
                        p \in {q \in cut : op[q].key = "issue" /\ op[q].kind = "dismiss"}}
        /\ UNCHANGED <<body, file, db, stored, scan, requests, standing>>

\* The last scan was a cached one and ran no extractor.
Init ==
    /\ body \in Body
    /\ file = Null
    /\ stored = [body |-> body, side |-> Null, issues |-> Flags[body], ran |-> FALSE]
    /\ db = Row(stored)
    /\ scan = Null
    /\ op = [p \in Actor |-> Idle]
    /\ requests = 0 /\ accidents = 0
    /\ standing = {} /\ adrift = FALSE /\ loose = {}

DismissStep == \E p \in Actor, e \in Entry : Dismiss(p, e[1], e[2])
RestoreStep ==
    \/ \E p \in Actor, e \in Entry : Restore(p, e[1], {e[2]})
    \/ \E p \in Cli, c \in Class :
          Restore(p, "class", {d \in Class : FinderOf[d] = FinderOf[c]})
Step(p) == Lookup(p) \/ Refuse(p) \/ Merge(p) \/ Save(p) \/ Refresh(p) \/ Mirror(p) \/ Purge(p)
Accident ==
    /\ accidents < MaxAccidents
    /\ accidents' = accidents + 1
    /\ \/ Crash(Server)
       \/ \E p \in Cli : Crash({p})
       \/ \E f \in HandEdited : HandEdit(f)
       \/ \E b \in Body : EditBody(b)

Next ==
    \/ DismissStep
    \/ RestoreStep
    \/ \E p \in Actor : Bump(p)
    \/ \E p \in Actor : Step(p)
    \/ \E full \in BOOLEAN : ScanRead(full)
    \/ ScanPersist
    \/ Accident

Spec == Init /\ [][Next]_vars

-----------------------------------------------------------------------------
Quiet == \A p \in Actor : op[p] = Idle

\* An acknowledged dismissal is in the sidecar until it is restored or edited
\* away, whatever other requests write: those of the other list, bumps, scans,
\* crashes.  Only a request that had read the same list before, or merged in
\* another process, may lose it (applyPatch, deepMerge).
DismissalsStand == standing \subseteq Entries(file)

\* The mirror that every listing reads agrees with the sidecar when nothing is
\* in flight, unless an edit by hand, a bump, a crash or a view that was old
\* when it landed came last (refreshAnnotationsMirror).
MirrorFollowsFile == Quiet /\ ~adrift => db.notes = Notes(file)

\* A dismissed issue has no row once its request is over: no scan brings it
\* back but one whose walk was before the dismissal (dismissIssue, "so reads
\* agree without waiting for a rescan").
DismissedIsGone ==
    \A x \in db.issues \ loose :
        <<"issue", x>> \in standing =>
            \E p \in Actor : op[p].key = "issue" /\ x \in op[p].item

\* A scan that nothing overlaps leaves the row of the node as the sidecar and
\* the analyzers have it ("sm scan refreshes it wholesale", db-schema.md;
\* "correctness never depends on the skip", scan-persistence.ts).  No run
\* checks it: it fails when a dismissal and its undoing give back the sidecar
\* of the last scan, which is skipped then.
ScanRefreshes ==
    [][ScanPersist /\ scan.current /\ Quiet
         => db'.notes = Notes(scan.side) /\ db'.issues = scan.issues]_vars
=============================================================================
