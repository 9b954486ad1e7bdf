-------------------------- MODULE DismissalsProofs --------------------------
(***************************************************************************)
(* The three promises about dismissals, for any number of requests and     *)
(* processes, any values and classes, and any number of accidents.         *)
(***************************************************************************)
EXTENDS Dismissals, TLAPS

\* What an edit of a list has in hand before it merges.
WellMeant(o) ==
    /\ o.at \in {"lookup", "write", "merged"} /\ o.kind # "bump" =>
          /\ o.key \in Keys
          /\ o.item \subseteq Item[o.key] /\ o.list \subseteq Item[o.key]
          /\ o.kind = "dismiss" => o.item \subseteq o.list
    /\ o.kind = "dismiss" => o.key \in Keys /\ o.item \subseteq Item[o.key]
    /\ o.kind = "bump" => o.key = Null /\ o.item = {} /\ o.list \in Nat
    /\ o.at = "merged" => o.merged # Null
    /\ o.at = "lookup" => o.kind # "bump"

Typed ==
    /\ body \in Body /\ file \in Sidecar \cup {Null}
    /\ db \in [body : Body, ident : Body \cup {Null}, notes : Annotations,
               issues : SUBSET Value]
    /\ scan = Null \/ /\ scan \in [body : Body, side : Sidecar \cup {Null},
                                   issues : SUBSET Value, ran : BOOLEAN,
                                   current : BOOLEAN]
                      /\ scan.issues = Emitted(scan.body, scan.side)
    /\ op \in [Actor -> Request] /\ \A p \in Actor : WellMeant(op[p])
    /\ standing \subseteq Entry /\ loose \subseteq Value /\ adrift \in BOOLEAN

-----------------------------------------------------------------------------
(***************************************************************************)
(* Sidecars and patches.                                                   *)
(***************************************************************************)
LEMMA NotesTyped ==
    ASSUME NEW f \in Sidecar \cup {Null}
    PROVE  Notes(f) \in Annotations
  BY DEF Notes, NoNotes, Annotations, Listed, Sidecar

LEMMA EntriesOf ==
    ASSUME NEW f, NEW k \in Keys, NEW x
    PROVE  <<k, x>> \in Entries(f) <=> x \in Item[k] /\ x \in Existing(Notes(f), k)
  BY DEF Entries, Entry

LEMMA EntryTyped ==
    ASSUME NEW e \in Entry
    PROVE  e[1] \in Keys /\ e[2] \in Item[e[1]] /\ e = <<e[1], e[2]>>
  BY DEF Entry

LEMMA ExistingTyped ==
    ASSUME NEW f \in Sidecar \cup {Null}, NEW k \in Keys
    PROVE  Existing(Notes(f), k) \subseteq Item[k]
  BY NotesTyped DEF Existing, Annotations, Listed, Keys, Item

\* A patch gives a sidecar in which its list is the list and the other one is
\* as it was; a bump leaves both.
LEMMA PatchOfList ==
    ASSUME NEW f \in Sidecar \cup {Null}, NEW o \in Request, WellMeant(o),
           o.at = "write", o.kind # "bump", f # Null \/ o.ident # Null
    PROVE  /\ Patched(f, o) \in Sidecar
           /\ \A k \in Keys : Existing(Notes(Patched(f, o)), k) =
                                IF k = o.key THEN o.list ELSE Existing(Notes(f), k)
  <1>1. o.key \in Keys /\ o.list \in SUBSET Item[o.key] /\ o.list # Null
    BY NullAssumption DEF WellMeant
  <1>2. Notes(f) \in Annotations
    BY NotesTyped
  <1> DEFINE n == [Notes(f) EXCEPT ![o.key] = o.list]
  <1>3. n \in Annotations /\ \A k \in Keys : n[k] = IF k = o.key THEN o.list ELSE Notes(f)[k]
    BY <1>1, <1>2 DEF Annotations, Listed, Keys, Item
  <1>4. Patched(f, o) = [ident |-> IF o.ident # Null THEN o.ident ELSE f.ident, notes |-> n]
    BY DEF Patched
  <1>5. (IF o.ident # Null THEN o.ident ELSE f.ident) \in Body
    BY DEF Request, Sidecar
  <1>6. Patched(f, o) \in Sidecar
    BY <1>3, <1>4, <1>5 DEF Sidecar
  <1>7. Notes(Patched(f, o)) = n
    BY <1>4, <1>6, NullAssumption DEF Notes
  <1> QED BY <1>1, <1>3, <1>6, <1>7 DEF Existing

LEMMA PatchOfBump ==
    ASSUME NEW f \in Sidecar \cup {Null}, NEW o \in Request, WellMeant(o),
           o.kind = "bump", f # Null \/ o.ident # Null
    PROVE  /\ Patched(f, o) \in Sidecar
           /\ \A k \in Keys : Existing(Notes(Patched(f, o)), k) = Existing(Notes(f), k)
  <1>1. o.list \in Nat
    BY DEF WellMeant
  <1>2. Notes(f) \in Annotations
    BY NotesTyped
  <1> DEFINE n == [Notes(f) EXCEPT !["version"] = o.list]
  <1>3. n \in Annotations /\ \A k \in Keys : n[k] = Notes(f)[k]
    BY <1>1, <1>2 DEF Annotations, Listed, Keys, Item
  <1>4. Patched(f, o) = [ident |-> IF o.ident # Null THEN o.ident ELSE f.ident, notes |-> n]
    BY DEF Patched
  <1>5. (IF o.ident # Null THEN o.ident ELSE f.ident) \in Body
    BY DEF Request, Sidecar
  <1>6. Patched(f, o) \in Sidecar
    BY <1>3, <1>4, <1>5 DEF Sidecar
  <1>7. Notes(Patched(f, o)) = n
    BY <1>4, <1>6, NullAssumption DEF Notes
  <1> QED BY <1>3, <1>6, <1>7 DEF Existing

-----------------------------------------------------------------------------
(***************************************************************************)
(* What each step makes of a request.                                      *)
(***************************************************************************)
\* p goes on as o, and nobody else's request changes.
Goes(p, o) ==
    /\ o \in Request /\ WellMeant(o)
    /\ op' \in [Actor -> Request]
    /\ op'[p] = o /\ \A q \in Actor \ {p} : op'[q] = op[q]

LEMMA IdleRequest == Idle \in Request /\ WellMeant(Idle) /\ Idle.at = "idle"
  BY DEF Idle, Request, WellMeant, NoNotes, Annotations, Listed

LEMMA GoesOn ==
    ASSUME Typed, NEW p \in Actor, NEW o \in Request, WellMeant(o),
           op' = [op EXCEPT ![p] = o]
    PROVE  Goes(p, o)
  BY DEF Typed, Goes

LEMMA GoesTyped ==
    ASSUME Typed, NEW p \in Actor, NEW o, Goes(p, o)
    PROVE  op' \in [Actor -> Request] /\ \A q \in Actor : WellMeant(op'[q])
  BY DEF Typed, Goes

\* The request of an edit as it begins.
Begun(kind, k, X, list) ==
    [Idle EXCEPT !.at = IF file = Null THEN "lookup" ELSE "write",
                 !.kind = kind, !.key = k, !.item = X, !.list = list]

LEMMA BegunTyped ==
    ASSUME NEW kind \in {"dismiss", "restore"}, NEW k \in Keys,
           NEW X \in SUBSET Item[k], NEW list \in SUBSET Item[k],
           kind = "dismiss" => X \subseteq list
    PROVE  /\ Begun(kind, k, X, list) \in Request /\ WellMeant(Begun(kind, k, X, list))
           /\ Begun(kind, k, X, list) = [Idle EXCEPT
                 !.at = IF file = Null THEN "lookup" ELSE "write",
                 !.kind = kind, !.key = k, !.item = X, !.list = list]
  <1>1. X \in SUBSET (Value \cup Class) /\ list \in SUBSET (Value \cup Class)
    BY DEF Keys, Item
  <1> QED BY <1>1, IdleRequest, ZenonT(60) DEF Begun, Idle, Request, WellMeant

LEMMA DismissGoes ==
    ASSUME Typed, NEW p \in Actor, NEW k \in Keys, NEW x \in Item[k], Dismiss(p, k, x)
    PROVE  Goes(p, Begun("dismiss", k, {x}, Existing(Notes(file), k) \cup {x}))
  <1>1. Existing(Notes(file), k) \subseteq Item[k]
    BY ExistingTyped DEF Typed
  <1> DEFINE o == Begun("dismiss", k, {x}, Existing(Notes(file), k) \cup {x})
  <1>2. op' = [op EXCEPT ![p] = o]
    BY DEF Dismiss, Begin, Enter, Begun
  <1>3. o \in Request /\ WellMeant(o)
    BY <1>1, BegunTyped, ZenonT(60)
  <1> QED BY <1>2, <1>3, GoesOn

HealOnly == [Idle EXCEPT !.at = "refresh", !.kind = "restore"]

LEMMA HealTyped == HealOnly \in Request /\ WellMeant(HealOnly)
  BY IdleRequest DEF HealOnly, Idle, Request, WellMeant

LEMMA RestoreGoes ==
    ASSUME Typed, NEW p \in Actor, NEW k \in Keys, NEW X \in SUBSET Item[k],
           Restore(p, k, X)
    PROVE  \/ Goes(p, HealOnly)
           \/ Goes(p, Begun("restore", k, X, Existing(Notes(file), k) \ X))
  <1>1. Existing(Notes(file), k) \subseteq Item[k]
    BY ExistingTyped DEF Typed
  <1>2. \/ op' = [op EXCEPT ![p] = HealOnly]
        \/ op' = [op EXCEPT ![p] = Begun("restore", k, X, Existing(Notes(file), k) \ X)]
    BY DEF Restore, Begin, Enter, Begun, HealOnly
  <1> QED BY <1>1, <1>2, BegunTyped, HealTyped, GoesOn

Bumping == [Idle EXCEPT !.at = "write", !.kind = "bump", !.ident = db.body,
                        !.list = db.notes.version + 1]

LEMMA BumpGoes ==
    ASSUME Typed, NEW p \in Actor, Bump(p)
    PROVE  Goes(p, Bumping)
  <1>1. db.body \in Body /\ db.notes.version + 1 \in Nat
    BY DEF Typed, Annotations
  <1>2. Bumping \in Request /\ WellMeant(Bumping)
    BY <1>1, IdleRequest DEF Bumping, Idle, Request, WellMeant
  <1>3. op' = [op EXCEPT ![p] = Bumping]
    BY DEF Bump, Enter, Bumping
  <1> QED BY <1>2, <1>3, GoesOn

LEMMA LookupGoes ==
    ASSUME Typed, NEW p \in Actor, Lookup(p)
    PROVE  Goes(p, [op[p] EXCEPT !.at = "write", !.ident = db.body])
  <1> DEFINE o == [op[p] EXCEPT !.at = "write", !.ident = db.body]
  <1>1. op[p] \in Request /\ WellMeant(op[p]) /\ op[p].at = "lookup" /\ db.body \in Body
    BY DEF Typed, Lookup
  <1>2. o \in Request /\ WellMeant(o)
    BY <1>1 DEF Request, WellMeant
  <1>3. op' = [op EXCEPT ![p] = o]
    BY DEF Lookup
  <1> QED BY <1>2, <1>3, GoesOn

LEMMA RefuseGoes ==
    ASSUME Typed, NEW p \in Actor, Refuse(p)
    PROVE  Goes(p, Idle) \/ Goes(p, HealOnly)
  <1>1. op' = [op EXCEPT ![p] = Idle] \/ op' = [op EXCEPT ![p] = HealOnly]
    BY DEF Refuse, HealOnly
  <1> QED BY <1>1, IdleRequest, HealTyped, GoesOn

\* p's request with its merged file.
Merging(p) == [op[p] EXCEPT !.at = "merged", !.merged = Patched(file, op[p])]

LEMMA MergeGoes ==
    ASSUME Typed, NEW p \in Actor, Merge(p)
    PROVE  \/ Goes(p, Idle)
           \/ /\ Goes(p, Merging(p))
              /\ file # Null \/ op[p].ident # Null
  <1>1. op[p] \in Request /\ WellMeant(op[p]) /\ op[p].at = "write"
        /\ file \in Sidecar \cup {Null}
    BY DEF Typed, Merge
  <1>2. CASE file = Null /\ op[p].ident = Null
    <2>1. op' = [op EXCEPT ![p] = Idle]
      BY <1>2 DEF Merge
    <2> QED BY <2>1, IdleRequest, GoesOn
  <1>3. CASE file # Null \/ op[p].ident # Null
    <2>1. Patched(file, op[p]) \in Sidecar
      BY <1>1, <1>3, PatchOfList, PatchOfBump
    <2>2. Merging(p) \in Request
      BY <1>1, <2>1 DEF Merging, Request
    <2>3. WellMeant(Merging(p))
      BY <1>1, <2>1, NullAssumption DEF Merging, Request, WellMeant
    <2>4. op' = [op EXCEPT ![p] = Merging(p)]
      BY <1>3 DEF Merge, Merging
    <2> QED BY <1>3, <2>2, <2>3, <2>4, GoesOn
  <1> QED BY <1>2, <1>3

Refreshing(p) ==
    [op[p] EXCEPT !.at = "mirror", !.view = Notes(file), !.current = TRUE]

LEMMA RefreshGoes ==
    ASSUME Typed, NEW p \in Actor, Refresh(p)
    PROVE  Goes(p, Refreshing(p))
  <1>1. op[p] \in Request /\ WellMeant(op[p]) /\ op[p].at = "refresh"
        /\ Notes(file) \in Annotations
    BY NotesTyped DEF Typed, Refresh
  <1>2. Refreshing(p) \in Request /\ WellMeant(Refreshing(p))
    BY <1>1 DEF Refreshing, Request, WellMeant
  <1>3. op' = [op EXCEPT ![p] = Refreshing(p)]
    BY DEF Refresh, Refreshing
  <1> QED BY <1>2, <1>3, GoesOn

LEMMA MirrorGoes ==
    ASSUME Typed, NEW p \in Actor, Mirror(p)
    PROVE  IF op[p].kind = "dismiss" /\ op[p].key = "issue"
             THEN Goes(p, [op[p] EXCEPT !.at = "purge"]) ELSE Goes(p, Idle)
  <1> DEFINE o == [op[p] EXCEPT !.at = "purge"]
  <1>1. op[p] \in Request /\ WellMeant(op[p]) /\ op[p].at = "mirror"
    BY DEF Typed, Mirror
  <1>2. o \in Request /\ WellMeant(o)
    BY <1>1 DEF Request, WellMeant
  <1>3. op' = [op EXCEPT ![p] = IF op[p].kind = "dismiss" /\ op[p].key = "issue"
                                  THEN o ELSE Idle]
    BY DEF Mirror
  <1> QED BY <1>2, <1>3, IdleRequest, GoesOn

LEMMA PurgeGoes ==
    ASSUME Typed, NEW p \in Actor, Purge(p)
    PROVE  Goes(p, Idle)
  BY IdleRequest, GoesOn DEF Purge

\* Overtaking changes what is known of a request, not what it does.
LEMMA OvertakenTyped ==
    ASSUME Typed, NEW q \in Actor, NEW added \in SUBSET Entry, NEW k
    PROVE  /\ Overtaken(q, added, k) \in Request /\ WellMeant(Overtaken(q, added, k))
           /\ ~Overtaken(q, added, k).current
           /\ Overtaken(q, added, k).at = op[q].at
           /\ Overtaken(q, added, k).kind = op[q].kind
           /\ Overtaken(q, added, k).key = op[q].key
           /\ Overtaken(q, added, k).item = op[q].item
           /\ Overtaken(q, added, k).list = op[q].list
           /\ Overtaken(q, added, k).merged = op[q].merged
           /\ Overtaken(q, added, k).missed = IF Exposed(q, k)
                                 THEN op[q].missed \cup added ELSE op[q].missed
  <1>1. op[q] \in Request /\ WellMeant(op[q])
    BY DEF Typed
  <1>2. Overtaken(q, added, k) \in Request
    BY <1>1 DEF Overtaken, Request
  <1>3. /\ Overtaken(q, added, k).at = op[q].at
        /\ Overtaken(q, added, k).kind = op[q].kind
        /\ Overtaken(q, added, k).key = op[q].key
        /\ Overtaken(q, added, k).item = op[q].item
        /\ Overtaken(q, added, k).list = op[q].list
        /\ Overtaken(q, added, k).merged = op[q].merged
        /\ ~Overtaken(q, added, k).current
        /\ Overtaken(q, added, k).missed = IF Exposed(q, k)
                                 THEN op[q].missed \cup added ELSE op[q].missed
    BY <1>1 DEF Overtaken, Request
  <1>4. WellMeant(Overtaken(q, added, k))
    BY <1>1, <1>3 DEF WellMeant
  <1> QED BY <1>2, <1>3, <1>4

-----------------------------------------------------------------------------
(***************************************************************************)
(* The invariant.                                                          *)
(***************************************************************************)
Own(o) == {o.key} \X o.item

\* Whatever a request is about to write has the entries it must not lose.
Holds(o) ==
    /\ o.at \in {"lookup", "write"} /\ o.kind # "bump" =>
          \A e \in standing \ o.missed :
              e[1] = o.key => e[2] \in o.list \/ e \in Own(o)
    /\ o.at = "merged" =>
          /\ \A e \in standing \ o.missed : e \in Entries(o.merged) \/ e \in Own(o)
          /\ o.kind = "dismiss" => Own(o) \subseteq Entries(o.merged)

\* Who will bring the mirror up to date, and who will take the row of x away.
Pending(o)    == o.at \in {"refresh", "mirror"}
Purging(o, x) == /\ o.at \in {"refresh", "mirror", "purge"}
                 /\ o.kind = "dismiss" /\ o.key = "issue" /\ x \in o.item

Kept     == DismissalsStand /\ \A p \in Actor : Holds(op[p])
Mirrored ==
    /\ adrift \/ db.notes = Notes(file) \/ \E p \in Actor : Pending(op[p])
    /\ \A p \in Actor : op[p].at = "mirror" /\ op[p].current => op[p].view = Notes(file)
    /\ scan # Null /\ scan.current => scan.side = file
Gone     == \A x \in db.issues \ loose :
                <<"issue", x>> \in standing => \E p \in Actor : Purging(op[p], x)

Inv == Typed /\ Kept /\ Mirrored /\ Gone

\* A request that goes on without touching anything else keeps the invariant
\* if it does not forget what it stands for.
LEMMA Onward ==
    ASSUME Inv, NEW p \in Actor, NEW o, Goes(p, o), Holds(o),
           UNCHANGED <<body, file, db, scan, standing, adrift, loose>>,
           o.at = "mirror" /\ o.current => o.view = Notes(file),
           Pending(op[p]) => Pending(o),
           \A x \in Value : Purging(op[p], x) => Purging(o, x)
    PROVE  Inv'
  <1>1. Typed'
    <2>1. op' \in [Actor -> Request] /\ \A q \in Actor : WellMeant(op'[q])
      BY GoesTyped DEF Inv
    <2> QED BY <2>1 DEF Inv, Typed, Emitted
  <1>2. Kept'
    <2>1. \A q \in Actor : Holds(op'[q])
      BY DEF Inv, Kept, Goes
    <2> QED BY <2>1 DEF Inv, Kept, DismissalsStand, Holds, Entries
  <1>3. Mirrored'
    <2>1. (\E q \in Actor : Pending(op[q])) => \E q \in Actor : Pending(op'[q])
      BY DEF Goes
    <2> QED BY <2>1 DEF Inv, Mirrored, Goes, Pending
  <1>4. Gone'
    <2>1. ASSUME NEW x \in db.issues \ loose, <<"issue", x>> \in standing
          PROVE  \E q \in Actor : Purging(op'[q], x)
      <3>1. x \in Value
        BY DEF Inv, Typed
      <3>2. PICK q \in Actor : Purging(op[q], x)
        BY <2>1 DEF Inv, Gone
      <3> QED BY <3>1, <3>2 DEF Goes
    <2> QED BY <2>1 DEF Gone, Purging
  <1> QED BY <1>1, <1>2, <1>3, <1>4 DEF Inv

LEMMA IdleHolds ==
    /\ Holds(Idle) /\ Holds(HealOnly) /\ ~Pending(Idle) /\ Pending(HealOnly)
    /\ HealOnly.at = "refresh" /\ \A x : ~Purging(Idle, x)
  BY DEF Idle, HealOnly, Holds, Pending, Purging

LEMMA IdleBefore ==
    ASSUME NEW o, o = Idle
    PROVE  ~Pending(o) /\ \A x : ~Purging(o, x)
  BY IdleHolds

\* A list with an entry more, or without what is restored.
LEMMA DismissSafe ==
    ASSUME Inv, NEW p \in Actor, NEW k \in Keys, NEW x \in Item[k], Dismiss(p, k, x)
    PROVE  Inv'
  <1> DEFINE list == Existing(Notes(file), k) \cup {x}
             o    == Begun("dismiss", k, {x}, list)
  <1>1. Goes(p, o) /\ op[p] = Idle
    BY DismissGoes DEF Inv, Dismiss, Begin, Enter
  <1>2. /\ o.at \in {"lookup", "write"} /\ o.key = k /\ o.list = list
    BY DEF Begun, Idle
  <1>3. ASSUME NEW e \in standing, e[1] = k
        PROVE  e[2] \in list
    <2>1. e \in Entries(file)
      BY DEF Inv, Kept, DismissalsStand
    <2> QED BY <1>3, <2>1 DEF Entries
  <1>4. Holds(o)
    BY <1>2, <1>3 DEF Holds
  <1> QED BY <1>1, <1>2, <1>4, IdleBefore, Onward DEF Dismiss

LEMMA RestoreSafe ==
    ASSUME Inv, NEW p \in Actor, NEW k \in Keys, NEW X \in SUBSET Item[k],
           Restore(p, k, X)
    PROVE  Inv'
  <1> DEFINE list == Existing(Notes(file), k) \ X
             o    == Begun("restore", k, X, list)
  <1>1. (Goes(p, HealOnly) \/ Goes(p, o)) /\ op[p] = Idle
    BY RestoreGoes DEF Inv, Restore, Begin, Enter
  <1>2. CASE Goes(p, HealOnly)
    BY <1>1, <1>2, IdleHolds, IdleBefore, Onward DEF Restore
  <1>3. CASE Goes(p, o)
    <2>1. /\ o.at \in {"lookup", "write"} /\ o.key = k /\ o.list = list /\ o.item = X
      BY DEF Begun, Idle
    <2>2. ASSUME NEW e \in standing, e[1] = k
          PROVE  e[2] \in list \/ e \in Own(o)
      <3>1. e \in Entries(file) /\ e \in Entry
        BY DEF Inv, Kept, DismissalsStand, Entries
      <3>2. e = <<e[1], e[2]>>
        BY <3>1, EntryTyped
      <3>3. e[2] \in Existing(Notes(file), k)
        BY <2>2, <3>1 DEF Entries
      <3> QED BY <2>1, <2>2, <3>2, <3>3 DEF Own
    <2>3. Holds(o)
      BY <2>1, <2>2 DEF Holds
    <2> QED BY <1>1, <1>3, <2>1, <2>3, IdleBefore, Onward DEF Restore
  <1> QED BY <1>1, <1>2, <1>3

LEMMA BumpSafe ==
    ASSUME Inv, NEW p \in Actor, Bump(p)
    PROVE  Inv'
  <1>1. Goes(p, Bumping) /\ op[p] = Idle
    BY BumpGoes DEF Inv, Bump, Enter
  <1>2. Bumping.at = "write" /\ Bumping.kind = "bump"
    BY DEF Bumping, Idle
  <1>3. Holds(Bumping)
    BY <1>2 DEF Holds
  <1> QED BY <1>1, <1>2, <1>3, IdleBefore, Onward DEF Bump

LEMMA LookupSafe ==
    ASSUME Inv, NEW p \in Actor, Lookup(p)
    PROVE  Inv'
  <1> DEFINE o == [op[p] EXCEPT !.at = "write", !.ident = db.body]
  <1>1. Goes(p, o) /\ op[p].at = "lookup" /\ op[p] \in Request
    BY LookupGoes DEF Inv, Lookup, Typed
  <1>2. /\ o.at = "write" /\ o.kind = op[p].kind /\ o.key = op[p].key
        /\ o.item = op[p].item /\ o.list = op[p].list /\ o.missed = op[p].missed
    BY <1>1 DEF Request
  <1>3. Holds(o)
    BY <1>1, <1>2 DEF Inv, Kept, Holds, Own
  <1>4. ~Pending(op[p]) /\ \A x \in Value : ~Purging(op[p], x)
    BY <1>1 DEF Pending, Purging
  <1> QED BY <1>1, <1>2, <1>3, <1>4, Onward DEF Lookup

LEMMA RefuseSafe ==
    ASSUME Inv, NEW p \in Actor, Refuse(p)
    PROVE  Inv'
  <1>1. (Goes(p, Idle) \/ Goes(p, HealOnly)) /\ op[p].at = "write"
    BY RefuseGoes DEF Inv, Refuse
  <1>2. ~Pending(op[p]) /\ \A x \in Value : ~Purging(op[p], x)
    BY <1>1 DEF Pending, Purging
  <1>3. Idle.at # "mirror" /\ HealOnly.at # "mirror"
    BY IdleRequest, IdleHolds
  <1> QED BY <1>1, <1>2, <1>3, IdleHolds, Onward DEF Refuse

\* The merged file has what the list had, and the other list as the file has it.
LEMMA MergeSafe ==
    ASSUME Inv, NEW p \in Actor, Merge(p)
    PROVE  Inv'
  <1> DEFINE o == op[p]
             m == Merging(p)
             f == Patched(file, o)
  <1>1. o \in Request /\ WellMeant(o) /\ o.at = "write" /\ file \in Sidecar \cup {Null}
    BY DEF Inv, Typed, Merge
  <1>2. ~Pending(o) /\ \A x \in Value : ~Purging(o, x)
    BY <1>1 DEF Pending, Purging
  <1>3. CASE Goes(p, Idle)
    BY <1>2, <1>3, IdleHolds, IdleRequest, Onward DEF Merge
  <1>4. CASE Goes(p, m) /\ (file # Null \/ o.ident # Null)
    <2>1. /\ m.at = "merged" /\ m.merged = f /\ m.kind = o.kind /\ m.key = o.key
          /\ m.item = o.item /\ m.missed = o.missed
      BY <1>1 DEF Merging, Request
    <2>2. ASSUME NEW e \in standing \ o.missed, e \notin Own(o)
          PROVE  e \in Entries(f)
      <3>1. e \in Entry /\ e[1] \in Keys /\ e[2] \in Existing(Notes(file), e[1])
        BY EntryTyped DEF Inv, Kept, DismissalsStand, Entries
      <3>2. CASE o.kind = "bump"
        BY <1>1, <1>4, <3>1, <3>2, PatchOfBump DEF Entries
      <3>3. CASE o.kind # "bump" /\ e[1] # o.key
        BY <1>1, <1>4, <3>1, <3>3, PatchOfList DEF Entries
      <3>4. CASE o.kind # "bump" /\ e[1] = o.key
        <4>1. e[2] \in o.list
          BY <1>1, <2>2, <3>4 DEF Inv, Kept, Holds
        <4> QED BY <1>1, <1>4, <3>1, <3>4, <4>1, PatchOfList DEF Entries
      <3> QED BY <3>2, <3>3, <3>4
    <2>3. ASSUME o.kind = "dismiss"
          PROVE  Own(o) \subseteq Entries(f)
      <3>1. o.key \in Keys /\ o.item \subseteq Item[o.key] /\ o.item \subseteq o.list
        BY <1>1, <2>3 DEF WellMeant
      <3>2. Existing(Notes(f), o.key) = o.list
        BY <1>1, <1>4, <2>3, <3>1, PatchOfList
      <3> QED BY <3>1, <3>2, EntriesOf DEF Own
    <2>4. Own(m) = Own(o)
      BY <2>1 DEF Own
    <2>5. Holds(m)
      BY <2>1, <2>2, <2>3, <2>4 DEF Holds
    <2> QED BY <1>2, <1>4, <2>1, <2>5, Onward DEF Merge
  <1> QED BY <1>3, <1>4, MergeGoes DEF Inv

LEMMA RefreshSafe ==
    ASSUME Inv, NEW p \in Actor, Refresh(p)
    PROVE  Inv'
  <1> DEFINE o == Refreshing(p)
  <1>1. Goes(p, o) /\ op[p].at = "refresh" /\ op[p] \in Request
    BY RefreshGoes DEF Inv, Typed, Refresh
  <1>2. /\ o.at = "mirror" /\ o.view = Notes(file) /\ o.kind = op[p].kind
        /\ o.key = op[p].key /\ o.item = op[p].item
    BY <1>1 DEF Refreshing, Request
  <1>3. Holds(o) /\ Pending(o)
    BY <1>2 DEF Holds, Pending
  <1>4. \A x \in Value : Purging(op[p], x) => Purging(o, x)
    BY <1>2 DEF Purging
  <1> QED BY <1>1, <1>2, <1>3, <1>4, Onward DEF Refresh

\* Only a view that is that of the sidecar makes the mirror agree.
LEMMA MirrorSafe ==
    ASSUME Inv, NEW p \in Actor, Mirror(p)
    PROVE  Inv'
  <1> DEFINE o == op'[p]
  <1>1. /\ Goes(p, o) /\ op[p].at = "mirror" /\ op[p] \in Request
        /\ \/ op[p].kind = "dismiss" /\ op[p].key = "issue"
                 /\ o = [op[p] EXCEPT !.at = "purge"]
           \/ ~(op[p].kind = "dismiss" /\ op[p].key = "issue") /\ o = Idle
    BY MirrorGoes DEF Inv, Typed, Mirror, Goes
  <1>2. /\ db' = [db EXCEPT !.notes = op[p].view] /\ adrift' = ~op[p].current
        /\ UNCHANGED <<body, file, scan, standing, loose>>
    BY DEF Mirror
  <1>3. o.at \in {"purge", "idle"} /\ \A x \in Value : Purging(op[p], x) => Purging(o, x)
    BY <1>1, IdleRequest DEF Purging, Request
  <1>4. db'.notes = op[p].view /\ db'.issues = db.issues
    BY <1>2 DEF Inv, Typed
  <1>5. Typed'
    <2>1. op' \in [Actor -> Request] /\ \A q \in Actor : WellMeant(op'[q])
      BY <1>1, GoesTyped DEF Inv
    <2>2. op[p].view \in Annotations /\ op[p].current \in BOOLEAN
      BY <1>1 DEF Request
    <2> QED BY <1>2, <2>1, <2>2 DEF Inv, Typed, Emitted
  <1>6. Kept'
    <2>1. \A q \in Actor : Holds(op'[q])
      BY <1>1, <1>3 DEF Inv, Kept, Goes, Holds
    <2> QED BY <1>2, <2>1 DEF Inv, Kept, DismissalsStand, Holds, Entries
  <1>7. Mirrored'
    BY <1>1, <1>2, <1>3, <1>4 DEF Inv, Mirrored, Goes
  <1>8. Gone'
    <2>1. ASSUME NEW x \in db.issues \ loose, <<"issue", x>> \in standing
          PROVE  \E q \in Actor : Purging(op'[q], x)
      <3>1. x \in Value
        BY DEF Inv, Typed
      <3>2. PICK q \in Actor : Purging(op[q], x)
        BY <2>1 DEF Inv, Gone
      <3> QED BY <1>1, <1>3, <3>1, <3>2 DEF Goes
    <2> QED BY <1>2, <1>4, <2>1 DEF Gone, Purging
  <1> QED BY <1>5, <1>6, <1>7, <1>8 DEF Inv

LEMMA PurgeSafe ==
    ASSUME Inv, NEW p \in Actor, Purge(p)
    PROVE  Inv'
  <1>1. Goes(p, Idle) /\ op[p].at = "purge" /\ op[p] \in Request
    BY PurgeGoes DEF Inv, Typed, Purge
  <1>2. /\ db' = [db EXCEPT !.issues = @ \ op[p].item] /\ loose' = loose \ op[p].item
        /\ UNCHANGED <<body, file, scan, standing, adrift>>
    BY DEF Purge
  <1>3. db'.notes = db.notes /\ db'.issues = db.issues \ op[p].item
    BY <1>2 DEF Inv, Typed
  <1>4. Typed'
    <2>1. op' \in [Actor -> Request] /\ \A q \in Actor : WellMeant(op'[q])
      BY <1>1, GoesTyped DEF Inv
    <2> QED BY <1>2, <2>1 DEF Inv, Typed, Emitted
  <1>5. Kept'
    <2>1. \A q \in Actor : Holds(op'[q])
      BY <1>1, IdleHolds DEF Inv, Kept, Goes
    <2> QED BY <1>2, <2>1 DEF Inv, Kept, DismissalsStand, Holds, Entries
  <1>6. Mirrored'
    <2>1. \A q \in Actor : Pending(op[q]) => Pending(op'[q])
      BY <1>1 DEF Goes, Pending
    <2>2. Idle.at # "mirror"
      BY IdleRequest
    <2> QED BY <1>1, <1>2, <1>3, <2>1, <2>2 DEF Inv, Mirrored, Goes, Pending
  <1>7. Gone'
    <2>1. ASSUME NEW x \in (db.issues \ op[p].item) \ (loose \ op[p].item),
                 <<"issue", x>> \in standing
          PROVE  \E q \in Actor : Purging(op'[q], x)
      <3>1. PICK q \in Actor : Purging(op[q], x)
        BY <2>1 DEF Inv, Gone
      <3>2. q # p
        BY <2>1, <3>1 DEF Purging
      <3> QED BY <1>1, <3>1, <3>2 DEF Goes
    <2> QED BY <1>2, <1>3, <2>1 DEF Gone, Purging
  <1> QED BY <1>4, <1>5, <1>6, <1>7 DEF Inv

\* What a save does to every request.
SavedOp(p) == IF op[p].kind = "bump" THEN Idle
              ELSE [op[p] EXCEPT !.at = "refresh", !.missed = {}]
AddedBy(p) == IF op[p].kind = "dismiss" THEN Own(op[p]) ELSE {}

LEMMA SaveSteps ==
    ASSUME Typed, NEW p \in Actor, Save(p)
    PROVE  /\ op[p].at = "merged" /\ op[p] \in Request /\ WellMeant(op[p])
           /\ file' = op[p].merged /\ file' \in Sidecar
           /\ op' = [q \in Actor |-> IF q = p THEN SavedOp(p)
                                     ELSE Overtaken(q, AddedBy(p), op[p].key)]
           /\ scan' = Unread
           /\ standing' = ((standing \ op[p].missed) \ Own(op[p])) \cup AddedBy(p)
           /\ adrift' = (adrift \/ op[p].kind = "bump")
           /\ UNCHANGED <<body, db, loose>>
           /\ AddedBy(p) \subseteq Entry
           /\ SavedOp(p) \in Request /\ WellMeant(SavedOp(p))
  <1>1. op[p].at = "merged" /\ op[p] \in Request /\ WellMeant(op[p])
    BY DEF Typed, Save
  <1>2. AddedBy(p) \subseteq Entry
    BY <1>1 DEF AddedBy, Own, WellMeant, Entry
  <1>3. SavedOp(p) \in Request /\ WellMeant(SavedOp(p))
    <2>1. CASE op[p].kind = "bump"
      BY <2>1, IdleRequest DEF SavedOp
    <2>2. CASE op[p].kind # "bump"
      BY <1>1, <2>2 DEF SavedOp, Request, WellMeant
    <2> QED BY <2>1, <2>2
  <1>4. op[p].merged \in Sidecar
    BY <1>1 DEF Request, WellMeant
  <1>5. op' = [q \in Actor |-> IF q = p THEN SavedOp(p)
                               ELSE Overtaken(q, AddedBy(p), op[p].key)]
    BY DEF Save, SavedOp, AddedBy, Own
  <1>6. standing' = ((standing \ op[p].missed) \ Own(op[p])) \cup AddedBy(p)
    BY DEF Save, AddedBy, Own
  <1> QED BY <1>1, <1>2, <1>3, <1>4, <1>5, <1>6 DEF Save

\* The scan in flight keeps what it read, and knows no more whether it is old.
LEMMA UnreadTyped ==
    ASSUME Typed, scan' = Unread
    PROVE  /\ scan' = Null \/ /\ scan' \in [body : Body, side : Sidecar \cup {Null},
                                           issues : SUBSET Value, ran : BOOLEAN,
                                           current : BOOLEAN]
                              /\ scan'.issues = Emitted(scan'.body, scan'.side)
           /\ ~(scan' # Null /\ scan'.current)
  <1>1. CASE scan = Null
    BY <1>1 DEF Unread
  <1>2. CASE scan # Null
    BY <1>2 DEF Unread, Typed, Emitted
  <1> QED BY <1>1, <1>2

\* A save loses nothing that a request in another list, or one that began
\* later, stands for.
LEMMA SaveSafe ==
    ASSUME Inv, NEW p \in Actor, Save(p)
    PROVE  Inv'
  <1> DEFINE k     == op[p].key
             added == AddedBy(p)
             o(q)  == Overtaken(q, added, k)
  <1>1. /\ op[p].at = "merged" /\ op[p] \in Request /\ WellMeant(op[p])
        /\ file' = op[p].merged /\ file' \in Sidecar
        /\ scan' = Unread
        /\ standing' = ((standing \ op[p].missed) \ Own(op[p])) \cup added
        /\ adrift' = (adrift \/ op[p].kind = "bump")
        /\ UNCHANGED <<body, db, loose>>
        /\ added \subseteq Entry
        /\ SavedOp(p) \in Request /\ WellMeant(SavedOp(p))
    BY SaveSteps DEF Inv
  <1>2. op'[p] = SavedOp(p) /\ \A q \in Actor \ {p} : op'[q] = o(q)
    BY SaveSteps DEF Inv
  <1>3. \A q \in Actor :
           /\ o(q) \in Request /\ WellMeant(o(q)) /\ ~o(q).current
           /\ o(q).at = op[q].at /\ o(q).kind = op[q].kind /\ o(q).key = op[q].key
           /\ o(q).item = op[q].item /\ o(q).list = op[q].list
           /\ o(q).merged = op[q].merged
           /\ o(q).missed = IF Exposed(q, k)
                                 THEN op[q].missed \cup added ELSE op[q].missed
    <2> SUFFICES ASSUME NEW q \in Actor
                 PROVE  /\ o(q) \in Request /\ WellMeant(o(q)) /\ ~o(q).current
                        /\ o(q).at = op[q].at /\ o(q).kind = op[q].kind
                        /\ o(q).key = op[q].key
                        /\ o(q).item = op[q].item /\ o(q).list = op[q].list
                        /\ o(q).merged = op[q].merged
                        /\ o(q).missed = IF Exposed(q, k)
                                 THEN op[q].missed \cup added ELSE op[q].missed
      OBVIOUS
    <2>1. Typed /\ added \in SUBSET Entry
      BY <1>1 DEF Inv
    <2> HIDE DEF k, added
    <2> DEFINE u == Overtaken(q, added, k)
    <2>2. o(q) = u
      OBVIOUS
    <2>3. u \in Request /\ WellMeant(u) /\ ~u.current
      BY <2>1, OvertakenTyped
    <2>4. u.at = op[q].at /\ u.kind = op[q].kind /\ u.key = op[q].key
      BY <2>1, OvertakenTyped, ZenonT(60)
    <2>5. u.item = op[q].item /\ u.list = op[q].list /\ u.merged = op[q].merged
      BY <2>1, OvertakenTyped, ZenonT(60)
    <2>6. u.missed = IF Exposed(q, k) THEN op[q].missed \cup added ELSE op[q].missed
      BY <2>1, OvertakenTyped
    <2> HIDE DEF o, u
    <2> QED BY <2>2, <2>3, <2>4, <2>5, <2>6
  <1>4. /\ SavedOp(p).at \in {"idle", "refresh"}
        /\ op[p].kind # "bump" => /\ SavedOp(p).at = "refresh" /\ SavedOp(p).kind = op[p].kind
                                  /\ SavedOp(p).key = k /\ SavedOp(p).item = op[p].item
    BY <1>1, IdleRequest DEF SavedOp, Request
  <1>5. Typed'
    <2>1. op' \in [Actor -> Request] /\ \A q \in Actor : WellMeant(op'[q])
      <3>1. DOMAIN op' = Actor /\ op' = [q \in Actor |-> op'[q]]
        BY SaveSteps DEF Inv
      <3>2. \A q \in Actor : op'[q] \in Request /\ WellMeant(op'[q])
        BY <1>1, <1>2, <1>3
      <3> QED BY <3>1, <3>2
    <2>2. standing' \subseteq Entry /\ adrift' \in BOOLEAN
      BY <1>1 DEF Inv, Typed
    <2> QED BY <1>1, <2>1, <2>2, UnreadTyped DEF Inv, Typed, Emitted
  <1>6. standing' \subseteq Entries(file')
    <2>1. ASSUME NEW e \in standing \ op[p].missed, e \notin Own(op[p])
          PROVE  e \in Entries(op[p].merged)
      BY <1>1, <2>1 DEF Inv, Kept, Holds
    <2>2. added \subseteq Entries(op[p].merged)
      BY <1>1 DEF Inv, Kept, Holds, AddedBy
    <2> QED BY <1>1, <2>1, <2>2
  <1>7. ASSUME NEW q \in Actor \ {p}
        PROVE  Holds(op[q])'
    <2>1. ASSUME NEW e \in standing' \ o(q).missed, op[q].at = "merged"
          PROVE  e \in standing \ op[q].missed
      BY <1>1, <1>3, <2>1 DEF Exposed
    <2>2. ASSUME NEW e \in standing' \ o(q).missed, op[q].at \in {"lookup", "write"},
                 e[1] = op[q].key
          PROVE  e \in standing \ op[q].missed
      <3>1. CASE e \in added
        <4>1. e[1] = k
          BY <3>1 DEF AddedBy, Own
        <4> QED BY <1>3, <2>2, <3>1, <4>1 DEF Exposed
      <3>2. CASE e \notin added
        BY <1>1, <1>3, <2>2, <3>2
      <3> QED BY <3>1, <3>2
    <2>3. Own(o(q)) = Own(op[q])
      BY <1>3 DEF Own
    <2>4. Holds(op[q])
      BY DEF Inv, Kept
    <2>5. op'[q] = o(q)
      BY <1>2
    <2>6. /\ o(q).at \in {"lookup", "write"} /\ o(q).kind # "bump" =>
                \A e \in standing' \ o(q).missed :
                    e[1] = o(q).key => e[2] \in o(q).list \/ e \in Own(o(q))
          /\ o(q).at = "merged" =>
                /\ \A e \in standing' \ o(q).missed :
                       e \in Entries(o(q).merged) \/ e \in Own(o(q))
                /\ o(q).kind = "dismiss" => Own(o(q)) \subseteq Entries(o(q).merged)
      BY <1>3, <2>1, <2>2, <2>3, <2>4 DEF Holds
    <2> QED BY <2>5, <2>6 DEF Holds, Own, Entries
  <1>8. Kept'
    <2>1. Holds(op[p])'
      BY <1>2, <1>4 DEF Holds
    <2> QED BY <1>6, <1>7, <2>1 DEF Kept, DismissalsStand, Entries
  <1>9. Mirrored'
    <2>1. adrift' \/ Pending(op'[p])
      BY <1>1, <1>2, <1>4 DEF Inv, Typed, Pending
    <2>2. \A q \in Actor : ~(op'[q].at = "mirror" /\ op'[q].current)
      BY <1>2, <1>3, <1>4
    <2> QED BY <1>1, <2>1, <2>2, UnreadTyped DEF Inv, Mirrored, Pending
  <1>10. Gone'
    <2>1. ASSUME NEW x \in db.issues \ loose, <<"issue", x>> \in standing'
          PROVE  \E q \in Actor : Purging(op'[q], x)
      <3>1. CASE <<"issue", x>> \in added
        <4>1. op[p].kind = "dismiss" /\ k = "issue" /\ x \in op[p].item
          BY <3>1 DEF AddedBy, Own
        <4> QED BY <1>2, <1>4, <4>1 DEF Purging
      <3>2. CASE <<"issue", x>> \in standing
        <4>1. PICK q \in Actor : Purging(op[q], x)
          BY <2>1, <3>2 DEF Inv, Gone
        <4>2. q # p
          BY <1>1, <4>1 DEF Purging
        <4> QED BY <1>2, <1>3, <4>1, <4>2 DEF Purging
      <3> QED BY <1>1, <2>1, <3>1, <3>2
    <2> QED BY <1>1, <2>1 DEF Gone, Purging
  <1> QED BY <1>5, <1>8, <1>9, <1>10 DEF Inv

LEMMA ScanReadSafe ==
    ASSUME Inv, NEW full \in BOOLEAN, ScanRead(full)
    PROVE  Inv'
  <1>1. UNCHANGED <<body, file, db, op, standing, adrift, loose>>
    BY DEF ScanRead
  <1>2. /\ scan' \in [body : Body, side : Sidecar \cup {Null}, issues : SUBSET Value,
                      ran : BOOLEAN, current : BOOLEAN]
        /\ scan'.issues = Emitted(scan'.body, scan'.side) /\ scan'.side = file
    BY DismissalsAssumption DEF Inv, Typed, ScanRead, Emitted
  <1>3. Typed'
    BY <1>1, <1>2 DEF Inv, Typed, Emitted
  <1>4. Kept'
    BY <1>1 DEF Inv, Kept, DismissalsStand, Holds, Own, Entries
  <1>5. Mirrored'
    BY <1>1, <1>2 DEF Inv, Mirrored, Pending
  <1>6. Gone'
    BY <1>1 DEF Inv, Gone, Purging
  <1> QED BY <1>3, <1>4, <1>5, <1>6 DEF Inv

\* The rows of a result hold no value that stands dismissed, unless the walk
\* read an older sidecar; a result that is not written leaves them.
LEMMA ScanPersistSafe ==
    ASSUME Inv, ScanPersist
    PROVE  Inv'
  <1>1. scan # Null /\ scan' = Null /\ UNCHANGED <<body, file, op, standing>>
    BY DEF ScanPersist
  <1>2. CASE UNCHANGED <<db, adrift, loose>>
    <2>1. Typed'
      BY <1>1, <1>2 DEF Inv, Typed, Emitted
    <2>2. Kept'
      BY <1>1 DEF Inv, Kept, DismissalsStand, Holds, Own, Entries
    <2>3. Mirrored'
      BY <1>1, <1>2 DEF Inv, Mirrored, Pending
    <2>4. Gone'
      BY <1>1, <1>2 DEF Inv, Gone, Purging
    <2> QED BY <2>1, <2>2, <2>3, <2>4 DEF Inv
  <1>3. CASE /\ db' = Row(Result) /\ adrift' = ~scan.current
             /\ loose' = IF scan.current THEN {} ELSE scan.issues
    <2>1. /\ scan.body \in Body /\ scan.side \in Sidecar \cup {Null}
          /\ scan.issues \in SUBSET Value /\ scan.current \in BOOLEAN
          /\ scan.issues = Emitted(scan.body, scan.side)
      BY <1>1 DEF Inv, Typed
    <2>2. db' = [body |-> scan.body,
                 ident |-> IF scan.side = Null THEN Null ELSE scan.side.ident,
                 notes |-> Notes(scan.side), issues |-> scan.issues]
      BY <1>3 DEF Row, Result
    <2>3. (IF scan.side = Null THEN Null ELSE scan.side.ident) \in Body \cup {Null}
      BY <2>1 DEF Sidecar
    <2>4. Typed'
      BY <1>1, <1>3, <2>1, <2>2, <2>3, NotesTyped DEF Inv, Typed, Emitted
    <2>5. Kept'
      BY <1>1 DEF Inv, Kept, DismissalsStand, Holds, Own, Entries
    <2>6. Mirrored'
      <3>1. CASE ~scan.current
        BY <1>1, <1>3, <3>1 DEF Inv, Mirrored, Pending
      <3>2. CASE scan.current
        <4>1. db'.notes = Notes(file')
          BY <1>1, <2>2, <3>2 DEF Inv, Mirrored
        <4> QED BY <1>1, <4>1 DEF Inv, Mirrored, Pending
      <3> QED BY <3>1, <3>2
    <2>7. ASSUME NEW x \in db'.issues \ loose', <<"issue", x>> \in standing
          PROVE  FALSE
      <3>1. scan.current /\ x \in Emitted(scan.body, scan.side)
        BY <1>3, <2>1, <2>2, <2>7
      <3>2. scan.side = file
        BY <1>1, <3>1 DEF Inv, Mirrored
      <3>3. x \in Existing(Notes(file), "issue")
        BY <2>7, EntriesOf DEF Inv, Kept, DismissalsStand, Entries
      <3> QED BY <3>1, <3>2, <3>3 DEF Emitted
    <2>8. Gone'
      BY <1>1, <2>7 DEF Gone
    <2> QED BY <2>4, <2>5, <2>6, <2>8 DEF Inv
  <1> QED BY <1>2, <1>3 DEF ScanPersist

LEMMA HandEditSafe ==
    ASSUME Inv, NEW f \in HandEdited, HandEdit(f)
    PROVE  Inv'
  <1> DEFINE o(q) == Overtaken(q, {}, Null)
  <1>1. /\ file' = f /\ scan' = Unread /\ standing' = standing \cap Entries(f)
        /\ adrift' = TRUE /\ UNCHANGED <<body, db, loose>>
        /\ op' = [q \in Actor |-> o(q)]
    BY DEF HandEdit
  <1>2. f \in Sidecar \cup {Null}
    <2>1. CASE f = Null
      BY <2>1
    <2>2. CASE f # Null
      <3>1. file \in Sidecar
        BY <2>2 DEF Inv, Typed, HandEdited
      <3>2. PICK k \in Keys : \E X \in Listed(k) : f = [file EXCEPT !.notes[k] = X]
        BY <2>2 DEF HandEdited
      <3>3. PICK X \in Listed(k) : f = [file EXCEPT !.notes[k] = X]
        BY <3>2
      <3>4. [file.notes EXCEPT ![k] = X] \in Annotations
        BY <3>1 DEF Sidecar, Annotations, Listed, Keys, Item
      <3>5. /\ file = [ident |-> file.ident, notes |-> file.notes]
            /\ file.ident \in Body
        BY <3>1 DEF Sidecar
      <3>6. f = [ident |-> file.ident, notes |-> [file.notes EXCEPT ![k] = X]]
        BY <3>3, <3>5
      <3> QED BY <3>4, <3>5, <3>6 DEF Sidecar
    <2> QED BY <2>1, <2>2
  <1>3. ASSUME NEW q \in Actor
        PROVE  /\ op'[q] \in Request /\ WellMeant(op'[q]) /\ ~op'[q].current
               /\ op'[q].at = op[q].at /\ op'[q].kind = op[q].kind
               /\ op'[q].key = op[q].key
               /\ op'[q].item = op[q].item /\ op'[q].list = op[q].list
               /\ op'[q].merged = op[q].merged /\ op'[q].missed = op[q].missed
    <2>1. op'[q] = o(q)
      BY <1>1
    <2>2. Typed /\ {} \in SUBSET Entry
      BY DEF Inv
    <2>3. /\ o(q) \in Request /\ WellMeant(o(q)) /\ ~o(q).current
          /\ o(q).at = op[q].at /\ o(q).kind = op[q].kind /\ o(q).key = op[q].key
          /\ o(q).item = op[q].item /\ o(q).list = op[q].list
          /\ o(q).merged = op[q].merged
          /\ o(q).missed = IF Exposed(q, Null)
                              THEN op[q].missed \cup {} ELSE op[q].missed
      BY <2>2, OvertakenTyped, ZenonT(60)
    <2>4. o(q).missed = op[q].missed
      BY <2>3
    <2> HIDE DEF o
    <2> QED BY <2>1, <2>3, <2>4
  <1>4. Typed'
    <2>1. op' \in [Actor -> Request]
      BY <1>1, <1>3
    <2> QED BY <1>1, <1>2, <1>3, <2>1, UnreadTyped DEF Inv, Typed, Emitted
  <1>5. Kept'
    <2>1. ASSUME NEW q \in Actor
          PROVE  Holds(op[q])'
      <3>1. Holds(op[q]) /\ standing' \subseteq standing
        BY <1>1 DEF Inv, Kept
      <3> QED BY <1>3, <3>1 DEF Holds, Own, Entries
    <2> QED BY <1>1, <2>1 DEF Kept, DismissalsStand, Entries
  <1>6. Mirrored'
    BY <1>1, <1>3, UnreadTyped DEF Inv, Mirrored
  <1>7. Gone'
    <2>1. ASSUME NEW x \in db.issues \ loose, <<"issue", x>> \in standing
          PROVE  \E q \in Actor : Purging(op'[q], x)
      <3>1. PICK q \in Actor : Purging(op[q], x)
        BY <2>1 DEF Inv, Gone
      <3> QED BY <1>3, <3>1 DEF Purging
    <2> QED BY <1>1, <2>1 DEF Gone, Purging
  <1> QED BY <1>4, <1>5, <1>6, <1>7 DEF Inv

\* Who dies with a mirror to write leaves it adrift, and a row not purged loose.
LEMMA CrashSafe ==
    ASSUME Inv, NEW P \in SUBSET Actor, Crash(P)
    PROVE  Inv'
  <1> DEFINE cut  == {p \in P : op[p].at \in {"refresh", "mirror", "purge"}}
             left == {q \in cut : op[q].key = "issue" /\ op[q].kind = "dismiss"}
  <1>1. /\ op' = [p \in Actor |-> IF p \in P THEN Idle ELSE op[p]]
        /\ adrift' = (adrift \/ \E p \in cut : op[p].at # "purge")
        /\ loose' = loose \cup UNION {op[p].item : p \in left}
        /\ UNCHANGED <<body, file, db, scan, standing>>
    BY DEF Crash
  <1>2. \A q \in Actor : op'[q] = IF q \in P THEN Idle ELSE op[q]
    BY <1>1
  <1>3. Typed'
    <2>1. op' \in [Actor -> Request] /\ \A q \in Actor : WellMeant(op'[q])
      BY <1>1, IdleRequest DEF Inv, Typed
    <2>2. \A p \in left : op[p].item \subseteq Value
      BY DEF Inv, Typed, WellMeant, Item
    <2>3. loose' \subseteq Value
      BY <1>1, <2>2 DEF Inv, Typed
    <2>4. adrift' \in BOOLEAN
      BY <1>1 DEF Inv, Typed
    <2> QED BY <1>1, <2>1, <2>3, <2>4 DEF Inv, Typed, Emitted
  <1>4. Kept'
    <2>1. \A q \in Actor : Holds(op'[q])
      BY <1>2, IdleHolds DEF Inv, Kept
    <2> QED BY <1>1, <2>1 DEF Inv, Kept, DismissalsStand, Holds, Own, Entries
  <1>5. Mirrored'
    <2>1. ASSUME ~adrift'
          PROVE  db.notes = Notes(file) \/ \E q \in Actor : Pending(op'[q])
      <3>1. CASE db.notes = Notes(file)
        BY <3>1
      <3>2. CASE \E q \in Actor : Pending(op[q])
        <4>1. PICK q \in Actor : Pending(op[q])
          BY <3>2
        <4>2. q \notin P
          BY <1>1, <2>1, <4>1 DEF Pending
        <4> QED BY <1>2, <4>1, <4>2
      <3> QED BY <1>1, <2>1, <3>1, <3>2 DEF Inv, Mirrored
    <2>2. \A q \in Actor : op'[q].at = "mirror" /\ op'[q].current => op'[q].view = Notes(file)
      BY <1>2, IdleRequest DEF Inv, Mirrored
    <2> QED BY <1>1, <2>1, <2>2 DEF Inv, Mirrored, Pending
  <1>6. Gone'
    <2>1. ASSUME NEW x \in db.issues \ loose', <<"issue", x>> \in standing
          PROVE  \E q \in Actor : Purging(op'[q], x)
      <3>1. PICK q \in Actor : Purging(op[q], x)
        BY <1>1, <2>1 DEF Inv, Gone
      <3>2. q \notin P
        BY <1>1, <2>1, <3>1 DEF Purging
      <3> QED BY <1>2, <3>1, <3>2
    <2> QED BY <1>1, <2>1 DEF Gone, Purging
  <1> QED BY <1>3, <1>4, <1>5, <1>6 DEF Inv

LEMMA StillSafe ==
    ASSUME Inv, UNCHANGED <<file, db, scan, op, standing, adrift, loose>>, body' \in Body
    PROVE  Inv'
  <1>1. Typed'
    BY DEF Inv, Typed, Emitted
  <1>2. Kept' /\ Mirrored' /\ Gone'
    BY DEF Inv, Kept, DismissalsStand, Holds, Own, Entries, Mirrored, Pending, Gone, Purging
  <1> QED BY <1>1, <1>2 DEF Inv

LEMMA InitSafe == Init => Inv
  <1> SUFFICES ASSUME Init
               PROVE  Inv
    OBVIOUS
  <1>1. /\ body \in Body /\ file = Null /\ scan = Null /\ standing = {} /\ loose = {}
        /\ adrift = FALSE /\ op = [p \in Actor |-> Idle]
    BY DEF Init
  <1>2. db = [body |-> body, ident |-> Null, notes |-> NoNotes, issues |-> Flags[body]]
    BY DEF Init, Row, Notes
  <1>3. Typed
    BY <1>1, <1>2, IdleRequest, NotesTyped, DismissalsAssumption DEF Typed, Notes
  <1>4. Kept
    BY <1>1, IdleHolds DEF Kept, DismissalsStand
  <1>5. Mirrored
    BY <1>1, <1>2, IdleRequest DEF Mirrored, Notes
  <1> QED BY <1>1, <1>3, <1>4, <1>5 DEF Inv, Gone

LEMMA NextSafe == Inv /\ [Next]_vars => Inv'
  <1> SUFFICES ASSUME Inv, [Next]_vars
               PROVE  Inv'
    OBVIOUS
  <1>1. CASE DismissStep
    <2>1. PICK p \in Actor, e \in Entry : Dismiss(p, e[1], e[2])
      BY <1>1 DEF DismissStep
    <2> QED BY <2>1, EntryTyped, DismissSafe
  <1>2. CASE RestoreStep
    <2>1. CASE \E p \in Actor, e \in Entry : Restore(p, e[1], {e[2]})
      <3>1. PICK p \in Actor, e \in Entry : Restore(p, e[1], {e[2]})
        BY <2>1
      <3>2. e[1] \in Keys /\ {e[2]} \in SUBSET Item[e[1]]
        BY EntryTyped
      <3> QED BY <3>1, <3>2, RestoreSafe
    <2>2. CASE \E p \in Cli, c \in Class :
                  Restore(p, "class", {d \in Class : FinderOf[d] = FinderOf[c]})
      <3>1. PICK p \in Cli, c \in Class :
                  Restore(p, "class", {d \in Class : FinderOf[d] = FinderOf[c]})
        BY <2>2
      <3>2. /\ p \in Actor /\ "class" \in Keys
            /\ {d \in Class : FinderOf[d] = FinderOf[c]} \in SUBSET Item["class"]
        BY DEF Actor, Keys, Item
      <3> QED BY <3>1, <3>2, RestoreSafe
    <2> QED BY <1>2, <2>1, <2>2 DEF RestoreStep
  <1>3. CASE \E p \in Actor : Bump(p)
    BY <1>3, BumpSafe
  <1>4. CASE \E p \in Actor : Step(p)
    BY <1>4, LookupSafe, RefuseSafe, MergeSafe, SaveSafe, RefreshSafe, MirrorSafe,
       PurgeSafe DEF Step
  <1>5. CASE (\E full \in BOOLEAN : ScanRead(full)) \/ ScanPersist
    BY <1>5, ScanReadSafe, ScanPersistSafe
  <1>6. CASE Accident
    <2>1. CASE Crash(Server) \/ \E p \in Cli : Crash({p})
      <3>1. PICK P \in SUBSET Actor : Crash(P)
        BY <2>1 DEF Actor
      <3> QED BY <3>1, CrashSafe
    <2>2. CASE \E f \in HandEdited : HandEdit(f)
      BY <2>2, HandEditSafe
    <2>3. CASE \E b \in Body : EditBody(b)
      BY <2>3, StillSafe DEF EditBody
    <2> QED BY <1>6, <2>1, <2>2, <2>3 DEF Accident
  <1>7. CASE UNCHANGED vars
    <2>1. body' \in Body
      BY <1>7 DEF Inv, Typed, vars
    <2> QED BY <1>7, <2>1, StillSafe DEF vars
  <1> QED BY <1>1, <1>2, <1>3, <1>4, <1>5, <1>6, <1>7 DEF Next

-----------------------------------------------------------------------------
\* However many requests and processes edit the two lists, an acknowledged
\* dismissal stays in the sidecar unless a request that overlapped it in the
\* same list, or another process that had merged before it, writes it away.
THEOREM DismissalsLast == Spec => []DismissalsStand
  <1>1. Inv => DismissalsStand
    BY DEF Inv, Kept
  <1> QED BY <1>1, InitSafe, NextSafe, PTL DEF Spec

\* Where the mirror is not adrift, it agrees with the sidecar as soon as
\* nothing is in flight.
THEOREM MirrorIsTrue == Spec => []MirrorFollowsFile
  <1>1. Inv => MirrorFollowsFile
    <2> SUFFICES ASSUME Inv, Quiet, ~adrift
                 PROVE  db.notes = Notes(file)
      BY DEF MirrorFollowsFile
    <2>1. \A p \in Actor : ~Pending(op[p])
      BY IdleBefore DEF Quiet
    <2> QED BY <2>1 DEF Inv, Mirrored
  <1> QED BY <1>1, InitSafe, NextSafe, PTL DEF Spec

\* A dismissed issue that has its row still has a request that takes it away,
\* unless a scan older than the dismissal, or a crash, left the row loose.
THEOREM DismissedHasNoRow == Spec => []DismissedIsGone
  <1>1. Inv => DismissedIsGone
    BY DEF Inv, Gone, Purging, DismissedIsGone
  <1> QED BY <1>1, InitSafe, NextSafe, PTL DEF Spec
=============================================================================
