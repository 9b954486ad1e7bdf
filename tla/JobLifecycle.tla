---------------------------- MODULE JobLifecycle ----------------------------
(***************************************************************************)
(* What the queue promises of one job, whatever processes work on it: the  *)
(* state machine of a state_jobs row.  A job passes through it exactly     *)
(* once; its verdict, the execution a record leaves behind, is written in  *)
(* the very step that closes a running job and is never revised.           *)
(***************************************************************************)
CONSTANT JobId

VARIABLES
    phase,     \* where each job is
    verdict    \* what its execution row says, if it has one

vars == <<phase, verdict>>

Phase   == {"absent", "queued", "running", "completed", "failed", "cancelled",
            "pruned"}
Verdict == {"none", "completed", "failed"}

TypeInvariant ==
    /\ phase \in [JobId -> Phase]
    /\ verdict \in [JobId -> Verdict]

Init ==
    /\ phase = [j \in JobId |-> "absent"]
    /\ verdict = [j \in JobId |-> "none"]

\* At most one job changes in the three steps below, so no two claimants get
\* the same job and no two records land on it.
Only(j, p, v) ==
    /\ phase' = [phase EXCEPT ![j] = p]
    /\ verdict' = [verdict EXCEPT ![j] = v]

Claim(j) ==
    /\ phase[j] = "queued"
    /\ Only(j, "running", "none")

Record(j) ==
    /\ phase[j] = "running"
    /\ \E v \in {"completed", "failed"} : Only(j, v, v)

\* Admitting a job may cancel queued ones; a running job is left alone.
Submit(j) ==
    /\ phase[j] = "absent"
    /\ \E S \in SUBSET {k \in JobId : phase[k] = "queued"} :
          phase' = [k \in JobId |-> IF k = j THEN "queued"
                                    ELSE IF k \in S THEN "cancelled"
                                    ELSE phase[k]]
    /\ UNCHANGED verdict

\* The operator's cancel and fail, and the reaper.
Close ==
    /\ \E S \in SUBSET {k \in JobId : phase[k] \in {"queued", "running"}},
          p \in {"cancelled", "failed"} :
          phase' = [k \in JobId |-> IF k \in S THEN p ELSE phase[k]]
    /\ UNCHANGED verdict

\* Retention drops closed jobs; their verdicts stay.
Prune ==
    /\ \E S \in SUBSET {k \in JobId :
                          phase[k] \in {"completed", "failed", "cancelled"}} :
          phase' = [k \in JobId |-> IF k \in S THEN "pruned" ELSE phase[k]]
    /\ UNCHANGED verdict

Next == Close \/ Prune \/ \E j \in JobId : Claim(j) \/ Record(j) \/ Submit(j)

Spec == Init /\ [][Next]_vars
=============================================================================
