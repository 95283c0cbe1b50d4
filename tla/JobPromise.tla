----------------------------- MODULE JobPromise -----------------------------
(***************************************************************************)
(* What the job queue promises whoever queues a job, with no clock, lease, *)
(* attempt number, worker or unique key in sight: a job starts no more     *)
(* often than it was allowed to, members of a project run one at a time,   *)
(* and a job that is done stays done.                                      *)
(***************************************************************************)
EXTENDS Naturals

CONSTANTS Jobs,        \* the jobs
          Allowance,   \* Allowance[j]: the starts the submitter asked for
          Project,     \* Project[j]: the project j belongs to
          NoProject    \* a job that belongs to none

VARIABLES state,   \* where each job stands
          left     \* starts each job has left

vars == <<state, left>>

States == {"absent", "waiting", "active", "done", "gaveUp", "removed"}

TypeOK == state \in [Jobs -> States] /\ left \in [Jobs -> Nat]

Init ==
    /\ state = [j \in Jobs |-> "absent"]
    /\ left = [j \in Jobs |-> 0]

Submit(j) ==
    /\ state[j] = "absent"
    /\ state' = [state EXCEPT ![j] = "waiting"]
    /\ left' = [left EXCEPT ![j] = Allowance[j]]

\* A start spends one of the job's starts, when nobody of its project is active.
Begin(j) ==
    /\ state[j] = "waiting" /\ left[j] > 0
    /\ Project[j] # NoProject =>
         ~\E k \in Jobs : Project[k] = Project[j] /\ state[k] = "active"
    /\ state' = [state EXCEPT ![j] = "active"]
    /\ left' = [left EXCEPT ![j] = @ - 1]

Finish(j) ==
    /\ state[j] = "active"
    /\ state' = [state EXCEPT ![j] = "done"]
    /\ UNCHANGED left

\* Active jobs end without success: those that have a start left may wait again.
Interrupt ==
    /\ \E again, over \in SUBSET {j \in Jobs : state[j] = "active"} :
         /\ \A j \in again : left[j] > 0
         /\ state' = [j \in Jobs |-> IF j \in again THEN "waiting"
                                     ELSE IF j \in over THEN "gaveUp"
                                     ELSE state[j]]
    /\ UNCHANGED left

\* An administrator grants a job that gave up one more start.
Reopen(j) ==
    /\ state[j] = "gaveUp"
    /\ state' = [state EXCEPT ![j] = "waiting"]
    /\ left' = [left EXCEPT ![j] = @ + 1]

Remove(j) ==
    /\ state[j] \notin {"absent", "removed"}
    /\ state' = [state EXCEPT ![j] = "removed"]
    /\ left' = [left EXCEPT ![j] = 0]

Next ==
    \/ \E j \in Jobs : Submit(j) \/ Begin(j) \/ Finish(j) \/ Reopen(j) \/ Remove(j)
    \/ Interrupt

Spec == Init /\ [][Next]_vars
=============================================================================
