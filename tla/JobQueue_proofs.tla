--------------------------- MODULE JobQueue_proofs ---------------------------
(***************************************************************************)
(* Proofs about JobQueue for any number of workers and jobs, any lease,    *)
(* backoff table, submissions and bounds.                                  *)
(***************************************************************************)
EXTENDS JobQueue, WellFoundedInduction, TLAPS

\* Job ids are positive.
LEMMA JobsType == Jobs \subseteq Nat \ {0}
BY DefAssumption DEF Jobs

\* The states a goroutine moves to are well typed.
LEMMA GoroutineType ==
    /\ Off \in Goroutines /\ Off.phase = "off"
    /\ Idle \in Goroutines /\ Idle.phase = "idle"
    /\ \A n \in 0 .. 4, t \in Nat :
         /\ Sweeping(n, t) \in Goroutines
         /\ Sweeping(n, t).phase = "sweep" /\ Sweeping(n, t).asOf = t
    /\ \A j \in Jobs, a \in Nat :
         /\ Executing(j, a) \in Goroutines /\ Executing(j, a).phase = "body"
         /\ Executing(j, a).job = j /\ Executing(j, a).attempt = a
BY DEF Off, Idle, Sweeping, Executing, Goroutine, Goroutines, Phases

\* A worker at the head of its loop is idle or gone.
LEMMA LoopHeadType ==
    ASSUME NEW w
    PROVE  LoopHead(w) \in Goroutines /\ LoopHead(w).phase \in {"off", "idle"}
BY GoroutineType DEF LoopHead

\* The retry delay is a natural number, however many attempts were made.
LEMMA BackoffType ==
    ASSUME NEW n \in Nat PROVE Backoff(n) \in Nat
BY TimeAssumption DEF Backoff

-----------------------------------------------------------------------------
TypeInv == TypeOK /\ WorkerInv

\* The queue starts with typed rows and no goroutine holding a job.
LEMMA TypeInit == Init => TypeInv
BY TimeAssumption, BoundAssumption, GoroutineType
   DEF Init, TypeInv, TypeOK, WorkerInv, Statuses, Null

\* Every action keeps the types, and every goroutine its shape.
LEMMA TypeStep == TypeInv /\ [Next]_vars => TypeInv'
<1> SUFFICES ASSUME TypeInv, [Next]_vars PROVE TypeInv'
  OBVIOUS
<1> USE JobsType, GoroutineType
    DEF TypeInv, TypeOK, table, dates, history
<1>0. ASSUME NEW w \in Workers, worker' = [worker EXCEPT ![w] = LoopHead(w)],
            UNCHANGED clock
      PROVE  WorkerInv' /\ worker' \in [Workers -> Goroutines]
  <2>1. LoopHead(w) \in Goroutines /\ LoopHead(w).phase \in {"off", "idle"}
    BY LoopHeadType
  <2> QED BY <1>0, <2>1 DEF WorkerInv
<1>1. ASSUME NEW w \in Workers, Start(w) PROVE TypeInv'
  <2>1. faults' \in 0 .. MaxFaults
    BY <1>1, BoundAssumption DEF Start
  <2>2. WorkerInv' /\ worker' \in [Workers -> Goroutines]
    BY <1>1 DEF Start, WorkerInv
  <2> QED BY <1>1, <2>1, <2>2 DEF Start
<1>2. ASSUME NEW w \in Workers, Exit(w) PROVE TypeInv'
  BY <1>2 DEF Exit, WorkerInv
<1>3. ASSUME NEW w \in Workers, RecoverCheck(w) PROVE TypeInv'
  BY <1>3 DEF RecoverCheck, WorkerInv
<1>4. ASSUME NEW w \in Workers, SweepRequeue(w) PROVE TypeInv'
  <2>1. PICK n \in 1 .. 3 :
          /\ status' = [j \in Jobs |-> IF Recovered(w, n, j) THEN "pending"
                                       ELSE status[j]]
          /\ lease' = [j \in Jobs |-> IF Recovered(w, n, j) THEN Null
                                      ELSE lease[j]]
          /\ worker' = [worker EXCEPT ![w] = Sweeping(n + 1, worker[w].asOf)]
    BY <1>4 DEF SweepRequeue
  <2>2. worker[w].asOf \in Nat /\ worker[w].asOf <= clock
    BY <1>4 DEF SweepRequeue, WorkerInv, Goroutines
  <2>3. WorkerInv' /\ worker' \in [Workers -> Goroutines]
    BY <1>4, <2>1, <2>2 DEF SweepRequeue, WorkerInv
  <2>4. status' \in [Jobs -> Statuses] /\ lease' \in [Jobs -> Nat]
    BY <2>1 DEF Statuses, Null
  <2> QED BY <1>4, <2>3, <2>4 DEF SweepRequeue
<1>5. ASSUME NEW w \in Workers, SweepFail(w) PROVE TypeInv'
  <2>1. WorkerInv' /\ worker' \in [Workers -> Goroutines]
    BY <1>0, <1>5 DEF SweepFail
  <2> QED BY <1>5, <2>1 DEF SweepFail, Statuses
<1>6. ASSUME NEW w \in Workers, NEW j \in Jobs, Claim(w, j) PROVE TypeInv'
  <2>1. WorkerInv' /\ worker' \in [Workers -> Goroutines]
    BY <1>6 DEF Claim, WorkerInv
  <2>2. lease' \in [Jobs -> Nat]
    <3>1. lease' = [lease EXCEPT ![j] = clock + LeaseTTL]
      BY <1>6 DEF Claim
    <3> QED BY <3>1, TimeAssumption
  <2>3. status' \in [Jobs -> Statuses] /\ last' \in [Jobs -> {"open", "settled"}]
    BY <1>6 DEF Claim, Statuses
  <2>4. attempts' \in [Jobs -> Nat] /\ starts' \in [Jobs -> Nat]
    BY <1>6 DEF Claim
  <2> QED BY <1>6, <2>1, <2>2, <2>3, <2>4 DEF Claim
<1>7. ASSUME NEW w \in Workers, NEW outcome \in Outcomes, Settle(w, outcome)
      PROVE  TypeInv'
  <2> DEFINE j == worker[w].job
  <2>1. j \in Jobs /\ worker[w].attempt \in Nat \ {0}
    <3>1. worker[w].phase = "body"
      BY <1>7 DEF Settle
    <3>2. worker[w].job \in Jobs /\ worker[w].attempt > 0
      BY <3>1 DEF WorkerInv
    <3>3. worker[w].attempt \in Nat
      BY DEF Goroutines
    <3> QED BY <3>2, <3>3
  <2>2. Backoff(worker[w].attempt - 1) \in Nat
    BY <2>1, BackoffType
  <2>3. notBefore' \in [Jobs -> Nat] /\ runAt' \in [Jobs -> Nat]
    BY <1>7, <2>1, <2>2 DEF Settle, BacksOff
  <2>4. status' \in [Jobs -> Statuses] /\ lease' \in [Jobs -> Nat]
        /\ last' \in [Jobs -> {"open", "settled"}]
    <3>1. Verdict(w, j, outcome) \in Statuses
      BY DEF Verdict, Statuses
    <3>2. \/ /\ status' = [status EXCEPT ![j] = Verdict(w, j, outcome)]
             /\ lease' = [lease EXCEPT ![j] = Null]
             /\ last' = [last EXCEPT ![j] = "settled"]
          \/ UNCHANGED <<status, lease, last>>
      BY <1>7 DEF Settle
    <3> QED BY <2>1, <3>1, <3>2 DEF Null
  <2>5. WorkerInv' /\ worker' \in [Workers -> Goroutines]
    BY <1>0, <1>7 DEF Settle
  <2> QED BY <1>7, <2>3, <2>4, <2>5 DEF Settle
<1>8. ASSUME NEW w \in Workers, Unsettled(w) PROVE TypeInv'
  <2>1. WorkerInv' /\ worker' \in [Workers -> Goroutines]
    BY <1>0, <1>8 DEF Unsettled
  <2> QED BY <1>8, <2>1, BoundAssumption DEF Unsettled
<1>9. ASSUME NEW w \in Workers, Heartbeat(w) PROVE TypeInv'
  <2>1. worker[w].job \in Jobs /\ clock + LeaseTTL \in Nat
    BY <1>9, TimeAssumption DEF Heartbeat, Beating, WorkerInv
  <2>2. lease' = [lease EXCEPT ![worker[w].job] = clock + LeaseTTL]
    BY <1>9 DEF Heartbeat
  <2>3. lease' \in [Jobs -> Nat]
    BY <2>1, <2>2
  <2> QED BY <1>9, <2>3 DEF Heartbeat, WorkerInv
<1>10. ASSUME NEW j \in Jobs, Enqueue(j) PROVE TypeInv'
  BY <1>10, DefAssumption DEF Enqueue, WorkerInv, Statuses
<1>11. ASSUME NEW j \in Jobs, AdminRetry(j) PROVE TypeInv'
  <2>1. retries' \in [Jobs -> 0 .. MaxRetries]
    BY <1>11, BoundAssumption DEF AdminRetry
  <2>2. status' \in [Jobs -> Statuses] /\ last' \in [Jobs -> {"open", "settled"}]
    BY <1>11 DEF AdminRetry, Statuses
  <2>3. runAt' \in [Jobs -> Nat] /\ notBefore' \in [Jobs -> Nat]
        /\ slot' \in [Jobs -> Nat]
    BY <1>11 DEF AdminRetry, Null
  <2> QED BY <1>11, <2>1, <2>2, <2>3 DEF AdminRetry, WorkerInv
<1>12. ASSUME NEW j \in Jobs, Removed(j) PROVE TypeInv'
  BY <1>12, BoundAssumption DEF Removed, WorkerInv, Statuses, Null
<1>13. ASSUME Crash PROVE TypeInv'
  BY <1>13, BoundAssumption DEF Crash, WorkerInv
<1>14. ASSUME Tick PROVE TypeInv'
  <2>1. \A w \in Workers : worker[w].asOf \in Nat
    BY DEF Goroutines
  <2> QED BY <1>14, <2>1 DEF Tick, WorkerInv
<1>15. ASSUME UNCHANGED vars PROVE TypeInv'
  BY <1>15 DEF vars, WorkerInv
<1> QED
  BY <1>1, <1>2, <1>3, <1>4, <1>5, <1>6, <1>7, <1>8, <1>9, <1>10, <1>11, <1>12,
     <1>13, <1>14, <1>15 DEF Next, WorkerStep, AdminStep, AdminDelete, Prune

\* The columns, the goroutines and the history keep their types: no action
\* leaves a row, a worker or a lease half written.
THEOREM TypeCorrect == Spec => []TypeOK
<1>1. TypeInv => TypeOK
  BY DEF TypeInv
<1> QED BY TypeInit, TypeStep, <1>1, PTL DEF Spec

-----------------------------------------------------------------------------
\* At most one running row per project is kept by every step.
LEMMA ExclusiveStep ==
    ASSUME TypeInv, GroupExclusive, [Next]_vars PROVE GroupExclusive'
<1> USE JobsType DEF TypeInv, TypeOK, table, dates, history, GroupExclusive, Grouped
<1>1. ASSUME NEW w \in Workers, SweepRequeue(w) PROVE GroupExclusive'
  <2>1. \A j \in Jobs : status'[j] = "running" => status[j] = "running"
    BY <1>1 DEF SweepRequeue
  <2> QED BY <2>1
<1>2. ASSUME NEW w \in Workers, SweepFail(w) PROVE GroupExclusive'
  <2>1. \A j \in Jobs : status'[j] = "running" => status[j] = "running"
    BY <1>2 DEF SweepFail
  <2> QED BY <2>1
<1>3. ASSUME NEW w \in Workers, NEW j \in Jobs, Claim(w, j) PROVE GroupExclusive'
  BY <1>3 DEF Claim, Claimable, GroupBusy
<1>4. ASSUME NEW w \in Workers, NEW outcome \in Outcomes, Settle(w, outcome)
      PROVE  GroupExclusive'
  <2>1. \A j \in Jobs : status'[j] = "running" => status[j] = "running"
    BY <1>4 DEF Settle, Owns
  <2> QED BY <2>1
<1>5. ASSUME NEW j \in Jobs, Enqueue(j) PROVE GroupExclusive'
  BY <1>5 DEF Enqueue
<1>6. ASSUME NEW j \in Jobs, AdminRetry(j) PROVE GroupExclusive'
  BY <1>6 DEF AdminRetry
<1>7. ASSUME NEW j \in Jobs, Removed(j) PROVE GroupExclusive'
  BY <1>7 DEF Removed
<1>8. ASSUME UNCHANGED status PROVE GroupExclusive'
  BY <1>8
<1> QED
  BY <1>1, <1>2, <1>3, <1>4, <1>5, <1>6, <1>7, <1>8
     DEF Next, WorkerStep, AdminStep, AdminDelete, Prune, vars, Start, Exit,
         RecoverCheck, Unsettled, Heartbeat, Crash, Tick

\* At most one active row per unique key is kept by every step.
LEMMA KeyStep ==
    ASSUME TypeInv, ActiveKeyUnique, [Next]_vars PROVE ActiveKeyUnique'
<1> USE JobsType
    DEF TypeInv, TypeOK, table, dates, history, ActiveKeyUnique, SharesKey, Active
<1>1. ASSUME NEW w \in Workers, SweepRequeue(w) PROVE ActiveKeyUnique'
  <2>1. \A j \in Jobs : Active(j)' => Active(j)
    BY <1>1 DEF SweepRequeue, Recovered, Orphaned
  <2> QED BY <2>1
<1>2. ASSUME NEW w \in Workers, SweepFail(w) PROVE ActiveKeyUnique'
  <2>1. \A j \in Jobs : Active(j)' => Active(j)
    BY <1>2 DEF SweepFail
  <2> QED BY <2>1
<1>3. ASSUME NEW w \in Workers, NEW j \in Jobs, Claim(w, j) PROVE ActiveKeyUnique'
  <2>1. \A k \in Jobs : Active(k)' => Active(k)
    BY <1>3 DEF Claim, Claimable, Due, Arrived
  <2> QED BY <2>1
<1>4. ASSUME NEW w \in Workers, NEW outcome \in Outcomes, Settle(w, outcome)
      PROVE  ActiveKeyUnique'
  <2>1. \A j \in Jobs : Active(j)' => Active(j)
    BY <1>4 DEF Settle, Owns
  <2> QED BY <2>1
<1>5. ASSUME NEW j \in Jobs, Enqueue(j) PROVE ActiveKeyUnique'
  BY <1>5 DEF Enqueue, KeyFree
<1>6. ASSUME NEW j \in Jobs, AdminRetry(j) PROVE ActiveKeyUnique'
  BY <1>6 DEF AdminRetry, KeyFree
<1>7. ASSUME NEW j \in Jobs, Removed(j) PROVE ActiveKeyUnique'
  BY <1>7 DEF Removed
<1>8. ASSUME UNCHANGED status PROVE ActiveKeyUnique'
  BY <1>8
<1> QED
  BY <1>1, <1>2, <1>3, <1>4, <1>5, <1>6, <1>7, <1>8
     DEF Next, WorkerStep, AdminStep, AdminDelete, Prune, vars, Start, Exit,
         RecoverCheck, Unsettled, Heartbeat, Crash, Tick

\* The attempt numbers in circulation stay distinct and handed out.
LEMMA FenceStep ==
    ASSUME TypeInv, FenceInv, [Next]_vars PROVE FenceInv'
<1> USE JobsType, GoroutineType
    DEF TypeInv, TypeOK, table, dates, history, FenceInv, Executes
<1>1. ASSUME NEW w \in Workers, SweepRequeue(w) PROVE FenceInv'
  <2>1. /\ \A j \in Jobs : status'[j] = "deleted" <=> status[j] = "deleted"
        /\ \A v \in Workers : worker'[v].phase = "body" =>
             worker'[v] = worker[v]
    <3>1. PICK n \in 1 .. 3 :
            /\ status' = [j \in Jobs |-> IF Recovered(w, n, j) THEN "pending"
                                         ELSE status[j]]
            /\ worker' = [worker EXCEPT ![w] = Sweeping(n + 1, worker[w].asOf)]
      BY <1>1 DEF SweepRequeue
    <3>2. worker[w].asOf \in Nat
      BY DEF Goroutines
    <3> QED BY <3>1, <3>2 DEF Recovered, Orphaned
  <2> QED BY <1>1, <2>1 DEF SweepRequeue
<1>2. ASSUME NEW w \in Workers, SweepFail(w) PROVE FenceInv'
  <2>1. \A j \in Jobs : status'[j] = "deleted" <=> status[j] = "deleted"
    BY <1>2 DEF SweepFail, Abandons, Orphaned
  <2>2. LoopHead(w).phase \in {"off", "idle"}
    BY LoopHeadType
  <2>3. \A v \in Workers : worker'[v].phase = "body" => worker'[v] = worker[v]
    BY <1>2, <2>2 DEF SweepFail
  <2> QED BY <1>2, <2>1, <2>3 DEF SweepFail
<1>3. ASSUME NEW w \in Workers, NEW j \in Jobs, Claim(w, j) PROVE FenceInv'
  <2>1. \A k \in Jobs : status'[k] = "deleted" <=> status[k] = "deleted"
    BY <1>3 DEF Claim, Claimable, Due, Arrived
  <2>2. /\ attempts' = [attempts EXCEPT ![j] = @ + 1]
        /\ starts' = [starts EXCEPT ![j] = @ + 1]
        /\ worker' = [worker EXCEPT ![w] = Executing(j, attempts[j] + 1)]
    BY <1>3 DEF Claim
  <2>3. attempts[j] + 1 \in Nat /\ \A k \in Jobs : attempts'[k] = starts'[k]
    BY <2>2
  <2>4. ASSUME NEW k \in Jobs, NEW v \in Workers, Executes(v, k)'
        PROVE  worker'[v].attempt \in 1 .. attempts'[k]
    BY <2>1, <2>2, <2>4, <2>3
  <2>5. ASSUME NEW k \in Jobs, NEW u \in Workers, NEW v \in Workers, u # v,
               Executes(u, k)', Executes(v, k)'
        PROVE  worker'[u].attempt # worker'[v].attempt
    BY <2>1, <2>2, <2>3, <2>5
  <2> QED BY <2>3, <2>4, <2>5
<1>4. ASSUME NEW w \in Workers, NEW outcome \in Outcomes, Settle(w, outcome)
      PROVE  FenceInv'
  <2>1. \A j \in Jobs : status'[j] = "deleted" <=> status[j] = "deleted"
    BY <1>4 DEF Settle, Owns, Verdict
  <2>2. \A v \in Workers : worker'[v].phase = "body" => worker'[v] = worker[v]
    BY <1>4, LoopHeadType DEF Settle
  <2> QED BY <1>4, <2>1, <2>2 DEF Settle
<1>5. ASSUME NEW j \in Jobs, Enqueue(j) PROVE FenceInv'
  BY <1>5 DEF Enqueue
<1>6. ASSUME NEW j \in Jobs, AdminRetry(j) PROVE FenceInv'
  BY <1>6 DEF AdminRetry
<1>7. ASSUME NEW j \in Jobs, Removed(j) PROVE FenceInv'
  BY <1>7 DEF Removed
<1>8. ASSUME /\ UNCHANGED <<status, attempts, starts>>
             /\ \A v \in Workers : worker'[v].phase = "body" =>
                  worker'[v] = worker[v]
      PROVE  FenceInv'
  BY <1>8
<1>9. ASSUME NEW w \in Workers, Start(w) \/ Exit(w) \/ RecoverCheck(w)
                                 \/ Unsettled(w) \/ Heartbeat(w)
      PROVE  FenceInv'
  <2>1. \A v \in Workers : worker'[v].phase = "body" => worker'[v] = worker[v]
    BY <1>9, LoopHeadType DEF Start, Exit, RecoverCheck, Unsettled, Heartbeat
  <2> QED BY <1>8, <1>9, <2>1 DEF Start, Exit, RecoverCheck, Unsettled, Heartbeat
<1>10. ASSUME Crash \/ Tick \/ UNCHANGED vars PROVE FenceInv'
  <2>1. \A v \in Workers : worker'[v].phase = "body" => worker'[v] = worker[v]
    BY <1>10 DEF Crash, Tick, vars
  <2> QED BY <1>8, <1>10, <2>1 DEF Crash, Tick, vars
<1> QED
  BY <1>1, <1>2, <1>3, <1>4, <1>5, <1>6, <1>7, <1>9, <1>10
     DEF Next, WorkerStep, AdminStep, AdminDelete, Prune

\* A fresh job has a start left.
LEMMA SumPositive == \A m \in Nat \ {0}, r \in Nat : 0 < m + r
OBVIOUS

\* No step spends more attempts than a job has left.
LEMMA BudgetStep ==
    ASSUME TypeInv, BudgetInv, [Next]_vars PROVE BudgetInv'
<1> USE DEF TypeInv, TypeOK, table, dates, history, BudgetInv
<1>0. \A j \in Jobs : /\ Def[j].max \in Nat \ {0} /\ attempts[j] \in Nat
                     /\ retries[j] \in Nat /\ retries'[j] \in Nat
  BY TypeStep, DefAssumption, BoundAssumption
<1>1. ASSUME NEW w \in Workers, SweepRequeue(w) PROVE BudgetInv'
  <2>1. PICK n \in 1 .. 3 : status' = [j \in Jobs |-> IF Recovered(w, n, j)
                                         THEN "pending" ELSE status[j]]
    BY <1>1 DEF SweepRequeue
  <2>2. \A j \in Jobs : Recovered(w, n, j) => attempts[j] < Def[j].max
    BY DEF Recovered, Requeues
  <2>3. UNCHANGED <<attempts, retries>>
    BY <1>1 DEF SweepRequeue
  <2> QED BY <1>0, <2>1, <2>2, <2>3
<1>2. ASSUME NEW w \in Workers, SweepFail(w) PROVE BudgetInv'
  BY <1>0, <1>2 DEF SweepFail
<1>3. ASSUME NEW w \in Workers, NEW j \in Jobs, Claim(w, j) PROVE BudgetInv'
  BY <1>0, <1>3 DEF Claim, Claimable, Due, Arrived
<1>4. ASSUME NEW w \in Workers, NEW outcome \in Outcomes, Settle(w, outcome)
      PROVE  BudgetInv'
  <2>1. ASSUME NEW j \in Jobs, status'[j] # status[j]
        PROVE  /\ status'[j] # "absent"
               /\ status'[j] = "pending" => attempts[j] < Def[j].max
    BY <1>0, <1>4, <2>1 DEF Settle, Owns, Verdict, GivesUp, Outcomes
  <2> QED BY <1>0, <1>4, <2>1 DEF Settle
<1>5. ASSUME NEW j \in Jobs, Enqueue(j) PROVE BudgetInv'
  <2>1. /\ attempts[j] = 0
        /\ status' = [status EXCEPT ![j] = "pending"]
        /\ UNCHANGED <<attempts, retries>>
    BY <1>5 DEF Enqueue
  <2>2. 0 < Def[j].max + retries[j]
    BY <1>0, SumPositive
  <2> QED BY <1>0, <2>1, <2>2
<1>6. ASSUME NEW j \in Jobs, AdminRetry(j) PROVE BudgetInv'
  BY <1>0, <1>6 DEF AdminRetry
<1>7. ASSUME NEW j \in Jobs, Removed(j) PROVE BudgetInv'
  BY <1>0, <1>7 DEF Removed
<1>8. ASSUME UNCHANGED <<status, attempts, retries>> PROVE BudgetInv'
  BY <1>8
<1> QED
  BY <1>1, <1>2, <1>3, <1>4, <1>5, <1>6, <1>7, <1>8
     DEF Next, WorkerStep, AdminStep, AdminDelete, Prune, vars, Start, Exit,
         RecoverCheck, Unsettled, Heartbeat, Crash, Tick

\* Only jobs that are safe to re-run go back to pending with an open attempt.
LEMMA OpenStep ==
    ASSUME TypeInv, OpenInv, [Next]_vars PROVE OpenInv'
<1> USE JobsType, TimeAssumption
    DEF TypeInv, TypeOK, table, dates, history, OpenInv, Null
<1>1. ASSUME NEW w \in Workers, SweepRequeue(w) PROVE OpenInv'
  <2>1. PICK n \in 1 .. 3 :
          /\ status' = [j \in Jobs |-> IF Recovered(w, n, j) THEN "pending"
                                       ELSE status[j]]
          /\ lease' = [j \in Jobs |-> IF Recovered(w, n, j) THEN Null
                                      ELSE lease[j]]
    BY <1>1 DEF SweepRequeue
  <2>2. \A j \in Jobs : Recovered(w, n, j) => RerunSafe(j)
    BY DEF Recovered, Requeues, RerunSafe
  <2>3. UNCHANGED last
    BY <1>1 DEF SweepRequeue
  <2> QED BY <2>1, <2>2, <2>3
<1>2. ASSUME NEW w \in Workers, SweepFail(w) PROVE OpenInv'
  BY <1>2 DEF SweepFail
<1>3. ASSUME NEW w \in Workers, NEW j \in Jobs, Claim(w, j) PROVE OpenInv'
  BY <1>3 DEF Claim
<1>4. ASSUME NEW w \in Workers, NEW outcome \in Outcomes, Settle(w, outcome)
      PROVE  OpenInv'
  <2>1. \A j \in Jobs : status'[j] # status[j] =>
          /\ status'[j] \in {"completed", "failed", "pending"}
          /\ last'[j] = "settled"
    BY <1>4 DEF Settle, Owns, Verdict
  <2>2. \A j \in Jobs : status'[j] = status[j] =>
          \/ last'[j] = last[j] /\ lease'[j] = lease[j]
          \/ status[j] = "running" /\ worker[w].job = j /\ Owns(w, j)
    BY <1>4 DEF Settle, Owns
  <2>3. \A j \in Jobs : worker[w].job = j /\ Owns(w, j) => status'[j] # status[j]
    BY <1>4 DEF Settle, Owns, Verdict
  <2> QED BY <1>4, <2>1, <2>2, <2>3
<1>5. ASSUME NEW w \in Workers, Heartbeat(w) PROVE OpenInv'
  <2>1. clock + LeaseTTL # 0
    OBVIOUS
  <2> QED BY <1>5, <2>1 DEF Heartbeat
<1>6. ASSUME NEW j \in Jobs, Enqueue(j) PROVE OpenInv'
  BY <1>6 DEF Enqueue
<1>7. ASSUME NEW j \in Jobs, AdminRetry(j) PROVE OpenInv'
  BY <1>7 DEF AdminRetry
<1>8. ASSUME NEW j \in Jobs, Removed(j) PROVE OpenInv'
  BY <1>8 DEF Removed
<1>9. ASSUME UNCHANGED <<status, lease, last>> PROVE OpenInv'
  BY <1>9
<1> QED
  BY <1>1, <1>2, <1>3, <1>4, <1>5, <1>6, <1>7, <1>8, <1>9
     DEF Next, WorkerStep, AdminStep, AdminDelete, Prune, vars, Start, Exit,
         RecoverCheck, Unsettled, Crash, Tick

-----------------------------------------------------------------------------
\* Whatever is written to a row's run_at is written to its slot.
LEMMA SlotStep ==
    ASSUME TypeInv, SlotInv, [Next]_vars PROVE SlotInv'
<1> USE DEF TypeInv, TypeOK, table, dates, history, SlotInv
<1>1. ASSUME NEW j \in Jobs, Enqueue(j) \/ AdminRetry(j) \/ Removed(j) PROVE SlotInv'
  BY <1>1 DEF Enqueue, AdminRetry, Removed
<1>2. ASSUME NEW w \in Workers, NEW outcome \in Outcomes, Settle(w, outcome) PROVE SlotInv'
  BY <1>2 DEF Settle, BacksOff
<1>3. CASE UNCHANGED <<runAt, slot>>
  BY <1>3
<1> QED
  BY <1>1, <1>2, <1>3
     DEF Next, WorkerStep, AdminStep, AdminDelete, Prune, vars, Start, Exit, RecoverCheck,
         SweepRequeue, SweepFail, Claim, Unsettled, Heartbeat, Crash, Tick

\* Once a sweep's `now` has passed, no row becomes an orphan of it: a claim and a
\* heartbeat grant leases from the clock.
LEMMA OrphansOnlyGo ==
    ASSUME TypeInv, [Next]_vars, NEW t \in Nat, t <= clock,
           NEW j \in Jobs, NEW n \in 1 .. 3, Orphaned(j, t)', Requeues(n, j)'
    PROVE  Orphaned(j, t) /\ Requeues(n, j)
<1> USE TimeAssumption DEF TypeInv, TypeOK, table, dates, history, Orphaned, Null
<1>1. UNCHANGED <<status[j], attempts[j], lease[j]>> => Orphaned(j, t) /\ Requeues(n, j)
  BY DEF Requeues
<1>2. CASE UNCHANGED <<status, attempts, lease>>
  BY <1>1, <1>2
<1>3. ASSUME NEW w \in Workers, SweepRequeue(w) PROVE UNCHANGED <<status[j], attempts[j], lease[j]>>
  <2>1. PICK m \in 1 .. 3 :
          /\ status' = [i \in Jobs |-> IF Recovered(w, m, i) THEN "pending" ELSE status[i]]
          /\ lease' = [i \in Jobs |-> IF Recovered(w, m, i) THEN Null ELSE lease[i]]
    BY <1>3 DEF SweepRequeue
  <2> QED BY <1>3, <2>1 DEF SweepRequeue
<1>4. ASSUME NEW w \in Workers, SweepFail(w) PROVE UNCHANGED <<status[j], attempts[j], lease[j]>>
  BY <1>4 DEF SweepFail
<1>5. ASSUME NEW w \in Workers, NEW k \in Jobs, Claim(w, k)
      PROVE  UNCHANGED <<status[j], attempts[j], lease[j]>>
  <2>1. k = j => lease'[j] = clock + LeaseTTL
    BY <1>5 DEF Claim
  <2> QED BY <1>5, <2>1 DEF Claim
<1>6. ASSUME NEW w \in Workers, NEW outcome \in Outcomes, Settle(w, outcome)
      PROVE  UNCHANGED <<status[j], attempts[j], lease[j]>>
  BY <1>6 DEF Settle, Verdict
<1>7. ASSUME NEW w \in Workers, Heartbeat(w) PROVE UNCHANGED <<status[j], attempts[j], lease[j]>>
  BY <1>7 DEF Heartbeat
<1>8. ASSUME NEW k \in Jobs, Enqueue(k) \/ AdminRetry(k) \/ Removed(k)
      PROVE  UNCHANGED <<status[j], attempts[j], lease[j]>>
  BY <1>8 DEF Enqueue, AdminRetry, Removed
<1> QED
  BY <1>1, <1>2, <1>3, <1>4, <1>5, <1>6, <1>7, <1>8
     DEF Next, WorkerStep, AdminStep, AdminDelete, Prune, vars, Start, Exit, RecoverCheck,
         Unsettled, Crash, Tick

\* What a sweeping goroutine holds are natural numbers.
LEMMA GoroutineFields ==
    ASSUME TypeOK, NEW w \in Workers
    PROVE  /\ worker[w].asOf \in Nat /\ worker[w].stage \in 0 .. 4
           /\ worker[w].attempt \in Nat
<1>1. worker[w] \in Goroutines
  BY DEF TypeOK
<1> QED BY <1>1 DEF Goroutines

\* The columns of a row and the clock are natural numbers.
LEMMA RowFields ==
    ASSUME TypeOK, NEW j \in Jobs
    PROVE  /\ clock \in Nat /\ attempts[j] \in Nat /\ lease[j] \in Nat
           /\ starts[j] \in Nat /\ retries[j] \in Nat
<1>1. retries[j] \in 0 .. MaxRetries
  BY DEF TypeOK
<1> QED BY <1>1, BoundAssumption DEF TypeOK

\* Each statement of a sweep takes the orphans it is for, and they stay taken.
LEMMA SweepStep ==
    ASSUME TypeInv, SweepInv, [Next]_vars PROVE SweepInv'
<1>0. \A w \in Workers : worker[w].asOf \in Nat /\ worker[w].stage \in Nat
  BY GoroutineFields DEF TypeInv
<1> USE GoroutineType DEF TypeInv
<1> SUFFICES ASSUME NEW w \in Workers, worker'[w].phase = "sweep", NEW j \in Jobs, NEW n \in 1 .. 3,
                    NEW t, t = worker'[w].asOf,
                    n < worker'[w].stage, Requeues(n, j)', Orphaned(j, t)'
             PROVE  FALSE
  BY DEF SweepInv, Orphaned
<1>2. CASE worker'[w] = worker[w]
  <2>1. worker[w].asOf <= clock
    BY <1>2 DEF WorkerInv
  <2>2. Orphaned(j, t) /\ Requeues(n, j)
    BY <1>0, <1>2, <2>1, OrphansOnlyGo
  <2> QED BY <1>0, <1>2, <2>2 DEF SweepInv
<1>3. CASE worker'[w] = Sweeping(1, clock)
  <2>1. worker'[w].stage = 1
    BY <1>3 DEF Sweeping, Goroutine
  <2> QED BY <2>1
<1>4. ASSUME SweepRequeue(w) PROVE FALSE
  <2>1. PICK m \in 1 .. 3 :
          /\ worker[w].stage = m
          /\ status' = [i \in Jobs |-> IF Recovered(w, m, i) THEN "pending" ELSE status[i]]
          /\ worker' = [worker EXCEPT ![w] = Sweeping(m + 1, worker[w].asOf)]
    BY <1>4 DEF SweepRequeue
  <2>2. worker'[w].stage = m + 1 /\ t = worker[w].asOf
    BY <2>1 DEF TypeOK, Sweeping, Goroutine
  <2>3. t \in Nat /\ t <= clock
    BY <1>0, <1>4, <2>2 DEF WorkerInv, SweepRequeue
  <2>4. Orphaned(j, t) /\ Requeues(n, j)
    BY <2>3, OrphansOnlyGo
  <2>5. n = m
    BY <1>4, <2>1, <2>2, <2>4 DEF SweepInv, SweepRequeue
  <2>6. Recovered(w, m, j)
    BY <2>2, <2>4, <2>5 DEF Recovered
  <2>7. status'[j] = "pending"
    BY <2>1, <2>6
  <2> QED BY <2>7 DEF Orphaned
<1>5. ASSUME NEW x, worker' = [worker EXCEPT ![w] = x], x.phase # "sweep" PROVE FALSE
  BY <1>5 DEF TypeOK
<1>6. ASSUME NEW v \in Workers, v # w, NEW x, worker' = [worker EXCEPT ![v] = x]
      PROVE  worker'[w] = worker[w]
  BY <1>6 DEF TypeOK
<1>7. ASSUME NEW v \in Workers, WorkerStep(v) PROVE FALSE
  <2>1. CASE v # w
    <3>1. \E x : worker' = [worker EXCEPT ![v] = x]
      BY <1>7 DEF WorkerStep, Start, Exit, RecoverCheck, SweepRequeue, SweepFail, Claim, Settle,
                  Unsettled
    <3> QED BY <1>2, <1>6, <2>1, <3>1
  <2>2. CASE v = w
    <3>1. CASE Start(w) \/ RecoverCheck(w)
      BY <1>3, <3>1 DEF Start, RecoverCheck, TypeOK
    <3>2. CASE Exit(w)
      BY <1>5, <3>2 DEF Exit
    <3>3. ASSUME NEW k \in Jobs, Claim(w, k) PROVE FALSE
      BY <1>5, <3>3 DEF Claim, TypeOK
    <3>4. CASE SweepFail(w) \/ Unsettled(w) \/ \E outcome \in Outcomes : Settle(w, outcome)
      BY <1>5, <3>4, LoopHeadType DEF SweepFail, Unsettled, Settle
    <3> QED BY <1>4, <1>7, <2>2, <3>1, <3>2, <3>3, <3>4 DEF WorkerStep
  <2> QED BY <2>1, <2>2
<1>8. CASE Crash
  <2>1. worker'[w] = Off
    BY <1>8 DEF Crash
  <2> QED BY <2>1
<1>9. CASE UNCHANGED worker
  BY <1>2, <1>9
<1> QED
  BY <1>7, <1>8, <1>9 DEF Next, AdminStep, AdminDelete, Prune, Removed, AdminRetry, Enqueue, Heartbeat, Tick, vars

-----------------------------------------------------------------------------
\* The queue starts with nothing queued, claimed or swept.
LEMMA InvInit == Init => QueueInv
<1>1. Init => FenceInv /\ GroupExclusive /\ ActiveKeyUnique
  BY GoroutineType DEF Init, FenceInv, Executes, GroupExclusive,
     ActiveKeyUnique, Active
<1>2. Init => BudgetInv /\ OpenInv /\ SlotInv /\ SweepInv
  BY DefAssumption, GoroutineType DEF Init, BudgetInv, OpenInv, SlotInv, SweepInv
<1> QED BY TypeInit, <1>1, <1>2 DEF QueueInv, TypeInv

\* Every step keeps all of it.
LEMMA InvStep == QueueInv /\ [Next]_vars => QueueInv'
BY TypeStep, FenceStep, BudgetStep, OpenStep, SlotStep, SweepStep, ExclusiveStep, KeyStep
   DEF QueueInv, TypeInv

\* The inductive invariant: types, the fence of attempt numbers, the budget, what
\* an open attempt, a slot and a sweep stand for, and the two exclusion rules.
THEOREM InvCorrect == Spec => []QueueInv
BY InvInit, InvStep, PTL DEF Spec

\* Two running rows never belong to one project.
THEOREM GroupExclusion == Spec => []GroupExclusive
<1>1. QueueInv => GroupExclusive
  BY DEF QueueInv
<1> QED BY InvCorrect, <1>1, PTL

\* Two active rows never share a unique key.
THEOREM KeyUniqueness == Spec => []ActiveKeyUnique
<1>1. QueueInv => ActiveKeyUnique
  BY DEF QueueInv
<1> QED BY InvCorrect, <1>1, PTL

\* No job starts more often than max_attempts and its admin retries allow.
THEOREM BoundedStarts == Spec => []StartsBounded
<1>1. QueueInv => StartsBounded
  BY DEF QueueInv, StartsBounded, BudgetInv, FenceInv
<1> QED BY InvCorrect, <1>1, PTL

\* A job of unknown outcome waits to run again only if that is safe.
THEOREM FailClosed == Spec => []FailsClosed
<1>1. QueueInv => FailsClosed
  BY DEF QueueInv, FailsClosed, OpenInv
<1> QED BY InvCorrect, <1>1, PTL
-----------------------------------------------------------------------------
\* A running row that is neither running nor deleted after a step was settled by
\* its claimant or taken by a sweep after its lease.
LEMMA SettledStep ==
    ASSUME QueueInv, [Next]_vars, NEW j \in Jobs,
           status[j] = "running", status'[j] \notin {"running", "deleted"}
    PROVE  \/ \E w \in Workers : Claimant(w, j) /\ worker'[w].phase # "body"
           \/ lease[j] < clock /\ status'[j] # "completed"
<1> USE DEF table, dates, history, QueueInv
<1>1. ASSUME NEW w \in Workers, worker[w].phase = "sweep", Orphaned(j, worker[w].asOf)
      PROVE  lease[j] < clock
  <2>1. lease[j] \in Nat /\ clock \in Nat /\ worker[w].asOf \in Nat
    BY GoroutineFields DEF TypeOK
  <2> QED BY <1>1, <2>1 DEF Orphaned, WorkerInv
<1>2. ASSUME NEW w \in Workers, SweepRequeue(w)
      PROVE  lease[j] < clock /\ status'[j] # "completed"
  <2>1. PICK n \in 1 .. 3 : status' = [i \in Jobs |-> IF Recovered(w, n, i)
                                         THEN "pending" ELSE status[i]]
    BY <1>2 DEF SweepRequeue
  <2>2. Recovered(w, n, j) /\ status'[j] = "pending"
    BY <2>1
  <2> QED BY <1>1, <1>2, <2>2 DEF SweepRequeue, Recovered
<1>3. ASSUME NEW w \in Workers, SweepFail(w)
      PROVE  lease[j] < clock /\ status'[j] # "completed"
  <2>1. Abandons(w, j) /\ status'[j] = "failed"
    BY <1>3 DEF SweepFail
  <2> QED BY <1>1, <1>3, <2>1 DEF SweepFail, Abandons
<1>4. ASSUME NEW w \in Workers, NEW outcome \in Outcomes, Settle(w, outcome)
      PROVE  Claimant(w, j) /\ worker'[w].phase # "body"
  <2>1. worker[w].phase = "body" /\ worker[w].job = j /\ Owns(w, j)
    BY <1>4 DEF Settle, TypeOK
  <2>2. Claimant(w, j)
    BY <2>1 DEF Claimant, Owns, FenceInv
  <2>3. worker'[w] = LoopHead(w)
    BY <1>4 DEF Settle, TypeOK
  <2> QED BY <2>2, <2>3, LoopHeadType
<1>5. ASSUME NEW w \in Workers, NEW k \in Jobs, Claim(w, k) PROVE FALSE
  BY <1>5 DEF Claim, TypeOK
<1>6. ASSUME NEW k \in Jobs, Enqueue(k) \/ AdminRetry(k) \/ Removed(k) PROVE FALSE
  BY <1>6 DEF Enqueue, AdminRetry, Removed, TypeOK
<1>7. status' # status
  OBVIOUS
<1> QED
  BY <1>2, <1>3, <1>4, <1>5, <1>6, <1>7
     DEF Next, WorkerStep, AdminStep, AdminDelete, Prune, vars, Start, Exit,
         RecoverCheck, Unsettled, Heartbeat, Crash, Tick

\* A row leaves running by its latest claimant, by a sweep once its lease has
\* lapsed, or by deletion: a worker whose claim was taken over settles nothing.
THEOREM SettledByClaimants == Spec => SettledByClaimant
<1>1. ASSUME QueueInv, [Next]_vars
      PROVE  [\A j \in Jobs :
                status[j] = "running" /\ status'[j] \notin {"running", "deleted"}
                => \/ \E w \in Workers : Claimant(w, j) /\ worker'[w].phase # "body"
                   \/ lease[j] < clock /\ status'[j] # "completed"]_vars
  BY <1>1, SettledStep
<1> QED BY InvCorrect, <1>1, PTL DEF Spec, SettledByClaimant

\* A row that fails with its attempt open was failed by the sweep's last
\* statement, and the statements before it had requeued what may run again.
LEMMA RequeueStep ==
    ASSUME QueueInv, [Next]_vars, NEW j \in Jobs,
           status[j] = "running", status'[j] = "failed", last'[j] = "open"
    PROVE  ~RerunSafe(j) \/ attempts[j] >= Def[j].max
<1> USE DEF table, dates, history, QueueInv
<1>1. ASSUME NEW w \in Workers, SweepFail(w), RerunSafe(j), attempts[j] < Def[j].max
      PROVE  FALSE
  <2>1. Orphaned(j, worker[w].asOf)
    BY <1>1 DEF SweepFail, Abandons
  <2>2. \E n \in 1 .. 3 : Requeues(n, j)
    <3>1. Requeues(1, j) \/ Requeues(2, j) \/ Requeues(3, j)
      BY <1>1 DEF RerunSafe, Requeues
    <3> QED BY <3>1
  <2> QED BY <1>1, <2>1, <2>2 DEF SweepFail, SweepInv
<1>2. ASSUME NEW w \in Workers, SweepRequeue(w) PROVE FALSE
  BY <1>2 DEF SweepRequeue
<1>3. ASSUME NEW w \in Workers, NEW outcome \in Outcomes, Settle(w, outcome) PROVE FALSE
  BY <1>3 DEF Settle, TypeOK
<1>4. ASSUME NEW w \in Workers, NEW k \in Jobs, Claim(w, k) PROVE FALSE
  BY <1>4 DEF Claim, TypeOK
<1>5. ASSUME NEW k \in Jobs, Enqueue(k) \/ AdminRetry(k) \/ Removed(k) PROVE FALSE
  BY <1>5 DEF Enqueue, AdminRetry, Removed, TypeOK
<1>6. status' # status
  OBVIOUS
<1>7. attempts[j] \in Nat /\ Def[j].max \in Nat
  BY DefAssumption DEF TypeOK
<1>8. \E w \in Workers : SweepFail(w)
  BY <1>2, <1>3, <1>4, <1>5, <1>6
     DEF Next, WorkerStep, AdminStep, AdminDelete, Prune, vars, Start, Exit,
         RecoverCheck, Unsettled, Heartbeat, Crash, Tick
<1> QED BY <1>1, <1>7, <1>8

\* Recovery fails a row only if it is unsafe to run again or out of attempts.
THEOREM RecoveryRequeues == Spec => RecoveryRequeuesSafe
<1>1. ASSUME QueueInv, [Next]_vars
      PROVE  [\A j \in Jobs :
                status[j] = "running" /\ status'[j] = "failed" /\ last'[j] = "open"
                => ~RerunSafe(j) \/ attempts[j] >= Def[j].max]_vars
  BY <1>1, RequeueStep
<1> QED BY InvCorrect, <1>1, PTL DEF Spec, RecoveryRequeuesSafe

\* (run_at, id) orders the rows.
LEMMA EarlierOrder ==
    ASSUME TypeOK, NEW i \in Jobs, NEW j \in Jobs, NEW k \in Jobs
    PROVE  /\ ~(Earlier(j, k) /\ Earlier(k, j))
           /\ Earlier(i, k) /\ Earlier(k, j) => Earlier(i, j)
<1>1. runAt[i] \in Nat /\ runAt[j] \in Nat /\ runAt[k] \in Nat
  BY DEF TypeOK
<1> QED BY <1>1, JobsType DEF Earlier

\* A claim passes over no due row of the project: one that is running or backing
\* off closes the project, any other is itself claimable and earlier.
LEMMA ClaimInOrder ==
    ASSUME TypeOK, NEW w \in Workers, NEW j \in Jobs, Claim(w, j),
           NEW k \in Jobs, Grouped(j, k), Earlier(k, j), runAt[k] <= clock
    PROVE  ~Active(k)
<1>1. status[k] # "running"
  BY DEF Claim, Claimable, GroupBusy
<1>2. ASSUME status[k] = "pending" PROVE FALSE
  <2>1. Arrived(k)
    BY <1>2 DEF Arrived
  <2>2. ~(notBefore[k] > clock)
    BY <2>1 DEF Claim, Claimable, BackoffGate
  <2>3. Due(k)
    BY <2>1, <2>2 DEF Due, TypeOK
  <2>4. ~GroupBusy(k)
    BY DEF Claim, Claimable, GroupBusy, Grouped
  <2>5. ~BackoffGate(k)
    BY EarlierOrder DEF Claim, Claimable, BackoffGate, Grouped
  <2>6. k # j
    BY EarlierOrder
  <2> QED BY <2>3, <2>4, <2>5, <2>6, EarlierOrder DEF Claim, Claimable
<1> QED BY <1>1, <1>2 DEF Active

\* Only a claim counts a start.
LEMMA ClaimStarts ==
    ASSUME QueueInv, [Next]_vars, NEW j \in Jobs, starts'[j] > starts[j]
    PROVE  \E w \in Workers : Claim(w, j)
<1> USE DEF QueueInv, table, dates, history
<1>1. starts[j] \in Nat
  BY DEF TypeOK
<1>2. ASSUME NEW w \in Workers, NEW k \in Jobs, Claim(w, k) PROVE k = j
  BY <1>1, <1>2 DEF Claim, TypeOK
<1>3. ASSUME NEW k \in Jobs, Removed(k) PROVE FALSE
  BY <1>1, <1>3 DEF Removed, TypeOK
<1>4. starts' # starts
  BY <1>1
<1> QED
  BY <1>2, <1>3, <1>4
     DEF Next, WorkerStep, AdminStep, AdminDelete, Prune, vars, Start, Exit,
         RecoverCheck, SweepRequeue, SweepFail, Settle, Unsettled, Heartbeat, Crash,
         Tick, Enqueue, AdminRetry

\* A job that starts has no due row of its project before it.
LEMMA ChainStep ==
    ASSUME QueueInv, [Next]_vars, NEW j \in Jobs, starts'[j] > starts[j],
           NEW k \in Jobs,
           /\ Grouped(j, k)
           /\ \/ slot[k] < slot[j]
              \/ slot[k] = slot[j] /\ k < j
           /\ slot[k] <= clock
    PROVE  ~Active(k)
<1>1. Earlier(k, j) /\ runAt[k] <= clock
  BY DEF QueueInv, SlotInv, Earlier
<1>2. PICK w \in Workers : Claim(w, j)
  BY ClaimStarts
<1> QED BY <1>1, <1>2, ClaimInOrder DEF QueueInv

\* Reconcile chains stay in order: a body starts only when every due row of its
\* project with an earlier slot is finished.
THEOREM ChainsInOrder == Spec => ChainOrder
<1>1. ASSUME QueueInv, [Next]_vars
      PROVE  [\A j \in Jobs : starts'[j] > starts[j] =>
                \A k \in Jobs :
                   /\ Grouped(j, k)
                   /\ \/ slot[k] < slot[j]
                      \/ slot[k] = slot[j] /\ k < j
                   /\ slot[k] <= clock
                   => ~Active(k)]_vars
  BY <1>1, ChainStep
<1> QED BY InvCorrect, <1>1, PTL DEF Spec, ChainOrder
-----------------------------------------------------------------------------
\* While heartbeats are timely, a running row that is executed is no orphan of a
\* sweep: its lease lasts to the clock, the sweep's `now` is not past it.
LEMMA ExecutedIsSafe ==
    ASSUME QueueInv, LeaseHeld, NEW v \in Workers, worker[v].phase = "sweep",
           NEW w \in Workers, worker[w].phase = "body"
    PROVE  ~Orphaned(worker[w].job, worker[v].asOf)
<1>1. worker[w].job \in Jobs /\ worker[v].asOf <= clock
  BY DEF QueueInv, WorkerInv
<1>2. lease[worker[w].job] \in Nat /\ clock \in Nat /\ worker[v].asOf \in Nat
  BY <1>1, GoroutineFields DEF QueueInv, TypeOK
<1> QED BY <1>1, <1>2 DEF LeaseHeld, Orphaned

\* A body that goes on keeps its row when nothing was written to the row.
LEMMA BodyKept ==
    ASSUME TimelyInv, NEW w \in Workers, worker[w].phase = "body",
           worker'[w] = worker[w], UNCHANGED clock,
           LET j == worker[w].job IN UNCHANGED <<status[j], attempts[j], lease[j]>>
    PROVE  /\ Owns(w, worker[w].job)' \/ status'[worker'[w].job] = "deleted"
           /\ status'[worker'[w].job] = "running" => lease'[worker'[w].job] >= clock'
BY DEF TimelyInv, LiveBodyOwnsRow, LeaseHeld, Owns

\* Bodies keep their rows through every step whose heartbeats are timely.
LEMMA TimelyStep ==
    ASSUME QueueInv, TimelyInv, [TimelyNext]_vars PROVE TimelyInv'
<1>a. TypeOK /\ WorkerInv /\ FenceInv
  BY DEF QueueInv
<1> USE JobsType, GoroutineType, TimeAssumption, <1>a DEF table, dates, history
<1> SUFFICES ASSUME NEW w \in Workers, worker'[w].phase = "body"
             PROVE  /\ Owns(w, worker[w].job)' \/ status'[worker'[w].job] = "deleted"
                    /\ status'[worker'[w].job] = "running"
                         => lease'[worker'[w].job] >= clock'
  BY DEF TimelyInv, LiveBodyOwnsRow, LeaseHeld
<1> DEFINE i == worker[w].job
           Kept == /\ Owns(w, worker[w].job)' \/ status'[worker'[w].job] = "deleted"
                   /\ status'[worker'[w].job] = "running"
                        => lease'[worker'[w].job] >= clock'
<1> HIDE DEF Kept
<1>0. ASSUME worker'[w] = worker[w], UNCHANGED clock,
             UNCHANGED <<status[i], attempts[i], lease[i]>>
      PROVE  Kept
  BY <1>0, BodyKept DEF Kept
<1>1. ASSUME worker'[w] = worker[w]
      PROVE  /\ worker[w].phase = "body" /\ i \in Jobs
             /\ Owns(w, i) \/ status[i] = "deleted"
  BY <1>1 DEF WorkerInv, TimelyInv, LiveBodyOwnsRow
<1>b. ASSUME NEW v \in Workers, worker' = [worker EXCEPT ![v] = LoopHead(v)]
      PROVE  v # w /\ worker'[w] = worker[w]
  <2>1. LoopHead(v).phase # "body"
    BY LoopHeadType
  <2> QED BY <1>b, <2>1 DEF TypeOK
<1>2. ASSUME NEW v \in Workers, SweepRequeue(v) PROVE Kept
  <2>1. PICK n \in 1 .. 3 :
          /\ status' = [j \in Jobs |-> IF Recovered(v, n, j) THEN "pending" ELSE status[j]]
          /\ lease' = [j \in Jobs |-> IF Recovered(v, n, j) THEN Null ELSE lease[j]]
          /\ worker' = [worker EXCEPT ![v] = Sweeping(n + 1, worker[v].asOf)]
    BY <1>2 DEF SweepRequeue
  <2>2. Sweeping(n + 1, worker[v].asOf).phase = "sweep"
    BY DEF Sweeping, Goroutine
  <2>3. worker'[w] = worker[w]
    BY <2>1, <2>2 DEF TypeOK
  <2>4. ~Recovered(v, n, i)
    BY <1>1, <1>2, <2>3, ExecutedIsSafe DEF SweepRequeue, Recovered, TimelyInv
  <2> QED BY <1>0, <1>1, <1>2, <2>1, <2>3, <2>4 DEF SweepRequeue
<1>3. ASSUME NEW v \in Workers, SweepFail(v) PROVE Kept
  <2>1. worker'[w] = worker[w]
    BY <1>3, <1>b DEF SweepFail
  <2>2. ~Abandons(v, i)
    BY <1>1, <1>3, <2>1, ExecutedIsSafe DEF SweepFail, Abandons, TimelyInv
  <2> QED BY <1>0, <1>1, <1>3, <2>1, <2>2 DEF SweepFail
<1>4. ASSUME NEW v \in Workers, NEW j \in Jobs, Claim(v, j) PROVE Kept
  <2>1. /\ status[j] = "pending"
        /\ worker' = [worker EXCEPT ![v] = Executing(j, attempts[j] + 1)]
        /\ attempts' = [attempts EXCEPT ![j] = attempts[j] + 1]
        /\ lease' = [lease EXCEPT ![j] = clock + LeaseTTL]
        /\ status' = [status EXCEPT ![j] = "running"]
        /\ UNCHANGED clock
    BY <1>4 DEF Claim, Claimable, Due, Arrived
  <2>2. CASE v = w
    <3>1. attempts[j] \in Nat /\ clock \in Nat /\ LeaseTTL \in Nat
      BY RowFields
    <3>2. worker'[w].job = j /\ worker'[w].attempt = attempts[j] + 1
      BY <2>1, <2>2, <3>1 DEF TypeOK
    <3>3. /\ status'[j] = "running" /\ attempts'[j] = attempts[j] + 1
          /\ lease'[j] = clock + LeaseTTL
      BY <2>1 DEF TypeOK
    <3>4. lease'[j] >= clock
      BY <3>1, <3>3
    <3> QED BY <2>1, <3>2, <3>3, <3>4 DEF Kept, Owns
  <2>3. CASE v # w
    <3>1. worker'[w] = worker[w]
      BY <2>1, <2>3 DEF TypeOK
    <3>2. i # j
      BY <1>1, <2>1, <3>1 DEF Owns
    <3> QED BY <1>0, <1>1, <2>1, <3>1, <3>2 DEF TypeOK
  <2> QED BY <2>2, <2>3
<1>5. ASSUME NEW v \in Workers, NEW outcome \in Outcomes, Settle(v, outcome) PROVE Kept
  <2>1. v # w /\ worker'[w] = worker[w]
    BY <1>5, <1>b DEF Settle
  <2>2. ~(worker[v].job = i /\ Owns(v, i) /\ Owns(w, i))
    <3> SUFFICES ASSUME worker[v].job = i, Owns(v, i), Owns(w, i) PROVE FALSE
      OBVIOUS
    <3>1. Executes(v, i) /\ Executes(w, i) /\ i \in Jobs
      BY <1>1, <1>5, <2>1 DEF Settle, Executes, Owns
    <3>2. worker[v].attempt # worker[w].attempt
      BY <2>1, <3>1 DEF FenceInv
    <3> QED BY <3>2 DEF Owns
  <2>3. CASE worker[v].job = i /\ Owns(v, i)
    BY <1>1, <2>1, <2>2, <2>3 DEF Owns
  <2>4. CASE ~(worker[v].job = i /\ Owns(v, i))
    <3>1. CASE Owns(v, worker[v].job)
      <4>1. worker[v].job # i
        BY <2>4, <3>1
      <4>2. /\ status' = [status EXCEPT ![worker[v].job] = Verdict(v, worker[v].job, outcome)]
            /\ lease' = [lease EXCEPT ![worker[v].job] = Null]
            /\ UNCHANGED <<attempts, clock>>
        BY <1>5, <3>1 DEF Settle
      <4> QED BY <1>0, <1>1, <2>1, <4>1, <4>2 DEF TypeOK
    <3>2. CASE ~Owns(v, worker[v].job)
      BY <1>0, <1>5, <2>1, <3>2 DEF Settle
    <3> QED BY <3>1, <3>2
  <2> QED BY <2>3, <2>4
<1>6. ASSUME NEW v \in Workers, Heartbeat(v) PROVE Kept
  <2>1. worker'[w] = worker[w]
    BY <1>6 DEF Heartbeat
  <2>2. CASE worker[v].job # i
    BY <1>0, <1>1, <1>6, <2>1, <2>2 DEF Heartbeat, TypeOK
  <2>3. CASE worker[v].job = i
    <3>1. lease'[i] = clock + LeaseTTL /\ UNCHANGED <<status, attempts, clock>>
      BY <1>1, <1>6, <2>1, <2>3 DEF Heartbeat, TypeOK
    <3>2. clock + LeaseTTL >= clock
      BY DEF TypeOK
    <3> QED BY <1>1, <2>1, <3>1, <3>2 DEF Kept, Owns
  <2> QED BY <2>2, <2>3
<1>7. ASSUME NEW j \in Jobs, Enqueue(j) \/ AdminRetry(j) PROVE Kept
  <2>1. worker'[w] = worker[w] /\ UNCHANGED clock
    BY <1>7 DEF Enqueue, AdminRetry
  <2>2. i # j
    <3>1. status[j] \in {"absent", "failed"}
      BY <1>7 DEF Enqueue, AdminRetry
    <3> QED BY <1>1, <2>1, <3>1 DEF Owns
  <2> QED BY <1>0, <1>1, <1>7, <2>1, <2>2 DEF Enqueue, AdminRetry, TypeOK
<1>8. ASSUME NEW j \in Jobs, Removed(j) PROVE Kept
  <2>1. worker'[w] = worker[w] /\ UNCHANGED clock
    BY <1>8 DEF Removed
  <2>2. CASE i = j
    BY <1>1, <1>8, <2>1, <2>2 DEF Removed, TypeOK, Kept
  <2>3. CASE i # j
    BY <1>0, <1>1, <1>8, <2>1, <2>3 DEF Removed, TypeOK
  <2> QED BY <2>2, <2>3
<1>9. ASSUME HeartbeatsTimely, Tick PROVE Kept
  <2>1. worker'[w] = worker[w] /\ UNCHANGED <<status, attempts, lease>> /\ clock' = clock + 1
    BY <1>9 DEF Tick
  <2>2. lease[i] \in Nat /\ clock \in Nat
    BY <1>1, <2>1, RowFields
  <2>3. status[i] = "running" => lease[i] > clock
    BY <1>1, <1>9, <2>1 DEF HeartbeatsTimely, Beating
  <2> QED BY <1>1, <2>1, <2>2, <2>3 DEF Kept, Owns
<1>10. ASSUME NEW v \in Workers, Start(v) \/ Exit(v) \/ RecoverCheck(v) \/ Unsettled(v)
       PROVE  Kept
  <2>1. worker'[w] = worker[w]
    <3>1. Start(v) \/ Exit(v) \/ RecoverCheck(v) => worker'[w] = worker[w]
      BY DEF Start, Exit, RecoverCheck, TypeOK
    <3>2. Unsettled(v) => worker'[w] = worker[w]
      BY <1>b DEF Unsettled
    <3> QED BY <1>10, <3>1, <3>2
  <2> QED BY <1>0, <1>10, <2>1 DEF Start, Exit, RecoverCheck, Unsettled
<1>11. ASSUME Crash PROVE Kept
  BY <1>11 DEF Crash
<1>12. ASSUME UNCHANGED vars PROVE Kept
  BY <1>0, <1>12 DEF vars
<1>13. Kept
  BY <1>2, <1>3, <1>4, <1>5, <1>6, <1>7, <1>8, <1>9, <1>10, <1>11, <1>12
     DEF TimelyNext, WorkerStep, AdminStep, AdminDelete, Prune
<1> QED BY <1>13 DEF Kept

\* A body never runs without its row, while heartbeats are timely: a reload that
\* stops its generation, a sweep or another worker takes the row from nobody.
THEOREM LiveBodies == TimelySpec => []LiveBodyOwnsRow
<1>1. Init => QueueInv /\ TimelyInv
  BY InvInit, GoroutineType DEF Init, TimelyInv, LiveBodyOwnsRow, LeaseHeld
<1>2. [TimelyNext]_vars => [Next]_vars
  BY DEF TimelyNext, Next
<1>3. QueueInv /\ TimelyInv /\ [TimelyNext]_vars => (QueueInv /\ TimelyInv)'
  BY <1>2, InvStep, TimelyStep
<1>4. QueueInv /\ TimelyInv => LiveBodyOwnsRow
  BY DEF TimelyInv
<1> QED BY <1>1, <1>3, <1>4, PTL DEF TimelySpec
-----------------------------------------------------------------------------
\* The promise's two variables, as functions of the queue's.
stateBar == [j \in Jobs |-> Standing(j)]
leftBar  == [j \in Jobs |-> StartsLeft(j)]

\* What each status stands for.
LEMMA StandingIs ==
    ASSUME NEW j \in Jobs
    PROVE  /\ status[j] = "absent" => Standing(j) = "absent"
           /\ status[j] = "pending" <=> Standing(j) = "waiting"
           /\ status[j] = "running" <=> Standing(j) = "active"
           /\ status[j] = "completed" <=> Standing(j) = "done"
           /\ status[j] = "failed" <=> Standing(j) = "gaveUp"
           /\ status[j] = "deleted" <=> Standing(j) = "removed"
BY DEF Standing

\* A row whose status and counters are untouched looks the same.
LEMMA BarSame ==
    ASSUME NEW j \in Jobs, UNCHANGED <<status[j], starts[j], retries[j]>>
    PROVE  Standing(j)' = Standing(j) /\ StartsLeft(j)' = StartsLeft(j)
BY DEF Standing, StartsLeft, Present

\* A step that touches one row moves one component of the promise's variables.
LEMMA BarMoves ==
    ASSUME NEW j \in Jobs,
           \A i \in Jobs \ {j} : UNCHANGED <<status[i], starts[i], retries[i]>>
    PROVE  /\ stateBar' = [stateBar EXCEPT ![j] = Standing(j)']
           /\ leftBar' = [leftBar EXCEPT ![j] = StartsLeft(j)']
<1>1. \A i \in Jobs \ {j} : Standing(i)' = Standing(i) /\ StartsLeft(i)' = StartsLeft(i)
  BY BarSame
<1> QED BY <1>1 DEF stateBar, leftBar

\* The promise's actions in terms of stateBar and leftBar.
LEMMA PromiseActions ==
    ASSUME NEW j \in Jobs
    PROVE  /\ Promise!Submit(j) <=>
                 /\ stateBar[j] = "absent"
                 /\ stateBar' = [stateBar EXCEPT ![j] = "waiting"]
                 /\ leftBar' = [leftBar EXCEPT ![j] = Def[j].max]
           /\ Promise!Begin(j) <=>
                 /\ stateBar[j] = "waiting" /\ leftBar[j] > 0
                 /\ Def[j].group # NoGroup =>
                      ~\E k \in Jobs : Def[k].group = Def[j].group /\ stateBar[k] = "active"
                 /\ stateBar' = [stateBar EXCEPT ![j] = "active"]
                 /\ leftBar' = [leftBar EXCEPT ![j] = leftBar[j] - 1]
           /\ Promise!Finish(j) <=>
                 /\ stateBar[j] = "active"
                 /\ stateBar' = [stateBar EXCEPT ![j] = "done"]
                 /\ leftBar' = leftBar
           /\ Promise!Reopen(j) <=>
                 /\ stateBar[j] = "gaveUp"
                 /\ stateBar' = [stateBar EXCEPT ![j] = "waiting"]
                 /\ leftBar' = [leftBar EXCEPT ![j] = leftBar[j] + 1]
           /\ Promise!Remove(j) <=>
                 /\ stateBar[j] \notin {"absent", "removed"}
                 /\ stateBar' = [stateBar EXCEPT ![j] = "removed"]
                 /\ leftBar' = [leftBar EXCEPT ![j] = 0]
BY DEF stateBar, leftBar, Promise!Submit, Promise!Begin, Promise!Finish,
       Promise!Reopen, Promise!Remove
\* Running rows that go back to pending or fail, and nothing else, are an
\* interruption: whoever waits again has a start left.
LEMMA Interrupted ==
    ASSUME QueueInv, QueueInv', UNCHANGED <<starts, retries>>,
           \A j \in Jobs : status'[j] # status[j] =>
              status[j] = "running" /\ status'[j] \in {"pending", "failed"}
    PROVE  Promise!Interrupt
<1> DEFINE again == {j \in Jobs : status[j] = "running" /\ status'[j] = "pending"}
           over  == {j \in Jobs : status[j] = "running" /\ status'[j] = "failed"}
<1>1. ASSUME NEW j \in again PROVE StartsLeft(j) > 0
  <2>1. /\ attempts'[j] < Def[j].max + retries'[j]
        /\ attempts'[j] = starts'[j]
    BY <1>1 DEF QueueInv, BudgetInv, FenceInv
  <2>2. starts[j] < Def[j].max + retries[j]
    BY <2>1
  <2>3. starts[j] \in Nat /\ retries[j] \in Nat /\ Def[j].max \in Nat
    BY <1>1, RowFields, DefAssumption DEF QueueInv
  <2>4. StartsLeft(j) = Def[j].max + retries[j] - starts[j]
    BY <1>1 DEF StartsLeft, Present
  <2> QED BY <2>2, <2>3, <2>4
<1>2. ASSUME NEW j \in Jobs
      PROVE  /\ Standing(j)' = IF j \in again THEN "waiting"
                               ELSE IF j \in over THEN "gaveUp" ELSE Standing(j)
             /\ StartsLeft(j)' = StartsLeft(j)
  <2>1. CASE status'[j] = status[j]
    BY <2>1, BarSame
  <2>2. CASE status'[j] # status[j]
    <3>1. status[j] = "running" /\ status'[j] \in {"pending", "failed"}
      BY <2>2
    <3>2. StartsLeft(j)' = StartsLeft(j)
      BY <3>1 DEF StartsLeft, Present
    <3>3. Standing(j)' = IF status'[j] = "pending" THEN "waiting" ELSE "gaveUp"
      BY <3>1 DEF Standing
    <3> QED BY <3>1, <3>2, <3>3
  <2> QED BY <2>1, <2>2
<1>3. again \in SUBSET {j \in Jobs : stateBar[j] = "active"}
      /\ over \in SUBSET {j \in Jobs : stateBar[j] = "active"}
  BY StandingIs DEF stateBar
<1>4. stateBar' = [j \in Jobs |-> IF j \in again THEN "waiting"
                                  ELSE IF j \in over THEN "gaveUp" ELSE stateBar[j]]
  BY <1>2 DEF stateBar
<1>5. leftBar' = leftBar
  BY <1>2 DEF leftBar
<1>6. \A j \in again : leftBar[j] > 0
  BY <1>1 DEF leftBar
<1> HIDE DEF again, over
<1> QED BY <1>3, <1>4, <1>5, <1>6 DEF Promise!Interrupt, stateBar, leftBar

\* Every step of the queue is a step of the promise, or none.
LEMMA PromiseStep ==
    ASSUME QueueInv, QueueInv', [Next]_vars PROVE [Promise!Next]_(Promise!vars)
<1>a. TypeOK /\ FenceInv /\ BudgetInv
  BY DEF QueueInv
<1>0. ASSUME UNCHANGED <<status, starts, retries>> PROVE UNCHANGED Promise!vars
  <2>1. \A j \in Jobs : Standing(j)' = Standing(j) /\ StartsLeft(j)' = StartsLeft(j)
    BY <1>0, BarSame
  <2> QED BY <2>1 DEF Promise!vars
<1>1. ASSUME NEW j \in Jobs, Enqueue(j) PROVE Promise!Next
  <2>1. /\ status[j] = "absent" /\ retries[j] = 0 /\ starts[j] = 0
        /\ status' = [status EXCEPT ![j] = "pending"] /\ UNCHANGED <<starts, retries>>
    BY <1>1, <1>a DEF Enqueue, BudgetInv, FenceInv
  <2>2. status'[j] = "pending"
    BY <2>1, <1>a DEF TypeOK
  <2>3. Standing(j)' = "waiting" /\ StartsLeft(j)' = Def[j].max
    BY <2>1, <2>2, DefAssumption DEF Standing, StartsLeft, Present
  <2>4. /\ stateBar' = [stateBar EXCEPT ![j] = Standing(j)']
        /\ leftBar' = [leftBar EXCEPT ![j] = StartsLeft(j)']
    BY <2>1, BarMoves
  <2>5. stateBar[j] = "absent"
    BY <2>1, StandingIs DEF stateBar
  <2> QED BY <2>3, <2>4, <2>5, PromiseActions DEF Promise!Next
<1>2. ASSUME NEW w \in Workers, NEW j \in Jobs, Claim(w, j) PROVE Promise!Next
  <2>1. /\ status[j] = "pending" /\ ~GroupBusy(j)
        /\ status' = [status EXCEPT ![j] = "running"]
        /\ starts' = [starts EXCEPT ![j] = starts[j] + 1] /\ UNCHANGED retries
    BY <1>2 DEF Claim, Claimable, Due, Arrived
  <2>2. status'[j] = "running" /\ starts'[j] = starts[j] + 1
    BY <2>1, <1>a DEF TypeOK
  <2>3. starts[j] \in Nat /\ retries[j] \in Nat /\ Def[j].max \in Nat
    BY <1>a, RowFields, DefAssumption
  <2>4. starts[j] < Def[j].max + retries[j]
    BY <2>1, <1>a DEF FenceInv, BudgetInv
  <2>5. StartsLeft(j) = Def[j].max + retries[j] - starts[j]
    BY <2>1 DEF StartsLeft, Present
  <2>6. /\ Standing(j)' = "active"
        /\ StartsLeft(j)' = Def[j].max + retries[j] - (starts[j] + 1)
    BY <2>1, <2>2 DEF Standing, StartsLeft, Present
  <2>7. leftBar[j] > 0 /\ StartsLeft(j)' = leftBar[j] - 1
    BY <2>3, <2>4, <2>5, <2>6 DEF leftBar
  <2>8. /\ stateBar' = [stateBar EXCEPT ![j] = Standing(j)']
        /\ leftBar' = [leftBar EXCEPT ![j] = StartsLeft(j)']
    BY <2>1, <1>a, BarMoves DEF TypeOK
  <2>9. /\ stateBar[j] = "waiting"
        /\ \A k \in Jobs : stateBar[k] = "active" => status[k] = "running"
    BY <2>1, StandingIs DEF stateBar
  <2>10. Def[j].group # NoGroup =>
           ~\E k \in Jobs : Def[k].group = Def[j].group /\ stateBar[k] = "active"
    BY <2>1, <2>9 DEF GroupBusy, Grouped
  <2>11. Promise!Begin(j)
    BY <2>6, <2>7, <2>8, <2>9, <2>10, PromiseActions
  <2> QED BY <2>11 DEF Promise!Next
<1>3. ASSUME NEW w \in Workers, SweepRequeue(w) PROVE Promise!Next
  <2>1. PICK n \in 1 .. 3 : status' = [j \in Jobs |-> IF Recovered(w, n, j)
                                         THEN "pending" ELSE status[j]]
    BY <1>3 DEF SweepRequeue
  <2>2. UNCHANGED <<starts, retries>>
    BY <1>3 DEF SweepRequeue, history
  <2> QED BY <2>1, <2>2, Interrupted DEF Recovered, Orphaned, Promise!Next
<1>4. ASSUME NEW w \in Workers, SweepFail(w) PROVE Promise!Next
  <2>1. /\ status' = [j \in Jobs |-> IF Abandons(w, j) THEN "failed" ELSE status[j]]
        /\ UNCHANGED <<starts, retries>>
    BY <1>4 DEF SweepFail, history
  <2> QED BY <2>1, Interrupted DEF Abandons, Orphaned, Promise!Next
<1>5. ASSUME NEW w \in Workers, NEW outcome \in Outcomes, Settle(w, outcome)
      PROVE  Promise!Next \/ UNCHANGED Promise!vars
  <2>1. UNCHANGED <<starts, retries>>
    BY <1>5 DEF Settle
  <2>2. PICK j \in Jobs : j = worker[w].job
    BY <1>5 DEF Settle, QueueInv, WorkerInv
  <2>3. CASE ~Owns(w, j)
    BY <1>0, <1>5, <2>1, <2>2, <2>3 DEF Settle
  <2>4. CASE Owns(w, j)
    <3>1. status[j] = "running" /\ status' = [status EXCEPT ![j] = Verdict(w, j, outcome)]
      BY <1>5, <2>2, <2>4 DEF Settle, Owns
    <3>2. status'[j] = Verdict(w, j, outcome) /\ \A i \in Jobs \ {j} : status'[i] = status[i]
      BY <3>1, <2>2, <1>a DEF TypeOK
    <3>3. CASE outcome = "ok"
      <4>1. status'[j] = "completed"
        BY <3>2, <3>3 DEF Verdict
      <4>2. Standing(j)' = "done" /\ StartsLeft(j)' = StartsLeft(j)
        BY <2>1, <3>1, <4>1 DEF Standing, StartsLeft, Present
      <4>3. /\ stateBar' = [stateBar EXCEPT ![j] = Standing(j)']
            /\ leftBar' = [leftBar EXCEPT ![j] = StartsLeft(j)']
        BY <2>1, <2>2, <3>2, BarMoves
      <4>4. stateBar[j] = "active" /\ leftBar' = leftBar
        BY <2>2, <3>1, <4>2, <4>3, StandingIs DEF stateBar, leftBar
      <4>5. Promise!Finish(j)
        BY <2>2, <4>2, <4>3, <4>4, PromiseActions
      <4> QED BY <2>2, <4>5 DEF Promise!Next
    <3>4. CASE outcome # "ok"
      <4>1. status'[j] \in {"pending", "failed"}
        BY <3>2, <3>4 DEF Verdict
      <4> QED BY <2>1, <3>1, <3>2, <4>1, Interrupted DEF Promise!Next
    <3> QED BY <3>3, <3>4
  <2> QED BY <2>3, <2>4
<1>6. ASSUME NEW j \in Jobs, AdminRetry(j) PROVE Promise!Next
  <2>1. /\ status[j] = "failed" /\ status' = [status EXCEPT ![j] = "pending"]
        /\ retries' = [retries EXCEPT ![j] = retries[j] + 1] /\ UNCHANGED starts
    BY <1>6 DEF AdminRetry
  <2>2. status'[j] = "pending" /\ retries'[j] = retries[j] + 1
    BY <2>1, <1>a DEF TypeOK
  <2>3. starts[j] \in Nat /\ retries[j] \in Nat /\ Def[j].max \in Nat
    BY <1>a, RowFields, DefAssumption
  <2>4. /\ Standing(j)' = "waiting"
        /\ StartsLeft(j)' = Def[j].max + (retries[j] + 1) - starts[j]
        /\ StartsLeft(j) = Def[j].max + retries[j] - starts[j]
    BY <2>1, <2>2 DEF Standing, StartsLeft, Present
  <2>5. /\ stateBar' = [stateBar EXCEPT ![j] = Standing(j)']
        /\ leftBar' = [leftBar EXCEPT ![j] = StartsLeft(j)']
    BY <2>1, <1>a, BarMoves DEF TypeOK
  <2>6. stateBar[j] = "gaveUp" /\ StartsLeft(j)' = leftBar[j] + 1
    BY <2>1, <2>3, <2>4, StandingIs DEF stateBar, leftBar
  <2>7. Promise!Reopen(j)
    BY <2>4, <2>5, <2>6, PromiseActions
  <2> QED BY <2>7 DEF Promise!Next
<1>7. ASSUME NEW j \in Jobs, Present(j), Removed(j) PROVE Promise!Next
  <2>1. /\ status' = [status EXCEPT ![j] = "deleted"]
        /\ starts' = [starts EXCEPT ![j] = 0] /\ retries' = [retries EXCEPT ![j] = 0]
    BY <1>7 DEF Removed
  <2>2. status'[j] = "deleted" /\ status[j] \in Statuses
    BY <2>1, <1>a DEF TypeOK
  <2>3. Standing(j)' = "removed" /\ StartsLeft(j)' = 0
    BY <2>2 DEF Standing, StartsLeft, Present
  <2>4. /\ stateBar' = [stateBar EXCEPT ![j] = Standing(j)']
        /\ leftBar' = [leftBar EXCEPT ![j] = StartsLeft(j)']
    BY <2>1, <1>a, BarMoves DEF TypeOK
  <2>5. stateBar[j] \notin {"absent", "removed"}
    BY <1>7, <2>2 DEF stateBar, Standing, Present, Statuses
  <2>6. Promise!Remove(j)
    BY <2>3, <2>4, <2>5, PromiseActions
  <2> QED BY <2>6 DEF Promise!Next
<1>8. ASSUME NEW j \in Jobs, AdminDelete(j) \/ Prune(j) PROVE Present(j) /\ Removed(j)
  BY <1>8 DEF AdminDelete, Prune, Present
<1> QED
  BY <1>0, <1>1, <1>2, <1>3, <1>4, <1>5, <1>6, <1>7, <1>8
     DEF Next, WorkerStep, AdminStep, vars, table, history, Start, Exit, RecoverCheck,
         Unsettled, Heartbeat, Crash, Tick

\* The queue keeps its promise: whatever crashes, leases, stale workers, sweeps
\* and administrators do, a submitter sees only the promised steps.
THEOREM PromiseKept == Spec => KeepsPromise
<1>1. Init => Promise!Init
  BY DEF Init, Promise!Init, Standing, StartsLeft, Present
<1>2. QueueInv /\ QueueInv' /\ [Next]_vars => [Promise!Next]_(Promise!vars)
  BY PromiseStep
<1> QED BY InvCorrect, <1>1, <1>2, PTL DEF Spec, KeepsPromise, Promise!Spec
-----------------------------------------------------------------------------
\* While some job is unfinished, the table is never wedged: a stored instant lies
\* ahead, a sweep that starts now finds an orphan, or a poll finds a head row that
\* both gates of jobClaimSQL let through. (The safety half of EverySettles.)
NeverWedged ==
    (\E j \in Jobs : Active(j)) =>
        \/ Awaited
        \/ \E k \in Jobs : Orphaned(k, clock)
        \/ \E k \in Jobs : /\ Claimable(k)
                           /\ \A i \in Jobs \ {k} : Claimable(i) => Earlier(k, i)

\* A set of natural numbers has a least one.
LEMMA LeastNatural ==
    ASSUME NEW T, T \subseteq Nat, T # {}
    PROVE  \E x \in T : \A y \in T : x <= y
<1>1. PICK x \in T : \A y \in T : <<y, x>> \notin OpToRel(<, Nat)
  BY WFMin, NatLessThanWellFounded, Zenon
<1>2. \A y \in T : ~(y < x)
  BY <1>1, Zenon DEF OpToRel
<1> QED BY <1>2

\* A set of rows has a first one in (run_at, id) order.
LEMMA FirstRow ==
    ASSUME TypeOK, NEW S, S \subseteq Jobs, S # {}
    PROVE  \E k \in S : \A i \in S \ {k} : Earlier(k, i)
<1>1. PICK t \in {runAt[j] : j \in S} : \A u \in {runAt[j] : j \in S} : t <= u
  <2>1. {runAt[j] : j \in S} \subseteq Nat /\ {runAt[j] : j \in S} # {}
    BY DEF TypeOK
  <2> QED BY <2>1, LeastNatural
<1>2. PICK k \in {j \in S : runAt[j] = t} : \A i \in {j \in S : runAt[j] = t} : k <= i
  <2>1. {j \in S : runAt[j] = t} \subseteq Nat /\ {j \in S : runAt[j] = t} # {}
    BY <1>1, JobsType
  <2> QED BY <2>1, LeastNatural
<1>3. ASSUME NEW i \in S \ {k} PROVE Earlier(k, i)
  <2>1. runAt[i] \in Nat /\ runAt[k] \in Nat /\ i \in Nat /\ k \in Nat
    BY <1>2, <1>3, JobsType DEF TypeOK
  <2>2. runAt[k] = t /\ t <= runAt[i]
    BY <1>1, <1>2, <1>3
  <2>3. CASE runAt[i] = t
    BY <1>2, <1>3, <2>1, <2>2, <2>3 DEF Earlier
  <2>4. CASE runAt[i] # t
    BY <2>1, <2>2, <2>4 DEF Earlier
  <2> QED BY <2>3, <2>4
<1> QED BY <1>2, <1>3

\* No crash, lost write, backoff, orphan or order of arrival wedges the queue.
THEOREM QueueNeverWedged == Spec => []NeverWedged
<1>1. ASSUME QueueInv, NEW j \in Jobs, Active(j), ~Awaited, \A k \in Jobs : ~Orphaned(k, clock)
      PROVE  \E k \in Jobs : /\ Claimable(k)
                             /\ \A i \in Jobs \ {k} : Claimable(i) => Earlier(k, i)
  <2> DEFINE S == {k \in Jobs : Claimable(k)}
  <2>1. ASSUME NEW k \in Jobs PROVE status[k] # "running"
    <3>1. status[k] = "running" => lease[k] # Null /\ ~(lease[k] >= clock)
      BY <1>1 DEF QueueInv, OpenInv, Awaited
    <3>2. lease[k] \in Nat /\ clock \in Nat
      BY <1>1, RowFields DEF QueueInv
    <3> QED BY <1>1, <3>1, <3>2 DEF Orphaned
  <2>2. ASSUME NEW k \in Jobs, status[k] = "pending"
        PROVE  runAt[k] <= clock /\ notBefore[k] <= clock
    <3>1. runAt[k] \in Nat /\ notBefore[k] \in Nat /\ clock \in Nat
      BY <1>1 DEF QueueInv, TypeOK
    <3> QED BY <1>1, <2>2, <3>1 DEF Awaited
  <2>3. ASSUME NEW k \in Jobs PROVE ~BackoffGate(k) /\ ~GroupBusy(k)
    <3>1. ~BackoffGate(k)
      BY <1>1 DEF Awaited, BackoffGate, Arrived
    <3> QED BY <2>1, <3>1 DEF GroupBusy
  <2>4. j \in S
    BY <1>1, <2>1, <2>2, <2>3 DEF Active, Claimable, Due, Arrived
  <2>5. PICK k \in S : \A i \in S \ {k} : Earlier(k, i)
    <3> HIDE DEF S
    <3>1. S \subseteq Jobs
      BY DEF S
    <3> QED BY <1>1, <2>4, <3>1, FirstRow DEF QueueInv
  <2> QED BY <2>5
<1>2. QueueInv => NeverWedged
  BY <1>1 DEF NeverWedged
<1> QED BY InvCorrect, <1>2, PTL
=============================================================================
