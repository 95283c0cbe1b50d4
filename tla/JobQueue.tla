------------------------------ MODULE JobQueue ------------------------------
(***************************************************************************)
(* The durable background job queue of src/jobs.go: rows of the SQLite     *)
(* table _benmore_jobs, worker goroutines that claim one row at a time,    *)
(* execute its body outside any transaction and write the outcome back,    *)
(* the heartbeat that extends a running row's lease, and the recovery      *)
(* sweep over expired leases.                                              *)
(*                                                                         *)
(* Every SQL statement is one atomic step (SQLite has a single writer);    *)
(* everything between two statements may interleave with other workers.    *)
(* Instants are natural numbers, 0 standing for SQL NULL.                  *)
(***************************************************************************)
EXTENDS Naturals, FiniteSets

CONSTANTS
    Workers,      \* goroutine slots: an old generation drains while a new one runs
    NumJobs,      \* bound: rows ever inserted; ids are AUTOINCREMENT, never reused
    Def,          \* Def[j]: what the submitter of the j-th row asked for
    NoGroup,      \* payload without project_id
    NoKey,        \* no unique_key
    LeaseTTL,     \* jobsLeaseTTL, in ticks
    BackoffTable, \* BackoffTable[n]: 2^n * 30s, in ticks, n up to the cap 16
    StartTime,    \* the clock when the process boots
    MaxRetries,   \* bound: admin retries of one job
    MaxDeletes,   \* bound: rows removed
    MaxFaults     \* bound: crashes, panics, lost writes and reloads

Null == 0
Jobs == 1 .. NumJobs

\* The job types, told apart by how recovery and retry treat them:
\* "webhook" is the allowlisted type, "effect" a hook, webhook or transfer
\* stamped _mcp_effect by a connector command, "idempotent" a flow declared
\* idempotent, "flow" any other flow or hook.
Kinds == {"webhook", "idempotent", "cron", "flow", "effect"}

ASSUME DefAssumption ==
    /\ NumJobs \in Nat
    /\ \A j \in Jobs : /\ Def[j].kind \in Kinds
                       /\ Def[j].max \in Nat \ {0}
                       /\ Def[j].runAt \in Nat
ASSUME TimeAssumption ==
    /\ LeaseTTL \in Nat \ {0}
    /\ StartTime \in Nat \ {0}
    /\ BackoffTable \in [0 .. 16 -> Nat]
ASSUME BoundAssumption ==
    MaxRetries \in Nat /\ MaxDeletes \in Nat /\ MaxFaults \in Nat

VARIABLES
    clock,      \* datetime('now')
    status,     \* the columns of each row ...
    attempts,
    runAt,
    notBefore,
    lease,      \* ... lease_expires_at
    worker,     \* what each worker goroutine is doing
    stop,       \* whether its generation's app.Stop is closed
    starts,     \* history, read by properties only: bodies started,
    retries,    \*   admin retries made,
    slot,       \*   the run_at the row was queued with,
    last,       \*   whether its own claimant settled the last start
    faults      \* crashes, panics, lost writes and reloads so far

dates   == <<runAt, notBefore>>
table   == <<status, attempts, runAt, notBefore, lease>>
history == <<starts, retries, slot, last>>
vars    == <<clock, table, worker, stop, history, faults>>

-----------------------------------------------------------------------------
Statuses == {"absent", "pending", "running", "completed", "failed", "deleted"}
Phases   == {"off", "sweep", "idle", "body"}
Outcomes == {"ok", "error", "final"}


\* asOf: the fixed `now` of the sweep in progress and stage its next statement;
\* job and attempt: the claim being executed.
Goroutines == [phase : Phases, stage : 0 .. 4, asOf : Nat,
               job : {0} \cup Jobs, attempt : Nat]

TypeOK ==
    /\ clock \in Nat
    /\ status \in [Jobs -> Statuses]
    /\ attempts \in [Jobs -> Nat]
    /\ runAt \in [Jobs -> Nat]
    /\ notBefore \in [Jobs -> Nat]
    /\ lease \in [Jobs -> Nat]
    /\ worker \in [Workers -> Goroutines]
    /\ stop \in [Workers -> {"open", "closed"}]
    /\ starts \in [Jobs -> Nat]
    /\ retries \in [Jobs -> 0 .. MaxRetries]
    /\ slot \in [Jobs -> Nat]
    /\ last \in [Jobs -> {"open", "settled"}]
    /\ faults \in 0 .. MaxFaults

Goroutine(phase, stage, asOf, j, a) ==
    [phase |-> phase, stage |-> stage, asOf |-> asOf, job |-> j, attempt |-> a]

Off             == Goroutine("off", 0, 0, 0, 0)
Idle            == Goroutine("idle", 0, 0, 0, 0)
Sweeping(n, t)  == Goroutine("sweep", n, t, 0, 0)
Executing(j, a) == Goroutine("body", 0, 0, j, a)

Init ==
    /\ clock = StartTime
    /\ status = [j \in Jobs |-> "absent"]
    /\ attempts = [j \in Jobs |-> 0]
    /\ runAt = [j \in Jobs |-> 0]
    /\ notBefore = [j \in Jobs |-> Null]
    /\ lease = [j \in Jobs |-> Null]
    /\ worker = [w \in Workers |-> Off]
    /\ stop = [w \in Workers |-> "open"]
    /\ starts = [j \in Jobs |-> 0]
    /\ retries = [j \in Jobs |-> 0]
    /\ slot = [j \in Jobs |-> 0]
    /\ last = [j \in Jobs |-> "settled"]
    /\ faults = 0

-----------------------------------------------------------------------------
\* Selection: jobClaimSQL.
Active(j)  == status[j] \in {"pending", "running"}
Present(j) == status[j] \notin {"absent", "deleted"}
Arrived(j) == status[j] = "pending" /\ runAt[j] <= clock
Due(j)     == Arrived(j) /\ notBefore[j] <= clock

Grouped(j, k) == Def[j].group # NoGroup /\ Def[k].group = Def[j].group
SharesKey(j, k) == Def[j].key # NoKey /\ Def[k].key = Def[j].key

Earlier(k, j) ==
    \/ runAt[k] < runAt[j]
    \/ runAt[k] = runAt[j] /\ k < j

\* A predecessor of j's group is waiting out its retry backoff.
BackoffGate(j) ==
    \E k \in Jobs : /\ Arrived(k) /\ notBefore[k] > clock
                    /\ Grouped(j, k) /\ Earlier(k, j)

\* Variant: an expired lease frees the group (see GroupExclusive).
GroupBusyByLease(j) ==
    \E k \in Jobs : /\ status[k] = "running" /\ lease[k] >= clock
                    /\ Grouped(j, k)

\* A member of j's group is running, whether or not its lease has expired.
GroupBusy(j) == \E k \in Jobs : status[k] = "running" /\ Grouped(j, k)

Claimable(j) == Due(j) /\ ~BackoffGate(j) /\ ~GroupBusy(j)

\* Retry delay after the attempt that started with n earlier attempts.
Backoff(n) == BackoffTable[IF n > 16 THEN 16 ELSE n]

-----------------------------------------------------------------------------
\* The unique index lets j become active. Variant: it is not there
\* (ActiveKeyUnique).
NoIndex(j) == TRUE

KeyFree(j) == ~\E k \in Jobs : Active(k) /\ SharesKey(j, k)

\* Submission: the j-th row is inserted after the (j-1)-th. The partial unique
\* index refuses a row whose key an active row holds; the submitter then
\* collapses onto that row and nothing changes.
Enqueue(j) ==
    /\ status[j] = "absent"
    /\ j > 1 => status[j - 1] # "absent"
    /\ KeyFree(j)
    /\ status' = [status EXCEPT ![j] = "pending"]
    /\ runAt' = [runAt EXCEPT ![j] = Def[j].runAt]
    /\ slot' = [slot EXCEPT ![j] = Def[j].runAt]
    /\ UNCHANGED <<clock, attempts, notBefore, lease, worker, stop, starts,
                   retries, last, faults>>

\* StartJobWorker: at boot or, while other generations run, by a reload,
\* which closes their app.Stop. The new goroutine sweeps before it polls.
Start(w) ==
    /\ worker[w].phase = "off"
    /\ IF \A v \in Workers : worker[v].phase = "off"
       THEN UNCHANGED faults
       ELSE faults < MaxFaults /\ faults' = faults + 1
    /\ worker' = [worker EXCEPT ![w] = Sweeping(1, clock)]
    /\ stop' = [v \in Workers |-> IF worker[v].phase = "off" THEN "open"
                                  ELSE "closed"]
    /\ UNCHANGED <<clock, table, history>>

\* The stop check at the head of the loop, after a sweep or a body: a stopped
\* generation claims nothing more, unless the stop arrives after the check.
LoopHead(w) == IF stop[w] = "closed" THEN Off ELSE Idle

\* The stop case of the idle select.
Exit(w) ==
    /\ worker[w].phase = "idle"
    /\ stop[w] = "closed"
    /\ worker' = [worker EXCEPT ![w] = Off]
    /\ UNCHANGED <<clock, table, stop, history, faults>>

\* jobClaimAndStartSQL: one UPDATE selects the head of the claimable rows,
\* marks it running, counts the attempt and grants the lease.
Claim(w, j) ==
    /\ worker[w].phase = "idle"
    /\ Claimable(j)
    /\ \A k \in Jobs \ {j} : Claimable(k) => Earlier(j, k)
    /\ status' = [status EXCEPT ![j] = "running"]
    /\ attempts' = [attempts EXCEPT ![j] = @ + 1]
    /\ lease' = [lease EXCEPT ![j] = clock + LeaseTTL]
    /\ worker' = [worker EXCEPT ![w] = Executing(j, attempts[j] + 1)]
    /\ starts' = [starts EXCEPT ![j] = @ + 1]
    /\ last' = [last EXCEPT ![j] = "open"]
    /\ UNCHANGED <<clock, dates, stop, retries, slot, faults>>

\* A poll claimed nothing (no row, or the database refused the statement) and
\* recoverCheck fires in the idle select.
RecoverCheck(w) ==
    /\ worker[w].phase = "idle"
    /\ worker' = [worker EXCEPT ![w] = Sweeping(1, clock)]
    /\ UNCHANGED <<clock, table, stop, history, faults>>

\* jobsRecoverOrphanedJobs, statement by statement, all against one `now`:
\* requeue the allowlisted types, the idempotent flows and the retrying crons
\* that have attempts left, then fail every other orphan.
Orphaned(j, now) ==
    status[j] = "running" /\ lease[j] # Null /\ lease[j] < now

\* Variants: no attempts guard (StartsBounded), no _mcp_effect check
\* (FailsClosed).
RequeuesUnbounded(stage, j) ==
    \/ stage = 1 /\ Def[j].kind = "webhook"
    \/ stage = 2 /\ Def[j].kind = "idempotent"
    \/ stage = 3 /\ Def[j].kind = "cron" /\ Def[j].max > 1

RequeuesEffects(stage, j) ==
    /\ attempts[j] < Def[j].max
    /\ \/ stage = 1 /\ Def[j].kind \in {"webhook", "effect"}
       \/ stage = 2 /\ Def[j].kind = "idempotent"
       \/ stage = 3 /\ Def[j].kind = "cron" /\ Def[j].max > 1

Requeues(stage, j) ==
    /\ attempts[j] < Def[j].max
    /\ \/ stage = 1 /\ Def[j].kind = "webhook"
       \/ stage = 2 /\ Def[j].kind = "idempotent"
       \/ stage = 3 /\ Def[j].kind = "cron" /\ Def[j].max > 1

\* The rows statement n requeues.
Recovered(w, n, j) == Orphaned(j, worker[w].asOf) /\ Requeues(n, j)

SweepRequeue(w) ==
    /\ worker[w].phase = "sweep"
    /\ \E n \in 1 .. 3 :
         /\ worker[w].stage = n
         /\ status' = [j \in Jobs |-> IF Recovered(w, n, j) THEN "pending"
                                      ELSE status[j]]
         /\ lease' = [j \in Jobs |-> IF Recovered(w, n, j) THEN Null
                                     ELSE lease[j]]
         /\ worker' = [worker EXCEPT ![w] = Sweeping(n + 1, worker[w].asOf)]
    /\ UNCHANGED <<clock, attempts, dates, stop, history, faults>>

\* The rows the last statement fails. Variants: it reads its own clock
\* (RecoveryRequeuesSafe), or covers flows only (EverySettles).
AbandonsAtOwnTime(w, j) == Orphaned(j, clock)
AbandonsFlows(w, j) == Orphaned(j, worker[w].asOf) /\ Def[j].kind = "flow"

Abandons(w, j) == Orphaned(j, worker[w].asOf)

SweepFail(w) ==
    /\ worker[w].phase = "sweep" /\ worker[w].stage = 4
    /\ status' = [j \in Jobs |-> IF Abandons(w, j) THEN "failed" ELSE status[j]]
    /\ worker' = [worker EXCEPT ![w] = LoopHead(w)]
    /\ UNCHANGED <<clock, attempts, dates, lease, stop, history, faults>>

-----------------------------------------------------------------------------
\* startJobLeaseHeartbeat: from the claim until processNextJob returns, app.Stop
\* closed or not. The UPDATE names the row and its status, not the attempt.
\* Variant: it listens on app.Stop (LiveBodyOwnsRow).
BeatingUntilStop(w) == worker[w].phase = "body" /\ stop[w] = "open"

Beating(w) == worker[w].phase = "body"

Heartbeat(w) ==
    /\ Beating(w)
    /\ status[worker[w].job] = "running"
    /\ lease[worker[w].job] < clock + LeaseTTL
    /\ lease' = [lease EXCEPT ![worker[w].job] = clock + LeaseTTL]
    /\ UNCHANGED <<clock, status, attempts, dates, worker, stop, history, faults>>

\* The row still carries the attempt this worker claimed. Variant: the fence
\* on status only (SettledByClaimant).
OwnsAnyAttempt(w, j) == status[j] = "running"

Owns(w, j) ==
    /\ status[j] = "running"
    /\ attempts[j] = worker[w].attempt

\* An error no retry can change (jobNotRetryable), or the last attempt's.
GivesUp(w, j, outcome) ==
    \/ outcome = "final"
    \/ outcome = "error" /\ worker[w].attempt >= Def[j].max

Verdict(w, j, outcome) ==
    IF outcome = "ok" THEN "completed"
    ELSE IF GivesUp(w, j, outcome) THEN "failed"
    ELSE "pending"

\* The error path of a job with attempts left: run_at is kept, not_before waits
\* out the backoff. Variant: run_at is re-stamped with the future (ChainOrder).
BacksOffRestamped(w, j) ==
    /\ runAt' = [runAt EXCEPT ![j] = clock + Backoff(worker[w].attempt - 1)]
    /\ UNCHANGED notBefore

BacksOff(w, j) ==
    /\ notBefore' = [notBefore EXCEPT ![j] = clock + Backoff(worker[w].attempt - 1)]
    /\ UNCHANGED runAt

\* The body returns and its outcome is written by one UPDATE fenced on status
\* and attempts: a worker whose claim was taken over changes nothing. Nobody
\* reads the outcome before that UPDATE, so the two are one step.
Settle(w, outcome) ==
    /\ worker[w].phase = "body"
    /\ LET j == worker[w].job IN
         IF Owns(w, j)
         THEN /\ status' = [status EXCEPT ![j] = Verdict(w, j, outcome)]
              /\ lease' = [lease EXCEPT ![j] = Null]
              /\ last' = [last EXCEPT ![j] = "settled"]
              /\ IF Verdict(w, j, outcome) = "pending" THEN BacksOff(w, j)
                 ELSE UNCHANGED dates
         ELSE UNCHANGED <<status, lease, last, dates>>
    /\ worker' = [worker EXCEPT ![w] = LoopHead(w)]
    /\ UNCHANGED <<clock, attempts, stop, starts, retries, slot, faults>>

\* A panic in the body unwinds to processNextJob's recover, or the final UPDATE
\* fails and its error is dropped: the heartbeat stops, the row stays running.
Unsettled(w) ==
    /\ worker[w].phase = "body"
    /\ faults < MaxFaults /\ faults' = faults + 1
    /\ worker' = [worker EXCEPT ![w] = LoopHead(w)]
    /\ UNCHANGED <<clock, table, stop, history>>

\* The process dies; only the table survives.
Crash ==
    /\ \E w \in Workers : worker[w].phase # "off"
    /\ faults < MaxFaults /\ faults' = faults + 1
    /\ worker' = [w \in Workers |-> Off]
    /\ stop' = [w \in Workers |-> "open"]
    /\ UNCHANGED <<clock, table, history>>

-----------------------------------------------------------------------------
\* POST /api/_jobs/{id}/retry: attempts are kept, an effect is never re-run,
\* and the unique index refuses a second active holder of the key.
AdminRetry(j) ==
    /\ status[j] = "failed"
    /\ Def[j].kind # "effect"
    /\ retries[j] < MaxRetries
    /\ KeyFree(j)
    /\ status' = [status EXCEPT ![j] = "pending"]
    /\ runAt' = [runAt EXCEPT ![j] = clock]
    /\ notBefore' = [notBefore EXCEPT ![j] = Null]
    /\ retries' = [retries EXCEPT ![j] = @ + 1]
    /\ slot' = [slot EXCEPT ![j] = clock]
    /\ last' = [last EXCEPT ![j] = "settled"]
    /\ UNCHANGED <<clock, attempts, lease, worker, stop, starts, faults>>

\* A row disappears; its job ends and its history is no longer of interest.
Removed(j) ==
    /\ Cardinality({k \in Jobs : status[k] = "deleted"}) < MaxDeletes
    /\ status' = [status EXCEPT ![j] = "deleted"]
    /\ attempts' = [attempts EXCEPT ![j] = 0]
    /\ runAt' = [runAt EXCEPT ![j] = 0]
    /\ notBefore' = [notBefore EXCEPT ![j] = Null]
    /\ lease' = [lease EXCEPT ![j] = Null]
    /\ starts' = [starts EXCEPT ![j] = 0]
    /\ retries' = [retries EXCEPT ![j] = 0]
    /\ slot' = [slot EXCEPT ![j] = 0]
    /\ last' = [last EXCEPT ![j] = "settled"]
    /\ UNCHANGED <<clock, worker, stop, faults>>

\* DELETE /api/_jobs/{id} takes a row in any status, a running one included.
AdminDelete(j) == Present(j) /\ Removed(j)

\* pruneOldJobs, ages abstracted: a failed effect is kept as evidence.
Prune(j) ==
    /\ \/ status[j] = "completed"
       \/ status[j] = "failed" /\ Def[j].kind # "effect"
    /\ Removed(j)

\* Time passes while some stored instant lies ahead: no condition can change
\* with the clock otherwise.
Awaited == \E j \in Jobs :
    \/ status[j] = "pending"
       /\ (runAt[j] > clock \/ notBefore[j] > clock)
    \/ status[j] = "running" /\ lease[j] >= clock

Tick ==
    /\ Awaited
    /\ clock' = clock + 1
    /\ UNCHANGED <<table, worker, stop, history, faults>>

WorkerStep(w) ==
    \/ Start(w) \/ Exit(w) \/ RecoverCheck(w) \/ SweepRequeue(w) \/ SweepFail(w)
    \/ \E j \in Jobs : Claim(w, j)
    \/ \E outcome \in Outcomes : Settle(w, outcome)
    \/ Unsettled(w)

AdminStep(j) == AdminRetry(j) \/ AdminDelete(j) \/ Prune(j)

Next ==
    \/ \E w \in Workers : WorkerStep(w) \/ Heartbeat(w)
    \/ \E j \in Jobs : Enqueue(j) \/ AdminStep(j)
    \/ Crash
    \/ Tick

Spec == Init /\ [][Next]_vars

-----------------------------------------------------------------------------
(***************************************************************************)
(* Schedules.                                                              *)
(***************************************************************************)

\* Heartbeats are timely: no lease lapses while a heartbeat for its row is
\* alive. The code cannot enforce it (a stalled process or a busy database
\* delays the UPDATE), so only LiveBodyOwnsRow assumes it.
HeartbeatsTimely ==
    \A w \in Workers : Beating(w) /\ status[worker[w].job] = "running"
                         => lease[worker[w].job] > clock

TimelyNext ==
    \/ \E w \in Workers : WorkerStep(w) \/ Heartbeat(w)
    \/ \E j \in Jobs : Enqueue(j) \/ AdminStep(j)
    \/ Crash
    \/ HeartbeatsTimely /\ Tick

TimelySpec == Init /\ [][TimelyNext]_vars

\* What the Go runtime and SQLite owe: a runnable goroutine runs and bodies
\* return (weak fairness); the idle loop polls and selects again and again and
\* refusals of the database are transient, so a claim that keeps being possible
\* is made and the recovery tick is taken (strong fairness); a dead process is
\* restarted.
Fairness ==
    /\ \A w \in Workers :
         /\ WF_vars(Exit(w))
         /\ SF_vars(RecoverCheck(w))
         /\ SF_vars(\E j \in Jobs : Claim(w, j))
         /\ WF_vars(SweepRequeue(w))
         /\ WF_vars(SweepFail(w))
         /\ WF_vars(\E outcome \in Outcomes : Settle(w, outcome))
    /\ WF_vars((\A w \in Workers : worker[w].phase = "off")
               /\ \E w \in Workers : Start(w))
    /\ WF_vars(Tick)

\* Liveness is stated for bodies that return within the lease their claim was
\* granted, so that no heartbeat is needed and the clock stays finite.
BriefNext ==
    \/ \E w \in Workers : WorkerStep(w)
    \/ \E j \in Jobs : Enqueue(j) \/ AdminStep(j)
    \/ Crash
    \/ HeartbeatsTimely /\ Tick

FairSpec == Init /\ [][BriefNext]_vars /\ Fairness

-----------------------------------------------------------------------------
(***************************************************************************)
(* Properties.                                                             *)
(***************************************************************************)

\* A job is safe to run again after an attempt of unknown outcome.
RerunSafe(j) ==
    \/ Def[j].kind \in {"webhook", "idempotent"}
    \/ Def[j].kind = "cron" /\ Def[j].max > 1

\* w executes the latest start of j.
Claimant(w, j) ==
    /\ worker[w].phase = "body"
    /\ worker[w].job = j
    /\ worker[w].attempt = starts[j]

\* Two running rows never belong to one project, whatever expired leases,
\* overlapping generations and administrators do (jobClaimSQL's second gate).
GroupExclusive ==
    \A j, k \in Jobs : j # k /\ Grouped(j, k)
        => ~(status[j] = "running" /\ status[k] = "running")

\* Two active rows never share a unique key: an administrator's retry of a
\* failed row competes with a newer submission (idx_jobs_unique_active).
ActiveKeyUnique ==
    \A j, k \in Jobs : j # k /\ SharesKey(j, k) => ~(Active(j) /\ Active(k))

\* A body is started at most max_attempts times, and once more for each admin
\* retry, however its attempts end: attempts are counted at the claim and the
\* crash requeue spends the same budget (jobsRecoverRequeueGuard).
StartsBounded ==
    \A j \in Jobs : starts[j] <= Def[j].max + retries[j]

\* C-1, fail closed: a job whose last attempt ended without its own claimant
\* settling it goes back to pending only if it is safe to run again.
FailsClosed ==
    \A j \in Jobs : status[j] = "pending" /\ last[j] = "open" => RerunSafe(j)

\* A body never runs without its row: while heartbeats are timely, whoever
\* executes a body, in a generation that was reloaded away included, holds the
\* running row under its own attempt, unless an administrator deleted the row.
LiveBodyOwnsRow ==
    \A w \in Workers : worker[w].phase = "body" =>
        Owns(w, worker[w].job) \/ status[worker[w].job] = "deleted"

\* A row leaves running only by the hand of the latest claimant as its body
\* returns, by recovery once its lease has expired, or by deletion; a worker
\* whose claim was taken over never settles it (the attempts fence).
SettledByClaimant ==
    [][\A j \in Jobs :
         status[j] = "running" /\ status'[j] \notin {"running", "deleted"}
         => \/ \E w \in Workers : Claimant(w, j) /\ worker'[w].phase # "body"
            \/ lease[j] < clock /\ status'[j] # "completed"]_vars

\* Recovery gives up only on jobs it may not re-run: a row that fails without
\* its claimant saying so is unsafe to run again or out of attempts.
RecoveryRequeuesSafe ==
    [][\A j \in Jobs :
         status[j] = "running" /\ status'[j] = "failed" /\ last'[j] = "open"
         => ~RerunSafe(j) \/ attempts[j] >= Def[j].max]_vars

\* Reconcile chains stay in order: a body starts only when every job of its
\* project queued before it in (run_at, id) order, and due, is finished; a
\* retry keeps its slot and the gate keeps successors behind it.
ChainOrder ==
    [][\A j \in Jobs : starts'[j] > starts[j] =>
         \A k \in Jobs :
            /\ Grouped(j, k)
            /\ \/ slot[k] < slot[j]
               \/ slot[k] = slot[j] /\ k < j
            /\ slot[k] <= clock
            => ~Active(k)]_vars

\* Every queued job is eventually completed, failed or deleted: no crash, lost
\* write, backoff gate or orphan holding its project leaves it stuck.
EverySettles ==
    \A j \in Jobs : Active(j) ~> ~Active(j)

-----------------------------------------------------------------------------
(***************************************************************************)
(* The inductive invariant behind the safety properties.                   *)
(***************************************************************************)

WorkerInv ==
    \A w \in Workers :
        /\ worker[w].phase = "body" =>
             worker[w].job \in Jobs /\ worker[w].attempt > 0
        /\ worker[w].phase = "sweep" => worker[w].asOf <= clock

\* The attempts column counts the starts; a claim carries a number that was
\* handed out, and no two claims of one row carry the same number.
Executes(w, j) ==
    worker[w].phase = "body" /\ worker[w].job = j /\ status[j] # "deleted"

FenceInv ==
    \A j \in Jobs :
        /\ attempts[j] = starts[j]
        /\ \A w \in Workers :
             Executes(w, j) => worker[w].attempt \in 1 .. attempts[j]
        /\ \A v, w \in Workers :
             v # w /\ Executes(v, j) /\ Executes(w, j)
               => worker[v].attempt # worker[w].attempt

BudgetInv ==
    \A j \in Jobs :
        /\ attempts[j] <= Def[j].max + retries[j]
        /\ status[j] = "absent" => attempts[j] = 0 /\ retries[j] = 0
        /\ status[j] = "pending" =>
             attempts[j] < Def[j].max + retries[j]

\* A start is open while its row runs under a lease, and a requeued one is safe.
OpenInv ==
    \A j \in Jobs :
        /\ status[j] = "absent" => last[j] = "settled"
        /\ status[j] = "running" => last[j] = "open" /\ lease[j] # Null
        /\ status[j] = "pending" /\ last[j] = "open" => RerunSafe(j)

\* A row keeps its slot, whatever is written to it until an admin retries it.
SlotInv == \A j \in Jobs : runAt[j] = slot[j]

\* The statements a sweep has behind it left none of their orphans: who runs
\* since, or still beats, has a lease beyond the sweep's own `now`.
SweepInv ==
    \A w \in Workers : worker[w].phase = "sweep" =>
        \A j \in Jobs, n \in 1 .. 3 :
            n < worker[w].stage /\ Requeues(n, j) => ~Orphaned(j, worker[w].asOf)

\* Everything the table, the workers and the history have in common.
QueueInv == TypeOK /\ WorkerInv /\ FenceInv /\ BudgetInv /\ OpenInv /\ SlotInv /\ SweepInv
             /\ GroupExclusive /\ ActiveKeyUnique

\* While heartbeats are timely, a row that is executed has a lease that lasts.
LeaseHeld ==
    \A w \in Workers :
        worker[w].phase = "body" /\ status[worker[w].job] = "running"
            => lease[worker[w].job] >= clock

TimelyInv == LiveBodyOwnsRow /\ LeaseHeld

-----------------------------------------------------------------------------
\* The promise the queue keeps to its submitters.
Standing(j) ==
    CASE status[j] = "pending"   -> "waiting"
      [] status[j] = "running"   -> "active"
      [] status[j] = "completed" -> "done"
      [] status[j] = "failed"    -> "gaveUp"
      [] status[j] = "deleted"   -> "removed"
      [] OTHER                        -> "absent"

StartsLeft(j) ==
    IF Present(j) THEN Def[j].max + retries[j] - starts[j] ELSE 0

Promise == INSTANCE JobPromise WITH
    Allowance <- [j \in Jobs |-> Def[j].max],
    Project   <- [j \in Jobs |-> Def[j].group],
    NoProject <- NoGroup,
    state     <- [j \in Jobs |-> Standing(j)],
    left      <- [j \in Jobs |-> StartsLeft(j)]

\* The queue implements JobPromise: whatever crashes, expired leases, stale
\* workers and administrators do, a submitter sees only the promised steps.
KeepsPromise == Promise!Spec
=============================================================================
