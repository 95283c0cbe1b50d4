# A TLA+ verification of Benmore's stateful core

Benmore is a Go program that serves applications declared in configuration
files: records over SQLite, workflows, jobs, cron, hooks, realtime, an MCP
connector for agents. Most of it is request-local text processing. This project
models the parts whose correctness depends on the *order* in which goroutines,
requests, processes, crashes and the clock interleave: the job queue, the cron
scheduler, approved MCP commands, record editing (locks, versions, workflow
transitions and timeouts), the life of rows (idempotent create, delete, cascade,
restore), the outbound circuit breaker, the authority an owner and a user give
the MCP connector, and bulk import.

Every definition was translated from `src/`; `PROJECT.json` gives the lines each
one stands for. TLC checks small instances; TLAPS proves the safety results for
every value of the constants.

    tlc -workers 2 -config JobQueueKeys.cfg MCJobQueue     # one run
    tlapm JobQueue_proofs.tla                              # one proof module

## 1. Inventory

### Parts with concurrent or durable state

| Part (files) | State | Operations | Interacts with | Hard behaviour | What makes it correct |
|---|---|---|---|---|---|
| Durable job queue (`jobs.go`) | rows of `_benmore_jobs`; worker goroutines; `app.Stop` | enqueue, claim, heartbeat, settle, recovery sweep, admin retry/delete, prune | cron, hooks, webhooks, flows and commands queue rows; bodies run flows | crash with a body in flight, expired leases, overlapping generations on reload, lost UPDATEs, retries | one running row per project, one active row per key, bounded starts, no re-run of an unsafe body, chain order, nothing stuck |
| Cron scheduler (`cron.go`) | `_benmore_cron_state`, in-memory last fire, ticker channel | tick, due decision, keyed enqueue, record | job queue | reload in mid-tick, sibling process, refused statements, crash between enqueue and record, late ticks | a minute fires once; a recorded fire survives restarts |
| Approved MCP commands (`app_mcp_command_*.go`, `app_mcp_operation_*.go`) | operation with receipt, approval, attempts; caller's deadline | prepare, approve, commit (claim, apply, record), status, sweep, revoke | policy lock, write epochs, grants, sessions | COMMIT of unknown outcome, superseded claims, crash between transactions, clock stepped back, authority withdrawn half-way | applied at most once, records and answers true, expired means expired, revoked means revoked |
| Record locks (`locks.go`) | `_benmore_locks` | acquire, extend, release, status, cleanup | CRUD and workflow handlers ask before they write | check-then-act in separate statements | an unexpired lock is never stolen, only its owner releases it |
| Record versions (`crud_update.go`, `crud_optimistic_timestamp.go`) | `updated_at` of a row | read, PATCH with `_expected_updated_at` | workflows write the same column | two writes in one clock tick, server clock behind | no lost update |
| Workflows (`workflows.go`) | the state column of a row | transition, timeout checker, hooks | versions, locks, hooks | validation before the transaction, two checkers, hooks after the transaction | only declared moves, hooks once, timeouts only when due |
| Rows: create, delete, cascade, restore (`crud_create.go`, `crud_idempotency.go`, `crud_delete.go`, `crud_batch.go`, `crud_transaction.go`, `crud_restore.go`) | two tables with `deleted_at`, a foreign key, cached responses of keyed creates | create, replay, delete (single, batch, transaction), cascade, restore, move to another parent | record locks, audit, hooks | cascade after the commit, locks looked up before the transaction, repeated requests, crash | no orphan without a cause, one row per key, one audit row per deletion, held rows survive |
| Outbound circuit breaker (`circuitbreaker.go`) | per-host state, failure count, two instants | check, success, failure | flows, hooks and webhooks, from job bodies | outcomes arriving out of order, several probes under way | probes are spaced and follow a whole quiet cooldown |
| Owner's authority (`app_mcp_epoch.go`, `app_mcp_connector_control.go`, `app_mcp_revision_enrollment.go`, `app_mcp_revision_retire.go`, `app_mcp_policy_lock.go`, `app_mcp_writes_resume.go`) | owner file, enrollment record, ledger triggers, published generation, prepared operations | enable and disable (reads, writes, auto), enroll, retire, suspend, resume, reload, restore | loader, server, approved commands | a switch in several steps, a start or a reload between them, crash, restored databases | writes only on the owner's last word for the loaded source; nothing prepared under an earlier setting lands |
| Connector grants (`app_mcp_oauth.go`, `app_mcp_grants.go`, `app_mcp_oauth_http.go`) | consent pages, codes, grants, refresh tokens | approve, exchange, refresh, revoke, expire | owner's authority, accounts | forms and codes sent twice, lost answers, scopes computed outside the transaction | one grant per consent, one live refresh token, scopes only shrink, ended is ended |
| Bulk import (`import.go`, `import_http.go`, `import_run.go`, `import_sql.go`) | session row, staged chunk files, per-app flag | create, PUT chunk, commit, load, cancel, sweep | CRUD tables, storage limits | files and rows in separate steps, late PUTs, two commits, crash and sweep | the declared file lands once or not at all, an end is final, no files left without a cause |
| Login lockout, session cache (`auth_lockout.go`, `auth_session_cache.go`) | counters, cached sessions | attempt, reset, look-up, invalidate | every authenticated request | stale cache after sign-out | no session outlives its revocation by more than the cache allows |
| Worker generations (`app_workers.go`, `server_reload_storage.go`) | tracked goroutines, `Stop` channels | start, reload, drain | queue, cron, locks, workflows | reload while a body runs | no worker outlives the drain |
| Parallel flow steps (`flows_parallel.go`) | shared variables of a flow | fork, join | flows | write order of branches | result independent of the schedule |
| Rate limits (`ratelimit.go` and others) | in-memory windows | allow | handlers | limit at the window's edge | never above the limit |

### Parts without

Schema migration, access control, validators and declarations, templates,
documents and media, uploads, mail and messages, administration and tooling:
sequential transformations or plain I/O. Realtime is best effort by design.
Encryption key rotation has a careful journal but no caller outside its tests at
this commit. `PROJECT.json` lists every part with its status and the reason;
`hazards` lists what is hard to test, line by line, with the property that
watches it or a note why none does.

## 2. Modules

| Module | What it is |
|---|---|
| `JobQueue` | the queue, one action per SQL statement or worker step |
| `JobPromise` | abstract specification of the queue: what a submitter is promised |
| `CronScheduler` | the scheduler goroutines of one cron job |
| `ApprovedCommand` | the life of one approved command |
| `RecordEditing` | one row: its lock, its version, its workflow state |
| `RowLifecycle` | two tables: keyed creates, deletes, cascades, restores, moves |
| `CircuitBreaker` | the breaker of one host and the deliveries that share it |
| `ConnectorAuthority` | the owner file, enrollment, loads, reloads, restores, and the operations judged by them |
| `ConnectorGrants` | one account's consents, codes, grants and refresh tokens |
| `BulkImport` | import sessions, their staged files, commit, load and sweep |
| `MCPlatform` | the five above in one instance, one of them active per behaviour |
| `MC*` | instances for TLC: constants, symmetry sets, views |
| `*_proofs` | theorems and TLAPS proofs about the module of that name; `MCPlatform_proofs` has those about `CircuitBreaker`, `BulkImport` and the composition |

In all of them a SQL statement, or a transaction whose reads and writes nobody
can see in between, is one step; between two steps anything else may happen.
SQLite is taken as an atomic store with a single writer. Some modules have, next
to an operator, a *variant* of it (the comment says so): the operator as a
plausible bug would leave it. `Next` never uses a variant; with one in the place
of the original the named property fails, which is how each property is known to
depend on the code.

### JobQueue

State: the columns `status`, `attempts`, `run_at`, `not_before`,
`lease_expires_at`, what each worker goroutine does, and whether its generation
was stopped. History variables (`starts`, `retries`, `slot`, `last`) are read by
properties only.

| Action | Code |
|---|---|
| `Enqueue` | `EnqueueJob` family: INSERT under the partial unique index |
| `Start`, `Exit` | `StartJobWorker` at boot or reload; the stop case of the loop |
| `Claim` | `jobClaimAndStartSQL`: selection with both gates, attempt, lease |
| `Heartbeat` | `startJobLeaseHeartbeat` |
| `Settle` | return of the body and the UPDATE fenced on status and attempts |
| `Unsettled`, `Crash` | panic or lost final UPDATE; death of the process |
| `RecoverCheck`, `SweepRequeue` (three statements), `SweepFail` | `jobsRecoverOrphanedJobs` |
| `AdminRetry`, `AdminDelete`, `Prune` | the `/api/_jobs` handlers, `pruneOldJobs` |

Abstractions: a body is its outcome (`ok`, `error`, `final`); its return and the
fenced UPDATE are one step, since nobody reads the outcome in between; polling
and waiting are one `idle` phase; the keyed lookup before an INSERT is collapsed
to the decision of the index (`CronScheduler` has the two-statement race); the
ages `Prune` asks for are left out, so it may prune earlier than the code.

`JobPromise` knows no clock, lease, worker or attempt. `KeepsPromise` says that
`JobQueue` implements it under the mapping `Standing` / `StartsLeft`.

### CronScheduler

One cron job, several scheduler goroutines, a clock in parts of a minute.
`Start` hydrates, retires the peers of its process and ticks at once; `Receive`
and `Retire` are the `select`; `Decide` re-reads the recorded fire and applies
`cronShouldFire`; `Find` and `Insert` are the two statements of `EnqueueCronJob`;
`Persist` records best effort; `Settle` is a job worker finishing the row;
`Refused` names the statements the database may refuse. A ticker's channel holds
one tick and drops what does not fit. Parsing of the five fields is the set
`Matching` of minutes.

### ApprovedCommand

`Prepare`, `Approve`, `Revoke`, `Sweep` and `Status` are one transaction each. A
commit is `Claim`, then `Begin` - `PassBarrier` - `Commit` (the business
transaction, which reads the clock at its start and at the barrier and holds the
write-policy lock between), then `Record`. `Commit` and `CommitLost` are the two
truths behind a COMMIT that reports an error; `RecordLost` the same for the
record. `Fail` stands for every refusal before COMMIT. `Crash` drops a request
at any point. `authority` is what a commit rests on (grant, epochs, basis of the
approval); `Revoke` withdraws any of it. Left out: the per-actor quota of
pending operations, and the replay of an existing receipt, which changes nothing.

### RecordEditing

One row and the handlers around it. Lock handlers are split statement by
statement (`StartAcquire`, `Purge`, `AcquireLook`, `InsertLock` or `ExtendLock`;
`ReleaseLook`, `DeleteLock`; `CheckLock`). A PATCH is `StartEdit`, `CheckLock`,
`Update` (its transaction); a transition is `StartTransition`, `CheckLock`,
`Validate`, `Transition`; a checker is `SelectAged`, `ApplyTimeout`, `FireHooks`.
The start of a handler is merged with its first statement. `version` is
`updated_at` and is finer than the clock by `Step`, as a timestamp with a counter
is. Roles, conditions and failing hooks are refusals without a cause.

### RowLifecycle

A transaction that begins immediate is one step, a statement outside one is a
step of its own; that is where the hazards are. `Create` and `Replay` are one
transaction with the idempotency record, which `DayPasses` makes a day old. A
delete is `StartDelete`, `LookLocks` (outside the transaction), then `DeleteRows`
(single and batch) or `DeleteInTransaction`, then for each parent that went
`ReadChildren`, `LookChild` per child, `DeleteChildren` or `CascadeFails`, with
`FireEffects` for hooks and webhooks, `EndDelete`. A move is `StartRepoint`,
`LookRepoint`, `Repoint`; `RestoreRow` checks lock and parent in its transaction.
`Lock` and `Unlock` are `RecordEditing`'s handlers in one step each, since only
the holder matters here. `ServerCrash` drops every request. The histories
`excuse`, `since`, `deaths`, `fired`, `lost` and `shown` are read by properties
only. A refusal other than by a lock (scope, before-hook, audit) rolls back and
leaves everything as a request that goes no further; in the cascade it is the
set `cs` of `DeleteChildren`. The parents of a cascade come in any order.

### CircuitBreaker

`Admit` and `AdmitProbe` are `CheckCircuit`, `Succeed` and `Fail` are
`RecordSuccess` and `RecordFailure`, one step each under the mutex; between them
the delivery is on its way, for at most `SendTimeout`. `Abandon` is a delivery
that ends after the check with nothing recorded. Time is in ticks. A restart
forgets the circuit; it does so in a state that is not closed, which is where it
makes a difference.

### ConnectorAuthority

The owner file is a record, replaced as a whole by `Store`; the operators before
it (`RotateWriteEpoch`, `TurnOff`, `Expose`, `Hide`, `OwnerOff`, `TurnOn`,
`SetAuto`) are the functions that compute its next content. Tokens are numbers
never used before. Owner: `Disable`, `DisableWrites`, `DisableAuto`,
`EnableReads`; `EnableWrites` goes on with `ExposeFirst`, `Look`, `EnrollBegin`,
`EnrollInstall`, `EnrollActivate`, `Flip`, `AutoOn`, and may end in `RequestFails`
and `RollBack` anywhere. Process: `BootCheck`, `LoadBegin`, `LoadEnd`, `Resume`,
`Settle` at a start; `ReloadBegin`, `ReloadEnd` or `ReloadAborts`; `CheckOnly`,
`Restore`, `Edit` of the source, `AuthorityCrash`. Users: `Consent`, `Prepare`,
`Approve`, `Land`, `Discard`; a call is refused under the lease unless its pin is
current, so its effect is one step. What happens *within* the commit of one
operation is `ApprovedCommand`. An operation may be prepared for review although
automatic approval would be possible, because that also depends on its tool.

### ConnectorGrants

One account with one client. `ShowPage`; `ReadConsent`, `ClaimConsent`,
`StoreCode`, `EndApproval`; `ReadCode`, `ClaimCode`, `CheckExchange`,
`PersistGrant`, `EndExchange`; `ReadRefresh`, `CheckRefresh`, then one
transaction, `Rotate` or `Replayed` or neither (`EndRefresh`). A claim is the
conditional UPDATE; what an account may do (`allowed`) is worked out outside any
transaction and may change at any moment. `RevokeUserGrants` is the statement
set of a password change, `ExpirePage`, `ExpireCode` and `ExpireGrant` the
passing of lifetimes, without a clock.

### BulkImport

The session row, the files `part-N` and the in-memory flag are separate
variables because the code changes them in separate steps. An upload is
`StartPut`, `WritePart`, `Recheck`, `MeasurePut`; a commit `TakeFlag`,
`ClaimSession`, `CheckCommit`, perhaps `RollBackCommit`; a load `MeasureLoad`,
`OpenParts`, `ReadPart` one by one, `CompleteImport` or `LoadFails` and
`FailLoad`, `PurgeLoaded`; a cancel `CancelSession`, `PurgeCancelled`; a sweep
`StartSweep`, `SweepSession`, `SweepPurge`, `EndSweep`. Every chunk has one size,
so bytes are counted in chunks; a chunk has the declared bytes or others, which
is what the checksum tells apart.

### MCPlatform

The five modules share no variable, so composing their steps freely would only
multiply their states. `area` is chosen at the start of a behaviour and says
which of them runs; each property is checked where its component moves. The
links between them that matter are inside the modules: locks and effects in
`RowLifecycle`, operations and consents in `ConnectorAuthority`.

## 3. Runs

| Run (cfg) | Question | Properties | States, time |
|---|---|---|---|
| `job_chain` | do the stages of a project stay exclusive and in order through retries, recovery and reloads? | `GroupExclusive`, `ChainOrder`, `RecoveryRequeuesSafe` | 570 k, 35 s |
| `job_keys` | keys, budget, fence, unsafe effects; the inductive invariant; the abstract specification | `QueueInv`, `ActiveKeyUnique`, `StartsBounded`, `FailsClosed`, `SettledByClaimant`, `KeepsPromise` | 200 k, 35 s |
| `job_timely` | does a body always hold its row while heartbeats are timely? | `LiveBodyOwnsRow` | 18 k, 3 s |
| `job_live` | does every queued job end? | `EverySettles` | 105 k, 45 s |
| `cron_cluster` | how often can a minute be queued with a reload and a sibling process? | `CronInv`, `DuplicatesBounded` | 616 k, 45 s |
| `cron_solo` | does one scheduler fire once and honour recorded fires? | `FiredOncePerMinute`, `RecordedFireHolds` | 182 k, 7 s |
| `cron_reload` (violation) | does a minute fire once across a reload? | `FiredOncePerMinute` | seconds |
| `record_edits` | lost updates, undeclared moves, doubled hooks, stolen locks | `EditInv`, `HooksOncePerMove`, `NoLostUpdate`, `DeclaredMoves`, `LockNeverStolen` | 1.1 M, 45 s |
| `lock_release` (violation) | can a release delete someone else's lock? | `OnlyOwnerReleases` | seconds |
| `timeout_due` (violation) | can a timeout fire on a state just entered? | `TimeoutIsDue` | seconds |
| `command_retry` | is a command applied once, on valid authority, and is everyone told the truth? | `CommandInv`, `AppliedOnce`, `OneRunning`, `RecordsTrue`, `AnswersTrue`, `ExpiredIsFinal`, `RevokedNeverApplied` | 1.2 M, 60 s |
| `platform` | rows: orphans, keys, audit, locks; breaker: late answers; authority: stale words and operations; grants: forms, codes and tokens sent again; import: late and repeated requests; the inductive invariants of all five | `PlatformInv`, `OrphanHasCause`, `OneRowPerKey`, `OneAuditPerDeletion`, `LockedRowsSurvive`, `ProbesFollowQuiet`, `WritesStandApproved`, `NothingStaleLands`, `OneGrantPerConsent`, `OneLiveRefresh`, `LoadedWhole`, `TerminalStays`, `LeftoversHaveCause` | 770 k, 110 s |

Deadlock checking is off in every run because every system here may stop: the
queue is quiet, the operation is over, the bounded clock or the bounded number
of writes is used up. That work does not get stuck is `EverySettles`.

### Bounds, and why they are enough

* **Jobs.** Two workers are an old and a new generation, the largest overlap a
  reload makes of one worker each. Three rows give a predecessor, a successor
  and one in between (`job_chain`), or two holders of a key and an effect
  (`job_keys`). `MaxFaults = 1` (two in `job_timely`) is any one crash, panic,
  lost write or reload at any point; each leaves at most one orphan behind, and
  the sweep treats orphans one by one. `MaxRetries = 1`: a second retry starts
  from a state of the same shape. Safety runs have no bound on time: the view
  `TimelessView` identifies states that differ by a shift of the clock, which
  behave alike because guards only compare instants with each other and with
  the clock. `Tick` is taken only while a stored instant lies ahead.
* **Cron.** A minute has three parts and the guard of 55 seconds two, so that
  the part after the guard exists. Three schedulers are a reload and a sibling.
  `cron_cluster` has a five-field schedule, where a tick after the guard is due
  again in the minute that fired and only the minute's key stops it; in
  `cron_solo` the interval is longer than the guard, which then decides nothing.
  `SchedulerView` forgets what a stopped scheduler left in its variables.
* **Commands.** Two requests, three attempts (one superseding, one superseded,
  one refused by the limit), deadline 2, stale after 2, lifetime 3, horizon 5:
  deadlines cut short by the expiry, stale claims before and after it, and the
  sweep of an operation with requests still at work all occur. One step back of the
  clock is enough to make a later claim sort before an earlier one.
* **Records.** Two users with one request each, two checkers, three writes, two
  steps of the clock and one back: both checkers can have selected the row before
  either applies its timeout, and a request can move it in between. `RecordView`
  drops what a request computed for a statement it has passed; `EditSymmetry`
  permutes the checkers, and the requests together with their users.
* **Rows.** Two parents, two children, two requests that can be begun three
  times in all, and one upset (a lock taken, a day passed, a crash). Two requests
  are what can meet on a row; the third start lets a create, move or restore come
  between a delete and its cascade, or a key be used again. One upset because
  each is harmful alone or not at all; the proofs have no bound.
* **Breaker.** Three deliveries: two probes under way and a send of before the
  trip. Threshold 2, cooldown 3, probes every 2, sends up to 4 ticks, so that, as
  in the code (60, 5 and 10 seconds), a probe outlives the probe interval; a clock
  of 11 reaches a second trip with probes of the first still out.
* **Authority.** Two reviewed sources and none, one operation. Tokens grow without
  bound; the view keeps which of them are equal, all that a step reads.
* **Grants.** One page approved twice, two exchanges, two refreshes at once, three
  tokens per grant. One scope in the run: what happens with several is left to
  `ScopesNeverGrow`, proved for all.
* **Import.** One session, a file of two chunks with a third index in use, two
  uploads under way. The flag serialises sessions, so a second one would only
  wait.

`PlatformSymmetry` permutes the two parents, the two children, and the pair of
requests with that of callers; `q1` and `q2` also stand for the pair of each
other component, where only that component moves. `PlatformView` drops what a
request computed for a statement it has passed, counters of which a difference
is read, and the numbers of tokens.

### Fairness

Only `job_live` uses any (`FairSpec`). Weak fairness on `Exit`, the sweep, the
return of a body and the clock: goroutines that can run do, and bodies return.
Strong fairness on `Claim` and `RecoverCheck`: the idle loop polls and selects
again and again, and a `select` with several ready cases picks among them. Weak
fairness on the restart of a dead process: its supervisor. Nothing is assumed of
clients or administrators. In this run bodies return within the lease of their
claim, so that heartbeats need not be counted and the clock stays finite.

## 4. Proofs

| Module | Theorem | For every value of the constants |
|---|---|---|
| `JobQueue_proofs` | `TypeCorrect`, `InvCorrect` | types; the inductive invariant |
| | `GroupExclusion`, `KeyUniqueness`, `BoundedStarts`, `FailClosed` | the safety invariants of the runs |
| | `SettledByClaimants`, `RecoveryRequeues`, `ChainsInOrder` | who may end a run, what recovery may fail, chain order |
| | `LiveBodies` | a body holds its row, while heartbeats are timely |
| | `PromiseKept` | `JobQueue` implements `JobPromise` |
| | `QueueNeverWedged` | while a job is unfinished, something is claimable, an orphan, or awaited |
| `CronScheduler_proofs` | `InvCorrect`, `BoundedDuplicates`, `AloneFiresOnce`, `RecordedFiresHold` | a minute is queued at most once per scheduler; a recorded fire holds |
| `ApprovedCommand_proofs` | `InvCorrect`, `AppliedAtMostOnce`, `OneRunningCorrect`, `RecordsAndAnswersTrue`, `AnswersStayTrue`, `RevocationHolds`, `ExpiryFinal` | one application, true records and answers, final expiry and revocation |
| `RecordEditing_proofs` | `InvCorrect`, `LostUpdatesExcluded`, `MovesAsDeclared`, `HooksFireOnce`, `LocksNotStolen` | no lost update on any clock; declared moves only; hooks at most once; live locks are not taken over |
| `RowLifecycle_proofs` | `RowInvariant`, `RowTypeCorrect`, `OrphansHaveCauses`, `KeysNameOneRow`, `DeletionsAudited`, `LocksRespected` | the four properties of the run, for any tables, requests and keys |
| `ConnectorAuthority_proofs` | `AuthorityInvariant`, `ApprovedWritesStand`, `StaleNeverLands` | writes stand approved, stale operations never land |
| `ConnectorGrants_proofs` | `GrantInvariant`, `ConsentsGrantOnce`, `RefreshesLeaveOne`, `ScopesNeverGrow`, `EndsAreFinal` | one grant per consent, one live token, shrinking scopes, final ends |
| `MCPlatform_proofs` | `BreakerInvariant`, `ProbesAreSpaced`, `ProbesAreLate` | probes, for any thresholds and number of deliveries |
| | `ImportInvariant`, `ImportsLandWhole`, `LeftoversAreOwed`, `EndsStay` | imports land whole or not at all, leave nothing unowed, and stay ended, for any sessions and chunks |
| | `PlatformInvariant` | the inductive invariant of whichever part a behaviour of `MCPlatform` explores |

The assumptions are the named `ASSUME`s of the modules (positive durations,
finite sets of schedulers and checkers, a stale limit not below the deadline,
timeouts that lead to states). They are what the source's constants satisfy, and
TLC evaluates them in every run.

**Job queue.** None of the safety invariants is inductive alone. `QueueInv` joins the
types and `WorkerInv` (a goroutine in a body holds a job and an attempt, a
sweep's `now` is not in the future) with: `FenceInv`, the attempts column counts
the starts and no two claims of one row carry the same number, which is why the
fenced UPDATE of a stale worker misses; `BudgetInv`, a pending row has a start
left, which gives `StartsBounded`; `OpenInv`, a start is open exactly while its
row runs or was requeued safely, which gives `FailsClosed`. `GroupExclusive` and
`ActiveKeyUnique` are preserved because `Claim` and `KeyFree` look at all rows
in one statement.

Two more parts serve the step properties. `SlotInv`: `run_at` is still the slot
the row was queued or retried with, so `ChainsInOrder` can argue in the terms of
the claim: a due row of the project before the claimed one either runs or backs
off, and then a gate is shut, or passes both gates itself, because the gates of a
predecessor are among those of its successor, and then it would head the order.
`SweepInv`: the statements a sweep has behind it left no orphan of theirs, which
lasts because claims and heartbeats grant leases from the clock and the sweep's
`now` lies behind it (`OrphansOnlyGo`); hence what the last statement fails is
unsafe or out of attempts. `SettledByClaimants` is the fence again: who passes it
carries the number of the latest start.

`LiveBodies` is about `TimelySpec`, `Spec` with a clock that never passes a lease
whose heartbeat is alive (`HeartbeatsTimely`); without that assumption the code
makes no such promise, and `SettledByClaimants` is what is left. Its invariant
adds `LeaseHeld` to the property: the lease of an executed row is not behind the
clock, so no sweep takes it.

`PromiseKept` maps the statuses and the difference of allowance and starts to the
two variables of `JobPromise` (`stateBar`, `leftBar`) and goes through the
actions: `Enqueue` submits, `Claim` begins, a settlement finishes or interrupts,
the sweep's four statements interrupt sets of jobs, and everything else stutters.
That who is interrupted has a start left is `BudgetInv` after the step.

`QueueNeverWedged` is the safety half of `EverySettles`: of the rows that wait,
all due, none backing off and none beside a running one, the first in
`(run_at, id)` order can be claimed. It holds in every state with `OpenInv`; that
there is a first one is `LeastNatural`, from the library's well-foundedness of
the natural numbers.

**Cron.** `DuplicateInv` counts the schedulers between lookup and INSERT as rows
to come: once a minute has a row, rows plus inserting schedulers never exceed
the schedulers there are, since `Find` sends nobody to `Insert` any more.
`InvCorrect` and what follows from it assume that the `find` SELECT is not
refused (`"find" \notin Refused`), because the code reads a refused SELECT as
"no such row"; `AloneFiresOnce` also assumes a single scheduler. `RecordedFiresHold`
rests on `FireInv` (the persisted fire is the latest recorded, and a tick found
due lies a whole interval after every recorded fire). It assumes that the
re-read before the decision is not refused, which would leave the scheduler with
its memory of an earlier state, and a single scheduler, since another one may
record a fire between the decision and the enqueue: the run has the same bounds.

**Commands.** `CommandInv` ties receipt, approval and the number of applications
together (`ReceiptInv`), orders the attempts so that only the last can be
running (`RowsInv`), says what each request's phase implies about its attempt
and the lock (`CallerInv`), and contains the properties `RecordsTrue` and
`AnswersTrue`. `ExpiryFinal` rests on a second invariant that relates the last
answer to the deadlines of the claims in flight; the property itself speaks of
clocks that only advance (`back = 0`), since an operation whose expiry the
clock takes back is open again.

**Records.** `TokenInv`: a token is never ahead of the version, and while it is
current its client saw the current content; it needs that every write advances
the version, whatever the clock says (`VersionAdvances`). `MoveInv`: a validated
transition was declared for the state it was validated in. `HooksOncePerMove` is
inductive with the types, by counting the checkers that still owe their hooks.
`LocksNotStolen` needs the types only: the statements that change the lock carry
their own conditions.

**Rows.** `OrphanHasCause` is kept up by saying of every request which children
its cascade still owes (`Pending`); `RequestShape` says which local variables
hold anything in which phase, and that the effects owed are of rows deleted.
`OneAuditPerDeletion` counts: deletions equal audit rows, and effects fired, lost
and owed, the last a cardinality over the requests, which is why the requests are
assumed finite. `KeyShape` ties what was shown today to the stored record.
`LocksRespected` follows from `LockShape`: a lock in the way of a request past its
look was taken, or its row revived, since that look.

**Breaker.** `BreakerInv` adds how state and instants agree: open means the last
failure is not older than the last probe, half-open that the probe came a whole
cooldown after the last failure. With `ProbeEvery <= Cooldown` every new probe is
then far enough from those under way, whatever late answers closed or reopened
in between.

**Authority.** Two arguments. The binding in the owner file is the owner's last
word whenever it is there (`BindingStands`): every step that withdraws the word
also clears the binding, which is what `OwnerOff` has to do for a suspended file.
And tokens are never reused (`TokensSpent`), so an operation whose write epoch is
current has seen no change since it was prepared (`StaleForGood`).

**Grants.** `ClaimsHold`: two requests never hold the claim of one row, so the
chain page, approval, code, exchange, grant is injective. `RefreshesHold` bounds
the tokens presented by those issued; together with the conditional UPDATE the
last token is the only unspent one. `EndedHold` says that what was ended
unclaimed is claimed by nobody after.

**Import.** `ImportInv` adds to the two properties that the session a commit or
load works on is `running` and stays so under it (`OwnerRuns`), because a cancel
and a sweep name the statuses they may change and the flag keeps the sweep out;
and that whatever is under way names its session (`Addressed`). `LoadedWhole`
follows from the rows and the status changing in one transaction, behind the
checksum of what was read; `LeftoversAreOwed` from every end having its purge
ahead of it, and every late upload its recheck.

**Composition.** The areas of `MCPlatform` share no variable, so its invariant is
preserved because the step of each part preserves that part's.

**Model-checked only.** `EverySettles`: the prover has no rule for fairness and
ENABLED, so a theorem about it stops at `QueueNeverWedged`. The three violations
are counterexamples, which need no proof. Every other property of the runs has
its theorem. No module uses RECURSIVE operators.

## 5. What the checks found

1. **A minute can run twice** (`cron_reload`, `src/jobs.go:329`). The any-status
   lookup and the INSERT are two statements, and the index between them knows
   active rows only. If the first row completes before the second INSERT, the
   minute is queued again, against `src/jobs.go:301-308`. The theorem
   `BoundedDuplicates` says how bad it can get.
2. **A release can delete someone else's lock** (`lock_release`,
   `src/locks.go:256`). The owner is checked in one statement and the DELETE
   names the record only, against `src/locks.go:209`.
3. **A timeout can fire on a state just entered** (`timeout_due`,
   `src/workflows.go:559`). The age is checked in the SELECT only; the UPDATE's
   state guard is passed by a row that left the state and came back.

Each run gives the trace.

Met on the way, without a run of its own: the comment at
`src/circuitbreaker.go:71` says that a half-open circuit lets one request
through; the code lets another through 5 seconds later, when the first may still
be under way. What it keeps to is `ProbesSpaced`, which is proved.

## 6. Plan

Done, in this order: the queue and its promise, cron, approved commands, record
editing, with their proofs; then the life of rows with idempotent creates, the
circuit breaker, the owner's authority and the grants of the MCP connector, and
bulk import, with theirs; then the step properties and the refinement. What an extension would take next:

1. Abstract specifications of `ApprovedCommand` (an operation, applied once or
   not, and what is known of it) and of `BulkImport`, with their refinements, as
   `JobPromise` is for the queue.
2. A composition of `CronScheduler` with `JobQueue`, which today share the
   keyed enqueue by description only.
3. Asynchronous fetches (`fetch_async.go`), the shared rate limiter of cluster
   mode, the merge of parallel flow branches, version intervals and rollback.

## 7. Not modelled

Contents of jobs, records, commands, hooks and imported files; parsing,
validation, rendering, HTTP, encryption. A failure inside any of these appears as
an outcome (`error`, `Fail`, `CascadeFails`, `LoadFails`, a refused statement).
This is most of the repository by lines: sequential transformations of text and
declarations, for which a state machine would restate the code. SQLite's own
locking and durability are assumed, and so are the file lock of the connector
policy (free or held) and the atomicity of a rename.

* Hard deletes, batch create and update, upserts and reads of the CRUD handlers;
  the effects of hooks on other rows.
* Encryption key rotation: the journal, its backend and the re-encryption of rows
  are called by tests only at this commit, so the order in which a rotation would
  use them is not in the source.
* In bulk import: cluster mode, which never sweeps; chunks of different sizes;
  errors while removing files. In grants: client registration, PKCE, hashing. In
  the authority: what the ledger's triggers record.
* Login lockout: check, verification and record of an attempt happen under one
  lock per account, so a model would only restate mutual exclusion.
* Realtime, mail and messages promise nothing beyond best effort.

The components listed as `not_modelled` in `PROJECT.json` say why, each for
itself, and the notes of the partly modelled ones what they leave out.
