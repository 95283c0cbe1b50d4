--------------------------- MODULE ApprovedCommand ---------------------------
(***************************************************************************)
(* One approved write command of the MCP connector, from _prepare to its   *)
(* receipt (src/app_mcp_command_exposure.go, with its tables in            *)
(* src/app_mcp_operation_attempts.go). A commit runs in three transactions *)
(* of their own: claim an attempt, apply the business change under it, and *)
(* record how the attempt ended. Callers crash between any two of them,    *)
(* COMMIT may fail without saying whether it happened, and a claim that    *)
(* has outlived its deadline is superseded by the next.                    *)
(*                                                                         *)
(* Every transaction runs under the application's write-policy lock and    *)
(* SQLite's write lock (appMCPWithCommandOutcome). One that does not read  *)
(* the clock twice is one step; the business transaction is several, with  *)
(* the lock held between them.                                             *)
(***************************************************************************)
EXTENDS Naturals

CONSTANTS
    Callers,     \* requests in flight that call _commit on the operation
    Nobody,      \* the lock is free
    Limit,       \* appMCPOperationAttemptLimit
    Timeout,     \* appMCPCommandTimeout
    StaleAfter,  \* appMCPAttemptStaleAfter
    Lifetime,    \* the 15 minutes an operation lives
    SweepGrace,  \* appMCPOperationSweepGrace
    Horizon,     \* bound: the clock stops here
    MaxBack      \* bound: how often the clock is stepped back

ASSUME CommandAssumption ==
    /\ Nobody \notin Callers
    /\ Limit \in Nat \ {0} /\ Timeout \in Nat \ {0} /\ Lifetime \in Nat \ {0}
    /\ StaleAfter \in Nat /\ StaleAfter >= Timeout
    /\ SweepGrace \in Nat /\ Horizon \in Nat /\ MaxBack \in Nat

VARIABLES
    clock,
    back,       \* steps back the clock has made
    operation,  \* the row of _benmore_mcp_operations ...
    expires,    \*   its ExpiresAt
    receipt,    \*   the attempt its receipt names, 0 without one
    approval,   \* the row of _benmore_mcp_command_approvals ...
    consumer,   \*   the attempt that consumed it
    count,      \* the rows of _benmore_mcp_command_attempts: how many,
    state,      \*   the state of each, in insertion order,
    started,    \*   and its StartedAt
    authority,  \* what the commit rests on and is still in force
    applied,    \* how often the business change is in the database
    lock,       \* who holds the write-policy lock across steps
    caller,     \* what each request is doing
    answers,    \* history, read by properties only: what attempt a's caller was told,
    told        \*   and the last answer of _status

attempts == <<count, state, started>>
rows     == <<operation, expires, receipt, approval, consumer, attempts>>
history  == <<answers, told>>
vars     == <<clock, back, rows, authority, applied, lock, caller, history>>

-----------------------------------------------------------------------------
AttemptStates == {"running", "succeeded", "failed", "conflict", "unknown"}
Outcomes      == AttemptStates \ {"running"}
Phases        == {"idle", "claimed", "applying", "committing", "record"}
Tries         == 1 .. Limit

\* The connector's grant, the owner and write epochs the operation was prepared
\* under, and what its approval is based on: the session that reviewed it, or
\* the consent given with the grant.
Authorities == {"grant", "epochs", "basis"}

TypeOK ==
    /\ clock \in Nat /\ back \in Nat
    /\ operation \in {"none", "open", "swept"}
    /\ expires \in Nat
    /\ receipt \in {0} \cup Tries
    /\ approval \in {"none", "approved", "consumed"}
    /\ consumer \in {0} \cup Tries
    /\ count \in 0 .. Limit
    /\ state \in [Tries -> AttemptStates]
    /\ started \in [Tries -> Nat]
    /\ authority \subseteq Authorities
    /\ applied \in Nat
    /\ lock \in Callers \cup {Nobody}
    /\ caller \in [Callers -> [phase : Phases, attempt : {0} \cup Tries,
                               outcome : Outcomes]]
    /\ answers \in [Tries -> {"none", "applied", "failed", "unknown"}]
    /\ told \in {"none", "pending", "committed", "expired"}

Request(phase, a, outcome) == [phase |-> phase, attempt |-> a, outcome |-> outcome]
Idle == Request("idle", 0, "failed")

Init ==
    /\ clock = 1 /\ back = 0
    /\ operation = "none" /\ expires = 0 /\ receipt = 0
    /\ approval = "none" /\ consumer = 0
    /\ count = 0
    /\ state = [a \in Tries |-> "failed"]
    /\ started = [a \in Tries |-> 0]
    /\ authority = {"grant", "epochs"}
    /\ applied = 0
    /\ lock = Nobody
    /\ caller = [p \in Callers |-> Idle]
    /\ answers = [a \in Tries |-> "none"]
    /\ told = "none"

-----------------------------------------------------------------------------
Earliest(a, b) == IF a < b THEN a ELSE b
Later(a, b)    == IF a > b THEN a ELSE b

Rows == 1 .. count

\* appMCPLatestAttempt: the greatest StartedAt, a tie going to the later row.
IsLatest(a) ==
    /\ a \in Rows
    /\ \A b \in Rows : \/ started[b] < started[a]
                       \/ started[b] = started[a] /\ b <= a

\* appMCPAttemptStale.
Stale(a) == state[a] = "running" /\ clock >= started[a] + StaleAfter

\* appMCPOperationExpired.
Expired == clock >= expires \/ "epochs" \notin authority

\* appMCPCommitChecks, for an operation that has no receipt yet.
CommitChecks ==
    /\ operation = "open" /\ receipt = 0
    /\ ~Expired
    /\ approval = "approved"
    /\ authority = Authorities

-----------------------------------------------------------------------------
\* _prepare. A live grant consent approves in the same transaction.
Prepare ==
    /\ lock = Nobody
    /\ operation = "none"
    /\ authority = {"grant", "epochs"}
    /\ operation' = "open"
    /\ expires' = clock + Lifetime
    /\ \/ UNCHANGED <<approval, authority>>
       \/ approval' = "approved" /\ authority' = Authorities
    /\ UNCHANGED <<clock, back, receipt, consumer, attempts, applied, lock,
                   caller, history>>

\* The browser review approves a prepared operation once.
Approve ==
    /\ lock = Nobody
    /\ operation = "open" /\ receipt = 0 /\ approval = "none"
    /\ ~Expired
    /\ approval' = "approved"
    /\ authority' = authority \cup {"basis"}
    /\ UNCHANGED <<clock, back, operation, expires, receipt, consumer, attempts,
                   applied, lock, caller, history>>

\* The approving session is signed out or its consent withdrawn, the grant is
\* revoked, or the owner turns writes off and on again, which renews the epochs.
Revoke ==
    /\ lock = Nobody
    /\ \E lost \in authority : authority' = authority \ {lost}
    /\ UNCHANGED <<clock, back, rows, applied, lock, caller, history>>

\* A later _prepare deletes the operation, its approval and its attempts.
Sweep ==
    /\ lock = Nobody
    /\ operation = "open" /\ receipt = 0
    /\ clock >= expires + SweepGrace
    /\ operation' = "swept"
    /\ approval' = "none" /\ count' = 0
    /\ UNCHANGED <<clock, back, expires, receipt, consumer, state, started,
                   authority, applied, lock, caller, history>>

-----------------------------------------------------------------------------
\* Only after a failed, conflicted or stale attempt may another be claimed.
Retryable(a) == state[a] \in {"failed", "conflict"} \/ Stale(a)

\* The table before the new row: a stale claim is marked unknown. Variant: it is
\* left running (AnswersTrue).
LeftRunning(a) == state

Superseded(a) == IF Stale(a) THEN [state EXCEPT ![a] = "unknown"] ELSE state

\* A clock that stepped back must not sort a claim before the one it follows.
\* Variant: it does (OneRunning).
StartedNow(a) == clock

StartedAfter(a) == Later(clock, started[a] + 1)

\* The new row's predecessor, if any, decides its StartedAt.
Inserts(table, at) ==
    /\ count' = count + 1
    /\ state' = [table EXCEPT ![count + 1] = "running"]
    /\ started' = [started EXCEPT ![count + 1] = at]

\* appMCPClaimAttempt. If its COMMIT succeeds without saying so the caller goes
\* away, and the attempt stays behind.
Claim(p) ==
    /\ lock = Nobody
    /\ caller[p].phase = "idle"
    /\ CommitChecks
    /\ count < Limit
    /\ \/ count = 0 /\ Inserts(state, clock)
       \/ \E a \in Rows : /\ IsLatest(a) /\ Retryable(a)
                          /\ Inserts(Superseded(a), StartedAfter(a))
    /\ \/ caller' = [caller EXCEPT ![p] = Request("claimed", count + 1, "failed")]
       \/ UNCHANGED caller
    /\ UNCHANGED <<clock, back, operation, expires, receipt, approval, consumer,
                   authority, applied, lock, history>>

\* Everything is verified again under the lock: the claim is still the latest
\* and fresh. Variant: only that the claim is still there (RevokedNeverApplied,
\* ExpiredIsFinal).
VerifiedAtClaim(a) == IsLatest(a) /\ state[a] = "running"

Verified(a) ==
    /\ CommitChecks
    /\ IsLatest(a) /\ state[a] = "running" /\ ~Stale(a)

\* The commit barrier: the claim's own deadline, but not beyond the expiry.
ValidUntil(a) == Earliest(started[a] + Timeout, expires)

Moves(p, phase) == caller' = [caller EXCEPT ![p].phase = phase]

\* The business transaction begins ...
Begin(p) ==
    LET a == caller[p].attempt IN
    /\ lock = Nobody /\ lock' = p
    /\ caller[p].phase = "claimed"
    /\ Verified(a) /\ clock < ValidUntil(a)
    /\ Moves(p, "applying")
    /\ UNCHANGED <<clock, back, rows, authority, applied, history>>

\* ... passes the barrier ...
PassBarrier(p) ==
    /\ caller[p].phase = "applying"
    /\ clock < ValidUntil(caller[p].attempt)
    /\ Moves(p, "committing")
    /\ UNCHANGED <<clock, back, rows, authority, applied, lock, history>>

\* ... or fails before COMMIT: a refusal, no lock in time, a conflict of the
\* applied rows, the barrier. Everything is rolled back.
Fail(p) ==
    /\ \/ caller[p].phase = "claimed" /\ UNCHANGED lock
       \/ caller[p].phase \in {"applying", "committing"} /\ lock' = Nobody
    /\ \E outcome \in {"failed", "conflict"} :
         /\ outcome = "conflict" => caller[p].phase = "applying"
         /\ caller' = [caller EXCEPT ![p] = Request("record", @.attempt, outcome)]
    /\ UNCHANGED <<clock, back, rows, authority, applied, history>>

\* The approval is consumed and the receipt attached in the business
\* transaction itself. Variant: they follow it later (AppliedOnce).
SealedLater(a) == UNCHANGED <<receipt, approval, consumer>>

Sealed(a) == receipt' = a /\ approval' = "consumed" /\ consumer' = a

Commit(p) ==
    /\ caller[p].phase = "committing"
    /\ applied' = applied + 1
    /\ Sealed(caller[p].attempt)
    /\ lock' = Nobody
    /\ \E outcome \in {"succeeded", "unknown"} :
         caller' = [caller EXCEPT ![p] = Request("record", @.attempt, outcome)]
    /\ UNCHANGED <<clock, back, operation, expires, attempts, authority, history>>

\* COMMIT fails, nobody knows how, and nothing was committed.
CommitLost(p) ==
    /\ caller[p].phase = "committing"
    /\ lock' = Nobody
    /\ caller' = [caller EXCEPT ![p] = Request("record", @.attempt, "unknown")]
    /\ UNCHANGED <<clock, back, rows, authority, applied, history>>

-----------------------------------------------------------------------------
\* appMCPFinishAttempt: an unknown outcome is reconciled with the receipt.
\* Variant: it is recorded as it is (RecordsTrue).
ReportedOutcome(p) == caller[p].outcome

ReconciledOutcome(p) ==
    IF caller[p].outcome = "unknown" /\ receipt # 0 THEN "succeeded"
    ELSE caller[p].outcome

\* An attempt that is already terminal keeps its state.
Finishes(p) ==
    LET a == caller[p].attempt IN
    IF a \in Rows /\ state[a] = "running"
    THEN state' = [state EXCEPT ![a] = ReconciledOutcome(p)]
    ELSE UNCHANGED state

\* appMCPSettleCommit: only an unknown outcome asks what was recorded.
Answer(outcome, recorded) ==
    CASE outcome = "succeeded" -> "applied"
      [] outcome = "unknown"   -> IF recorded = "succeeded" THEN "applied"
                                  ELSE "unknown"
      [] OTHER                 -> "failed"

Replies(p, recorded) ==
    /\ answers' = [answers EXCEPT ![caller[p].attempt] =
                       Answer(caller[p].outcome, recorded)]
    /\ caller' = [caller EXCEPT ![p] = Idle]

Record(p) ==
    /\ lock = Nobody
    /\ caller[p].phase = "record"
    /\ caller[p].attempt \in Rows
    /\ Finishes(p)
    /\ Replies(p, state'[caller[p].attempt])
    /\ UNCHANGED <<clock, back, operation, expires, receipt, approval, consumer,
                   count, started, authority, applied, lock, told>>

\* All tries fail, the last perhaps after its COMMIT.
RecordLost(p) ==
    /\ caller[p].phase = "record"
    /\ \/ lock = Nobody /\ Finishes(p)
       \/ UNCHANGED state
    /\ Replies(p, "")
    /\ UNCHANGED <<clock, back, operation, expires, receipt, approval, consumer,
                   count, started, authority, applied, lock, told>>

\* The caller's process dies and leaves its locks.
Crash(p) ==
    /\ caller[p].phase # "idle"
    /\ caller' = [caller EXCEPT ![p] = Idle]
    /\ lock' = IF lock = p THEN Nobody ELSE lock
    /\ UNCHANGED <<clock, back, rows, authority, applied, history>>

\* _status: the receipt wins, then the expiry.
Status ==
    /\ lock = Nobody
    /\ operation = "open" /\ "grant" \in authority
    /\ told' = IF receipt # 0 THEN "committed"
               ELSE IF Expired THEN "expired"
               ELSE "pending"
    /\ UNCHANGED <<clock, back, rows, authority, applied, lock, caller, answers>>

Tick ==
    /\ clock < Horizon
    /\ clock' = clock + 1
    /\ UNCHANGED <<back, rows, authority, applied, lock, caller, history>>

\* The wall clock is corrected.
StepBack ==
    /\ back < MaxBack
    /\ back' = back + 1
    /\ clock' \in 1 .. (clock - 1)
    /\ UNCHANGED <<rows, authority, applied, lock, caller, history>>

CallerStep(p) ==
    \/ Claim(p) \/ Begin(p) \/ PassBarrier(p) \/ Fail(p) \/ Commit(p)
    \/ CommitLost(p) \/ Record(p) \/ RecordLost(p) \/ Crash(p)

Next ==
    \/ Prepare \/ Approve \/ Revoke \/ Sweep \/ Status
    \/ \E p \in Callers : CallerStep(p)
    \/ Tick \/ StepBack

Spec == Init /\ [][Next]_vars

-----------------------------------------------------------------------------
(***************************************************************************)
(* Properties.                                                             *)
(***************************************************************************)

\* However callers crash, retry and overtake each other, and whatever COMMIT
\* answers, the business change is made at most once.
AppliedOnce == applied <= 1

\* An operation never has two attempts on record as running, even when the clock
\* is stepped back between two claims.
OneRunning ==
    \A a, b \in Rows : state[a] = "running" /\ state[b] = "running" => a = b

\* What the attempts table says is true: the attempt the receipt names is never
\* on record as failed, conflicted or unknown, and none else as succeeded.
RecordsTrue ==
    \A a \in Rows :
        /\ state[a] \in {"failed", "conflict", "unknown"} => receipt # a
        /\ state[a] = "succeeded" => receipt = a

\* What callers are told is true and stays true: "applied" names the receipt's
\* own attempt, and after an error that is not "unknown" it never is.
AnswersTrue ==
    \A a \in Tries :
        /\ answers[a] = "applied" => receipt = a
        /\ answers[a] = "failed" => receipt # a

\* A grant, approving session or epoch withdrawn between a claim and its business
\* transaction stops it: nothing is applied after a revocation.
RevokedNeverApplied == [][applied' > applied => authority = Authorities]_vars

\* "expired, not_committed" is final: once _status has said so, no attempt that
\* was claimed in time commits any more, as long as the clock only advances.
ExpiredIsFinal == back = 0 /\ told = "expired" => receipt = 0

-----------------------------------------------------------------------------
(***************************************************************************)
(* The inductive invariant behind them.                                    *)
(***************************************************************************)

\* The receipt, the consumed approval and the business change are there
\* together or not at all, and name the same attempt.
ReceiptInv ==
    /\ receipt # 0 <=> applied = 1
    /\ AppliedOnce
    /\ receipt # 0 <=> approval = "consumed"
    /\ consumer = receipt
    /\ receipt # 0 => operation = "open" /\ receipt = count
    /\ operation = "none" => count = 0

\* Rows are sorted by StartedAt, and only the last may be running.
RowsInv ==
    /\ \A a, b \in Rows : a < b => started[a] < started[b]
    /\ \A a \in Rows : state[a] = "running" => a = count

\* A request works on an attempt of its own that nobody has answered for, and
\* whoever is between Begin and COMMIT holds the lock and still has everything
\* that was verified except time.
RequestInv(p) ==
    LET a == caller[p].attempt IN
    /\ caller[p].phase # "idle" =>
         /\ operation # "none" /\ a \in Tries /\ answers[a] = "none"
         /\ operation = "open" => a \in Rows
    /\ caller[p].phase = "claimed" => receipt # a
    /\ caller[p].phase \in {"applying", "committing"} <=> lock = p
    /\ caller[p].phase \in {"applying", "committing"} =>
         /\ operation = "open" /\ receipt = 0 /\ approval = "approved"
         /\ authority = Authorities /\ state[a] = "running"
    /\ caller[p].phase = "record" =>
         /\ caller[p].outcome = "succeeded" => receipt = a
         /\ caller[p].outcome \in {"failed", "conflict"} => receipt # a

CallersApart ==
    \A p, q \in Callers :
        p # q /\ caller[p].phase # "idle" /\ caller[q].phase # "idle"
          => caller[p].attempt # caller[q].attempt

CallerInv == CallersApart /\ \A p \in Callers : RequestInv(p)

\* No answer runs ahead of the table.
AnswerInv ==
    \A a \in Tries : answers[a] # "none" =>
        operation # "none" /\ (operation = "open" => a \in Rows)

\* Everything the tables, the requests and the answers have in common.
CommandInv == TypeOK /\ ReceiptInv /\ RowsInv /\ RecordsTrue /\ AnswersTrue
             /\ CallerInv /\ AnswerInv
=============================================================================
