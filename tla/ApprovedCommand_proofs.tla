----------------------- MODULE ApprovedCommand_proofs -----------------------
(***************************************************************************)
(* Proofs about ApprovedCommand for any number of requests, any limit on   *)
(* attempts and any deadlines, with a clock that runs as long as it likes  *)
(* and steps back as often as it likes.                                    *)
(***************************************************************************)
EXTENDS ApprovedCommand, TLAPS

\* Attempts are numbered from 1, and the rows are the first of them.
LEMMA TriesType ==
    /\ Tries \subseteq Nat /\ 0 \notin Tries
    /\ TypeOK => Rows \subseteq Tries
BY CommandAssumption DEF Tries, TypeOK, Rows

\* The latest attempt by StartedAt is the one inserted last.
LEMMA LatestIsLast ==
    ASSUME TypeOK, RowsInv, NEW a, IsLatest(a)
    PROVE  a = count /\ a \in 1 .. count
<1>1. a \in 1 .. count /\ count \in Nat /\ count \in 1 .. count
  BY CommandAssumption DEF TypeOK, IsLatest, Rows
<1>2. started[a] \in Nat /\ started[count] \in Nat
  BY <1>1, CommandAssumption DEF TypeOK, Tries
<1>3. ~ a < count
  BY <1>1, <1>2 DEF RowsInv, IsLatest, Rows
<1> QED BY <1>1, <1>3

\* Begin and the barrier change the phase of one request and nothing else of it.
LEMMA MovesOnly ==
    ASSUME TypeOK, NEW p \in Callers, NEW phase \in Phases, Moves(p, phase)
    PROVE  /\ caller' \in [Callers -> [phase : Phases,
                              attempt : {0} \cup Tries, outcome : Outcomes]]
           /\ caller'[p].phase = phase
           /\ caller'[p].attempt = caller[p].attempt
           /\ caller'[p].outcome = caller[p].outcome
           /\ \A q \in Callers \ {p} : caller'[q] = caller[q]
BY DEF TypeOK, Moves

\* What a request is told is an answer.
LEMMA AnswerType ==
    ASSUME NEW outcome, NEW recorded
    PROVE  Answer(outcome, recorded) \in {"applied", "failed", "unknown"}
BY DEF Answer

\* The empty tables satisfy the invariant.
LEMMA InvInit == Init => CommandInv
BY CommandAssumption
   DEF Init, CommandInv, TypeOK, ReceiptInv, AppliedOnce, RowsInv, RecordsTrue,
       AnswersTrue, CallerInv, CallersApart, RequestInv, AnswerInv, Rows, Tries, Idle, Request, Phases,
       Outcomes, AttemptStates, Authorities

-----------------------------------------------------------------------------
\* A claim adds a row behind all others, and marks the only one that may still
\* have been running.
LEMMA ClaimStep ==
    ASSUME CommandInv, NEW p \in Callers, Claim(p) PROVE CommandInv'
<1> USE CommandAssumption DEF CommandInv, TypeOK, Tries, attempts, rows, history
<1>1. count \in 0 .. Limit /\ count < Limit /\ count' = count + 1 /\ count + 1 \in Tries
  BY DEF Claim, Inserts
<1>2. PICK at \in Nat :
        /\ started' = [started EXCEPT ![count + 1] = at]
        /\ \A a \in Rows : started[a] < at
  <2>1. ASSUME count = 0, Inserts(state, clock)
        PROVE  /\ clock \in Nat
               /\ started' = [started EXCEPT ![count + 1] = clock]
               /\ Rows = {}
    BY <2>1 DEF Inserts, Rows
  <2>2. ASSUME NEW a \in Rows, IsLatest(a), Inserts(Superseded(a), StartedAfter(a))
        PROVE  /\ StartedAfter(a) \in Nat
               /\ started' = [started EXCEPT ![count + 1] = StartedAfter(a)]
               /\ \A b \in Rows : started[b] < StartedAfter(a)
    <3>1. a = count
      BY <2>2, LatestIsLast
    <3>2. StartedAfter(a) \in Nat /\ started[a] < StartedAfter(a)
      BY <3>1, <1>1, <2>2 DEF StartedAfter, Later, Rows
    <3>3. \A b \in Rows : started[b] \in Nat /\ (started[b] < started[a] \/ b = a)
      BY <3>1, <1>1 DEF RowsInv, Rows
    <3>4. started[a] \in Nat
      BY <2>2, <3>3
    <3> QED BY <2>2, <3>2, <3>3, <3>4 DEF Inserts
  <2> QED BY <2>1, <2>2 DEF Claim
<1>3. PICK table :
        /\ state' = [table EXCEPT ![count + 1] = "running"]
        /\ table \in [Tries -> AttemptStates]
        /\ \A a \in Rows : /\ table[a] # "running"
                           /\ \/ table[a] = state[a]
                              \/ table[a] = "unknown"
  <2>1. ASSUME count = 0, Inserts(state, clock)
        PROVE  /\ state' = [state EXCEPT ![count + 1] = "running"]
               /\ Rows = {}
    BY <2>1 DEF Inserts, Rows
  <2>2. ASSUME NEW a \in Rows, IsLatest(a), Retryable(a),
               Inserts(Superseded(a), StartedAfter(a))
        PROVE  /\ state' = [Superseded(a) EXCEPT ![count + 1] = "running"]
               /\ Superseded(a) \in [Tries -> AttemptStates]
               /\ \A b \in Rows : /\ Superseded(a)[b] # "running"
                                  /\ \/ Superseded(a)[b] = state[b]
                                     \/ Superseded(a)[b] = "unknown"
    <3>1. a = count
      BY <2>2, LatestIsLast
    <3>2. Superseded(a) \in [Tries -> AttemptStates]
      BY <2>2, <1>1 DEF Superseded, AttemptStates, Rows
    <3>3. \A b \in Rows : state[b] = "running" => b = a
      BY <3>1 DEF RowsInv
    <3> QED BY <2>2, <3>2, <3>3, <1>1
            DEF Inserts, Superseded, Retryable, Rows, AttemptStates
  <2> QED BY <2>1, <2>2 DEF Claim
<1>4. /\ Rows' = Rows \cup {count + 1} /\ count + 1 \notin Rows
      /\ \A a \in Rows : a \in Tries /\ a # count + 1
  BY <1>1 DEF Rows
<1>5. /\ caller' \in [Callers -> [phase : Phases, attempt : {0} \cup Tries,
                                  outcome : Outcomes]]
      /\ \A q \in Callers : \/ caller'[q] = caller[q]
                            \/ /\ q = p
                               /\ caller'[q].phase = "claimed"
                               /\ caller'[q].attempt = count + 1
  <2>1. LET r == Request("claimed", count + 1, "failed") IN
        /\ r \in [phase : Phases, attempt : {0} \cup Tries, outcome : Outcomes]
        /\ r.phase = "claimed" /\ r.attempt = count + 1
    BY <1>1 DEF Request, Phases, Outcomes, AttemptStates
  <2>2. \/ caller' = [caller EXCEPT ![p] = Request("claimed", count + 1, "failed")]
        \/ caller' = caller
    BY DEF Claim
  <2>3. CASE caller' = caller
    BY <2>3
  <2>4. CASE caller' = [caller EXCEPT ![p] = Request("claimed", count + 1, "failed")]
    BY <2>1, <2>4
  <2> QED BY <2>2, <2>3, <2>4
<1>6. TypeOK'
  BY <1>1, <1>2, <1>3, <1>5 DEF Claim, AttemptStates
<1>7. receipt = 0 /\ receipt' = 0 /\ operation = "open" /\ operation' = "open"
  BY DEF Claim, CommitChecks
<1>8. ReceiptInv'
  BY <1>7 DEF Claim, ReceiptInv, AppliedOnce
<1>9. RowsInv' /\ RecordsTrue' /\ AnswersTrue'
  <2>1. RowsInv'
    BY <1>1, <1>2, <1>3, <1>4 DEF RowsInv, Rows
  <2>2. RecordsTrue'
    BY <1>1, <1>3, <1>4, <1>7 DEF RecordsTrue
  <2> QED BY <2>1, <2>2, <1>7 DEF AnswersTrue, Claim
<1>10. /\ answers[count + 1] = "none"
       /\ \A q \in Callers : caller[q].phase # "idle" => caller[q].attempt # count + 1
  BY <1>1, <1>4, <1>7 DEF AnswerInv, CallerInv, RequestInv
<1>11. CallerInv'
  <2>1. UNCHANGED <<operation, receipt, approval, authority, answers, lock>>
    BY DEF Claim
  <2>2. \A q \in Callers : caller[q].phase \notin {"applying", "committing"}
    BY DEF Claim, CallerInv, RequestInv
  <2>3. CallersApart'
    BY <1>5, <1>10 DEF CallerInv, CallersApart
  <2>4. ASSUME NEW q \in Callers, caller'[q] = caller[q] PROVE RequestInv(q)'
    BY <1>4, <1>7, <2>1, <2>2, <2>4 DEF CallerInv, RequestInv
  <2>5. ASSUME caller'[p].phase = "claimed", caller'[p].attempt = count + 1
        PROVE  RequestInv(p)'
    BY <1>1, <1>4, <1>7, <1>10, <2>1, <2>5 DEF Claim, RequestInv
  <2> QED BY <1>5, <2>3, <2>4, <2>5 DEF CallerInv
<1>12. AnswerInv'
  BY <1>1, <1>4, <1>7 DEF AnswerInv, Claim
<1> QED BY <1>6, <1>8, <1>9, <1>11, <1>12

\* The business transaction begins only with everything in force.
LEMMA BeginStep ==
    ASSUME CommandInv, NEW p \in Callers, Begin(p) PROVE CommandInv'
<1> USE CommandAssumption DEF CommandInv, TypeOK, Tries, attempts, rows, history
<1>1. Moves(p, "applying")
  BY DEF Begin
<1>2. /\ operation = "open" /\ receipt = 0 /\ approval = "approved"
      /\ authority = Authorities /\ state[caller[p].attempt] = "running"
      /\ lock = Nobody /\ lock' = p /\ caller[p].phase = "claimed"
  BY DEF Begin, Verified, CommitChecks
<1>3. "applying" \in Phases
  BY DEF Phases
<1>4. TypeOK'
  BY <1>1, <1>3, MovesOnly DEF Begin, rows, attempts, history
<1>5. caller[p].attempt \in Tries /\ answers[caller[p].attempt] = "none"
      /\ caller[p].attempt \in Rows
  BY <1>2 DEF CallerInv, RequestInv
<1>6. \A q \in Callers \ {p} : caller[q].phase \notin {"applying", "committing"}
  BY <1>2 DEF CallerInv, RequestInv
<1>7. /\ caller'[p].phase = "applying" /\ caller'[p].attempt = caller[p].attempt
      /\ \A q \in Callers \ {p} : caller'[q] = caller[q]
  BY <1>1, <1>3, MovesOnly
<1>8. /\ UNCHANGED <<operation, receipt, approval, state, authority, answers>>
      /\ Rows' = Rows
  BY DEF Begin, Rows
<1>9. CallerInv'
  <2>1. CallersApart'
    <3>1. \A q \in Callers : /\ caller'[q].attempt = caller[q].attempt
                             /\ caller'[q].phase # "idle" => caller[q].phase # "idle"
      BY <1>2, <1>7
    <3> QED BY <3>1 DEF CallerInv, CallersApart
  <2>2. ASSUME NEW q \in Callers \ {p} PROVE RequestInv(q)'
    BY <1>2, <1>6, <1>7, <1>8 DEF CallerInv, RequestInv
  <2>3. RequestInv(p)'
    BY <1>2, <1>5, <1>7, <1>8 DEF RequestInv
  <2> QED BY <2>1, <2>2, <2>3 DEF CallerInv
<1> QED BY <1>4, <1>9
        DEF Begin, rows, attempts, history, ReceiptInv, AppliedOnce, RowsInv,
            Rows, RecordsTrue, AnswersTrue, AnswerInv

\* The barrier looks at the clock only.
LEMMA BarrierStep ==
    ASSUME CommandInv, NEW p \in Callers, PassBarrier(p) PROVE CommandInv'
<1> USE CommandAssumption DEF CommandInv, TypeOK, Tries, attempts, rows, history
<1>1. Moves(p, "committing") /\ "committing" \in Phases
  BY DEF PassBarrier, Phases
<1>2. TypeOK'
  BY <1>1, MovesOnly DEF PassBarrier, rows, attempts, history
<1>3. /\ caller[p].phase = "applying" /\ caller'[p].phase = "committing"
      /\ caller'[p].attempt = caller[p].attempt
      /\ \A q \in Callers \ {p} : caller'[q] = caller[q]
  BY <1>1, MovesOnly DEF PassBarrier
<1>4. /\ UNCHANGED <<operation, receipt, approval, state, authority, answers, lock>>
      /\ Rows' = Rows
  BY DEF PassBarrier, Rows
<1>5. CallerInv'
  <2>1. CallersApart'
    <3>1. \A q \in Callers : /\ caller'[q].attempt = caller[q].attempt
                             /\ caller'[q].phase # "idle" => caller[q].phase # "idle"
      BY <1>3
    <3> QED BY <3>1 DEF CallerInv, CallersApart
  <2>2. ASSUME NEW q \in Callers PROVE RequestInv(q)'
    BY <1>3, <1>4 DEF CallerInv, RequestInv
  <2> QED BY <2>1, <2>2 DEF CallerInv
<1> QED BY <1>2, <1>5
        DEF PassBarrier, rows, attempts, history, ReceiptInv, AppliedOnce,
            RowsInv, Rows, RecordsTrue, AnswersTrue, AnswerInv

\* However the record step ends, the row keeps its truth and so does the answer.
LEMMA FinishStep ==
    ASSUME CommandInv, NEW p \in Callers, caller[p].phase = "record",
           Finishes(p) \/ UNCHANGED state,
           NEW recorded, recorded = state'[caller[p].attempt] \/ recorded = "",
           recorded # "" => caller[p].attempt \in Rows,
           Replies(p, recorded),
           UNCHANGED <<clock, back, operation, expires, receipt, approval,
                       consumer, count, started, authority, applied, lock, told>>
    PROVE  CommandInv'
<1> USE DEF CommandInv, TypeOK, attempts, rows, history
<1> DEFINE a == caller[p].attempt
<1>1. /\ a \in Tries /\ answers[a] = "none" /\ operation # "none"
      /\ operation = "open" => a \in Rows
      /\ caller[p].outcome \in Outcomes
      /\ caller[p].outcome = "succeeded" => receipt = a
      /\ caller[p].outcome \in {"failed", "conflict"} => receipt # a
  BY DEF CallerInv, RequestInv
<1>2. Rows' = Rows /\ \A b \in Rows : b \in Tries
  BY TriesType DEF Rows
<1>3. \/ state' = state
      \/ /\ a \in Rows /\ state[a] = "running"
         /\ state' = [state EXCEPT ![a] = ReconciledOutcome(p)]
  BY DEF Finishes
<1>4. ReconciledOutcome(p) \in Outcomes
  BY <1>1 DEF ReconciledOutcome, Outcomes, AttemptStates
<1>5. a \in Rows /\ state[a] = "running" =>
        (IF ReconciledOutcome(p) = "succeeded" THEN receipt = a ELSE receipt # a)
  <2>1. receipt # 0 => operation = "open" /\ receipt = count
    BY DEF ReceiptInv
  <2>2. a \in Rows /\ state[a] = "running" => a = count
    BY DEF RowsInv
  <2>3. a # 0
    BY <1>1, TriesType
  <2> QED BY <1>1, <2>1, <2>2, <2>3
          DEF ReconciledOutcome, Outcomes, AttemptStates
<1>6. /\ state' \in [Tries -> AttemptStates]
      /\ \A b \in Rows : state'[b] = "running" => state[b] = "running"
      /\ \A b \in Tries : b # a => state'[b] = state[b]
  <2>1. CASE state' = state
    BY <2>1
  <2>2. CASE state' = [state EXCEPT ![a] = ReconciledOutcome(p)]
    BY <2>2, <1>1, <1>2, <1>3, <1>4 DEF Outcomes
  <2> QED BY <2>1, <2>2, <1>3
<1>7. /\ caller' = [caller EXCEPT ![p] = Idle]
      /\ Idle \in [phase : Phases, attempt : {0} \cup Tries, outcome : Outcomes]
      /\ Idle.phase = "idle"
  BY DEF Replies, Idle, Request, Phases, Outcomes, AttemptStates
<1>8. /\ answers' = [answers EXCEPT ![a] = Answer(caller[p].outcome, recorded)]
      /\ Answer(caller[p].outcome, recorded) \in {"applied", "failed", "unknown"}
  BY AnswerType DEF Replies
<1>9. TypeOK'
  <2>1. caller' \in [Callers -> [phase : Phases, attempt : {0} \cup Tries,
                                 outcome : Outcomes]]
    BY <1>7
  <2>2. answers' \in [Tries -> {"none", "applied", "failed", "unknown"}]
    BY <1>8
  <2> QED BY <1>6, <2>1, <2>2
<1>10. ReceiptInv' /\ RowsInv'
  <2>1. ReceiptInv'
    BY DEF ReceiptInv, AppliedOnce
  <2>2. RowsInv'
    BY <1>2, <1>6 DEF RowsInv
  <2> QED BY <2>1, <2>2
<1>11. RecordsTrue'
  <2>1. CASE state' = state
    BY <1>2, <2>1 DEF RecordsTrue
  <2>2. CASE /\ a \in Rows /\ state[a] = "running"
             /\ state' = [state EXCEPT ![a] = ReconciledOutcome(p)]
    <3>1. \A b \in Rows : b # a => state'[b] = state[b]
      BY <1>2, <1>6
    <3>2. state'[a] = ReconciledOutcome(p) /\ receipt' = receipt
      BY <1>1, <2>2
    <3>3. /\ state'[a] \in {"failed", "conflict", "unknown"} => receipt' # a
          /\ state'[a] = "succeeded" => receipt' = a
      BY <1>5, <2>2, <3>2
    <3>4. ASSUME NEW b \in Rows, b # a
          PROVE  /\ state'[b] \in {"failed", "conflict", "unknown"} => receipt' # b
                 /\ state'[b] = "succeeded" => receipt' = b
      BY <3>1, <3>2, <3>4 DEF RecordsTrue
    <3> QED BY <1>2, <3>3, <3>4 DEF RecordsTrue
  <2> QED BY <1>3, <2>1, <2>2
<1>12. AnswersTrue'
  <2>1. Answer(caller[p].outcome, recorded) = "applied" => receipt = a
    BY <1>1, <1>11, <1>2 DEF Answer, RecordsTrue
  <2>2. Answer(caller[p].outcome, recorded) = "failed" => receipt # a
    BY <1>1 DEF Answer, Outcomes, AttemptStates
  <2> QED BY <1>1, <1>8, <2>1, <2>2 DEF AnswersTrue
<1>13. AnswerInv'
  BY <1>1, <1>2, <1>8 DEF AnswerInv
<1>14. CallerInv'
  <2>1. CallersApart'
    BY <1>7 DEF CallerInv, CallersApart
  <2>2. lock # p
    BY DEF CallerInv, RequestInv
  <2>3. RequestInv(p)'
    BY <1>7, <2>2 DEF RequestInv
  <2>4. ASSUME NEW q \in Callers \ {p} PROVE RequestInv(q)'
    <3>1. caller'[q] = caller[q]
      BY <1>7
    <3>2. caller[q].phase # "idle" =>
            /\ caller[q].attempt # a
            /\ answers'[caller[q].attempt] = answers[caller[q].attempt]
            /\ state'[caller[q].attempt] = state[caller[q].attempt]
      BY <1>6, <1>8 DEF CallerInv, CallersApart, RequestInv
    <3>3. CASE caller[q].phase = "idle"
      BY <3>1, <3>3, <2>2 DEF CallerInv, RequestInv
    <3>4. CASE caller[q].phase # "idle"
      BY <1>2, <3>1, <3>2, <3>4, ZenonT(60) DEF CallerInv, RequestInv
    <3> QED BY <3>3, <3>4
  <2> QED BY <2>1, <2>3, <2>4 DEF CallerInv
<1> QED BY <1>9, <1>10, <1>11, <1>12, <1>13, <1>14

-----------------------------------------------------------------------------
\* Every step keeps the invariant.
LEMMA InvStep == CommandInv /\ [Next]_vars => CommandInv'
<1> SUFFICES ASSUME CommandInv, [Next]_vars PROVE CommandInv'
  OBVIOUS
<1> USE CommandAssumption
    DEF CommandInv, TypeOK, ReceiptInv, AppliedOnce, RowsInv, RecordsTrue,
        AnswersTrue, CallerInv, CallersApart, RequestInv, AnswerInv, Rows,
        Tries, Idle, Request, Phases, Outcomes, AttemptStates, attempts, rows,
        history
<1>1. CASE Prepare
  BY <1>1 DEF Prepare, Authorities
<1>2. CASE Approve
  BY <1>2 DEF Approve, Authorities
<1>3. CASE Revoke
  BY <1>3 DEF Revoke
<1>4. CASE Sweep
  BY <1>4 DEF Sweep
<1>5. ASSUME NEW p \in Callers, Fail(p) PROVE CommandInv'
  BY <1>5 DEF Fail
<1>6. ASSUME NEW p \in Callers, Commit(p) PROVE CommandInv'
  BY <1>6 DEF Commit, Sealed
<1>7. ASSUME NEW p \in Callers, CommitLost(p) PROVE CommandInv'
  BY <1>7 DEF CommitLost
<1>8. ASSUME NEW p \in Callers, Record(p) PROVE CommandInv'
  BY <1>8, FinishStep DEF Record
<1>9. ASSUME NEW p \in Callers, RecordLost(p) PROVE CommandInv'
  BY <1>9, FinishStep DEF RecordLost
<1>10. ASSUME NEW p \in Callers, Crash(p) PROVE CommandInv'
  BY <1>10 DEF Crash
<1>11. CASE Status
  BY <1>11 DEF Status
<1>12. CASE Tick
  BY <1>12 DEF Tick
<1>13. CASE StepBack
  BY <1>13 DEF StepBack
<1>14. CASE UNCHANGED vars
  BY <1>14 DEF vars
<1> QED
  BY ClaimStep, BeginStep, BarrierStep, <1>1, <1>2, <1>3, <1>4, <1>5, <1>6,
     <1>7, <1>8, <1>9, <1>10, <1>11, <1>12, <1>13, <1>14 DEF Next, CallerStep

-----------------------------------------------------------------------------
\* The inductive invariant: the tables, the requests at work on them and the
\* answers they gave agree.
THEOREM InvCorrect == Spec => []CommandInv
<1> QED BY InvInit, InvStep, PTL DEF Spec

\* The business change is made at most once.
THEOREM AppliedAtMostOnce == Spec => []AppliedOnce
<1>1. CommandInv => AppliedOnce
  BY DEF CommandInv, ReceiptInv
<1> QED BY InvCorrect, <1>1, PTL

\* An operation never has two running attempts.
THEOREM OneRunningCorrect == Spec => []OneRunning
<1>1. CommandInv => OneRunning
  BY DEF CommandInv, RowsInv, OneRunning
<1> QED BY InvCorrect, <1>1, PTL

\* The attempts table and the answers given agree with the receipt.
THEOREM RecordsAndAnswersTrue == Spec => [](RecordsTrue /\ AnswersTrue)
<1>1. CommandInv => RecordsTrue /\ AnswersTrue
  BY DEF CommandInv
<1> QED BY InvCorrect, <1>1, PTL

\* An answer names the receipt's own attempt, and one other than "unknown" that
\* the change was not made stays true.
THEOREM AnswersStayTrue == Spec => []AnswersTrue
<1>1. CommandInv => AnswersTrue
  BY DEF CommandInv
<1> QED BY InvCorrect, <1>1, PTL

\* Nothing is applied on an authority that was withdrawn.
THEOREM RevocationHolds == Spec => RevokedNeverApplied
<1>1. CommandInv /\ [Next]_vars => [applied' > applied => authority = Authorities]_vars
  <2> SUFFICES ASSUME CommandInv, Next, applied' > applied PROVE authority = Authorities
    BY DEF vars
  <2>1. applied' # applied
    BY DEF CommandInv, TypeOK
  <2>2. PICK p \in Callers : Commit(p)
    BY <2>1 DEF Next, CallerStep, Prepare, Approve, Revoke, Sweep, Status, Tick,
       StepBack, Claim, Begin, PassBarrier, Fail, CommitLost, Record,
       RecordLost, Crash
  <2> QED BY <2>2 DEF Commit, CommandInv, CallerInv, RequestInv
<1> QED BY InvCorrect, <1>1, PTL DEF Spec, RevokedNeverApplied

-----------------------------------------------------------------------------
\* Once an operation was reported expired it is, and nobody is at work on it.
ExpiryInv ==
    back = 0 /\ told = "expired" =>
        /\ operation # "none" /\ receipt = 0
        /\ operation = "open" => Expired
        /\ lock = Nobody

\* As long as the clock only advances, "expired, not_committed" is the last word.
THEOREM ExpiryFinal == Spec => []ExpiredIsFinal
<1>1. Init => ExpiryInv
  BY DEF Init, ExpiryInv
<1>2. CommandInv /\ ExpiryInv /\ [Next]_vars => ExpiryInv'
  <2> SUFFICES ASSUME CommandInv, ExpiryInv, [Next]_vars PROVE ExpiryInv'
    OBVIOUS
  <2> USE DEF ExpiryInv, Expired, attempts, rows, history
  <2>1. clock \in Nat /\ expires \in Nat /\ back \in Nat
    BY DEF CommandInv, TypeOK
  <2>2. CASE Prepare
    BY <2>2 DEF Prepare
  <2>3. CASE Approve
    BY <2>3 DEF Approve, Authorities
  <2>4. CASE Revoke
    BY <2>4 DEF Revoke
  <2>5. CASE Sweep
    BY <2>5 DEF Sweep
  <2>6. ASSUME NEW p \in Callers, Claim(p) \/ Begin(p) PROVE ExpiryInv'
    <3>1. operation = "open" /\ ~Expired
      BY <2>6 DEF Claim, Begin, Verified, CommitChecks
    <3> QED BY <2>6, <3>1 DEF Claim, Begin
  <2>7. ASSUME NEW p \in Callers, PassBarrier(p) \/ Commit(p) \/ CommitLost(p)
        PROVE  ExpiryInv'
    <3>1. lock = p /\ p # Nobody
      BY <2>7, CommandAssumption
         DEF PassBarrier, Commit, CommitLost, CommandInv, CallerInv, RequestInv
    <3> QED BY <2>7, <3>1 DEF PassBarrier, Commit, CommitLost
  <2>8. ASSUME NEW p \in Callers, Fail(p) \/ Record(p) \/ RecordLost(p) \/ Crash(p)
        PROVE  ExpiryInv'
    BY <2>8 DEF Fail, Record, RecordLost, Crash
  <2>9. CASE Status
    BY <2>9 DEF Status
  <2>10. CASE Tick
    BY <2>1, <2>10 DEF Tick
  <2>11. CASE StepBack
    BY <2>1, <2>11 DEF StepBack
  <2>12. CASE UNCHANGED vars
    BY <2>12 DEF vars
  <2> QED BY <2>2, <2>3, <2>4, <2>5, <2>6, <2>7, <2>8, <2>9, <2>10, <2>11, <2>12
          DEF Next, CallerStep
<1>3. ExpiryInv => ExpiredIsFinal
  BY DEF ExpiryInv, ExpiredIsFinal
<1> QED BY InvCorrect, <1>1, <1>2, <1>3, PTL DEF Spec
=============================================================================
