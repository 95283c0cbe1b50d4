-------------------------- MODULE MCPlatform_proofs --------------------------
(***************************************************************************)
(* Proofs about CircuitBreaker, for any deliveries, threshold, cooldown,   *)
(* probe interval and timeout; about BulkImport, for any sessions, chunks  *)
(* and uploads; and about the composition of the components that share no  *)
(* state.                                                                  *)
(***************************************************************************)
EXTENDS MCPlatform, RowLifecycle_proofs, ConnectorAuthority_proofs, ConnectorGrants_proofs, TLAPS

-----------------------------------------------------------------------------
(* The breaker. *)

\* The initial states satisfy the invariant.
LEMMA BreakerInitially ==
    ASSUME BreakerInit PROVE BreakerInv
BY BreakerAssumption
   DEF BreakerInit, BreakerInv, BreakerTypeOK, ProbesSpaced, ProbesFollowQuiet, Probing

\* A delivery that is done leaves the others as they were.
LEMMA FinishesKeeps ==
    ASSUME BreakerTypeOK, NEW d \in Deliveries, Finishes(d)
    PROVE  /\ sending' \in [Deliveries -> {"none", "plain", "probe"}]
           /\ \A e \in Deliveries : Probing(e)' => Probing(e)
           /\ UNCHANGED <<started, failedBefore>>
BY DEF BreakerTypeOK, Finishes, Probing

\* A send touches the delivery's own variables.
LEMMA SendsKeeps ==
    ASSUME BreakerTypeOK, NEW d \in Deliveries, NEW how \in {"plain", "probe"}, Sends(d, how)
    PROVE  /\ sending' \in [Deliveries -> {"none", "plain", "probe"}]
           /\ started' \in [Deliveries -> Nat] /\ failedBefore' \in [Deliveries -> Nat]
           /\ sending'[d] = how /\ started'[d] = clock /\ failedBefore'[d] = lastFailure
           /\ \A e \in Deliveries \ {d} : /\ sending'[e] = sending[e]
                                          /\ started'[e] = started[e]
                                          /\ failedBefore'[e] = failedBefore[e]
BY DEF BreakerTypeOK, Sends

\* What the invariant says of the circuit, the clock and the probes.
LEMMA BreakerStep ==
    ASSUME BreakerInv, BreakerNext PROVE BreakerInv'
<1> USE BreakerAssumption
<1>1. ASSUME NEW d \in Deliveries, Admit(d) PROVE BreakerInv'
  <2>1. /\ Sends(d, "plain") /\ BreakerTypeOK
        /\ UNCHANGED <<circuit, failures, lastFailure, lastAttempt, clock>>
    BY <1>1 DEF Admit, BreakerInv
  <2>2. BreakerTypeOK'
    BY <2>1, SendsKeeps DEF BreakerTypeOK
  <2>3. \A e \in Deliveries : Probing(e)' => /\ Probing(e) /\ started'[e] = started[e]
                                             /\ failedBefore'[e] = failedBefore[e]
    BY <2>1, SendsKeeps DEF Probing
  <2> QED BY <2>1, <2>2, <2>3 DEF BreakerInv, ProbesSpaced, ProbesFollowQuiet
<1>2. ASSUME NEW d \in Deliveries, AdmitProbe(d) PROVE BreakerInv'
  <2>1. /\ Sends(d, "probe") /\ BreakerTypeOK /\ circuit' = "half-open" /\ lastAttempt' = clock
        /\ UNCHANGED <<failures, lastFailure, clock>>
    BY <1>2 DEF AdmitProbe, BreakerInv
  <2>2. BreakerTypeOK'
    BY <2>1, SendsKeeps DEF BreakerTypeOK
  <2>3. /\ clock > lastFailure + Cooldown
        /\ \A e \in Deliveries : Probing(e) => clock >= started[e] + ProbeEvery
    <3>1. /\ clock \in Nat /\ lastFailure \in Nat /\ lastAttempt \in Nat
          /\ \A e \in Deliveries : started[e] \in Nat
      BY DEF BreakerInv, BreakerTypeOK
    <3>2. \A e \in Deliveries : Probing(e) => started[e] <= lastAttempt
      BY DEF BreakerInv
    <3>3. CASE CooledDown
      <4>1. lastFailure >= lastAttempt /\ clock > lastFailure + Cooldown
        BY <3>1, <3>3 DEF CooledDown, BreakerInv
      <4> QED BY <3>1, <3>2, <4>1
    <3>4. CASE ProbeDue
      <4>1. lastAttempt > lastFailure + Cooldown /\ clock >= lastAttempt + ProbeEvery
        BY <3>1, <3>4 DEF ProbeDue, BreakerInv
      <4> QED BY <3>1, <3>2, <4>1
    <3> QED BY <1>2, <3>3, <3>4 DEF AdmitProbe
  <2>4. ProbesSpaced'
    BY <2>1, <2>3, SendsKeeps DEF BreakerInv, ProbesSpaced, Probing
  <2>5. ProbesFollowQuiet'
    BY <2>1, <2>3, SendsKeeps DEF BreakerInv, ProbesFollowQuiet, Probing
  <2>6. \A e \in Deliveries : Probing(e)' => started'[e] <= lastAttempt'
    <3>1. /\ clock \in Nat /\ lastAttempt \in Nat /\ lastAttempt <= clock
          /\ \A e \in Deliveries : started[e] \in Nat /\ (Probing(e) => started[e] <= lastAttempt)
      BY DEF BreakerInv, BreakerTypeOK
    <3> QED BY <2>1, <3>1, SendsKeeps DEF Probing
  <2>7. failures >= Threshold
    BY <1>2 DEF AdmitProbe, CooledDown, ProbeDue, BreakerInv, BreakerTypeOK
  <2>8. lastFailure' <= clock' /\ lastAttempt' <= clock' /\ lastAttempt' > lastFailure' + Cooldown
    BY <2>1, <2>3 DEF BreakerInv, BreakerTypeOK
  <2>9. circuit' = "closed" <=> failures' < Threshold
    BY <2>1, <2>7 DEF BreakerTypeOK
  <2> QED BY <2>1, <2>2, <2>4, <2>5, <2>6, <2>8, <2>9 DEF BreakerInv
<1>3. ASSUME NEW d \in Deliveries, Succeed(d) PROVE BreakerInv'
  <2>1. Finishes(d) /\ BreakerTypeOK
    BY <1>3 DEF Succeed, BreakerInv
  <2> QED BY <1>3, <2>1, FinishesKeeps
       DEF Succeed, BreakerInv, BreakerTypeOK, ProbesSpaced, ProbesFollowQuiet
<1>4. ASSUME NEW d \in Deliveries, Fail(d) PROVE BreakerInv'
  <2>1. Finishes(d) /\ BreakerTypeOK
    BY <1>4 DEF Fail, BreakerInv
  <2>2. /\ failures' \in Nat /\ lastFailure' = clock /\ circuit' \in {"closed", "open"}
        /\ circuit' = "closed" <=> failures' < Threshold
    BY <1>4 DEF Fail, Trips, BreakerInv, BreakerTypeOK
  <2>3. UNCHANGED <<lastAttempt, clock>>
    BY <1>4 DEF Fail
  <2> QED BY <2>1, <2>2, <2>3, FinishesKeeps
       DEF BreakerInv, BreakerTypeOK, ProbesSpaced, ProbesFollowQuiet
<1>5. ASSUME NEW d \in Deliveries, Abandon(d) PROVE BreakerInv'
  <2>1. Finishes(d) /\ BreakerTypeOK
    BY <1>5 DEF Abandon, BreakerInv
  <2> QED BY <1>5, <2>1, FinishesKeeps
       DEF Abandon, BreakerInv, BreakerTypeOK, ProbesSpaced, ProbesFollowQuiet
<1>6. ASSUME BreakerTick PROVE BreakerInv'
  BY <1>6 DEF BreakerTick, BreakerInv, BreakerTypeOK, ProbesSpaced, ProbesFollowQuiet, Probing
<1>7. ASSUME BreakerRestart PROVE BreakerInv'
  BY <1>7 DEF BreakerRestart, BreakerInv, BreakerTypeOK, ProbesSpaced, ProbesFollowQuiet, Probing
<1> QED BY <1>1, <1>2, <1>3, <1>4, <1>5, <1>6, <1>7 DEF BreakerNext

\* A step that changes nothing keeps it.
LEMMA BreakerStutter ==
    ASSUME BreakerInv, UNCHANGED breakerVars PROVE BreakerInv'
BY DEF breakerVars, BreakerInv, BreakerTypeOK, ProbesSpaced, ProbesFollowQuiet, Probing

\* Every reachable state satisfies the invariant.
THEOREM BreakerInvariant == BreakerSpec => []BreakerInv
<1>1. BreakerInit => BreakerInv
  BY BreakerInitially
<1>2. BreakerInv /\ [BreakerNext]_breakerVars => BreakerInv'
  BY BreakerStep, BreakerStutter
<1> QED BY <1>1, <1>2, PTL DEF BreakerSpec

\* Two probes under way at once were let through ProbeEvery apart.
THEOREM ProbesAreSpaced == BreakerSpec => []ProbesSpaced
<1>1. BreakerInv => ProbesSpaced
  BY DEF BreakerInv
<1> QED BY <1>1, BreakerInvariant, PTL

\* A probe follows a whole cooldown without a failure.
THEOREM ProbesAreLate == BreakerSpec => []ProbesFollowQuiet
<1>1. BreakerInv => ProbesFollowQuiet
  BY DEF BreakerInv
<1> QED BY <1>1, BreakerInvariant, PTL

-----------------------------------------------------------------------------
(* Bulk import. *)

\* The initial states satisfy the invariant.
LEMMA ImportInitially ==
    ASSUME ImportInit PROVE ImportInv
BY ImportAssumption
   DEF ImportInit, ImportInv, ImportTypeOK, Addressed, OwnerRuns, LoadedWhole, LeftoversHaveCause,
       NoPut, Job, JobSteps, Terminal, Staged

\* What the flag may be set to, and what becomes of its holder's fields.
JobRecords == [step : JobSteps, session : Sessions \cup {NoSession},
               left : SUBSET Indices, intact : BOOLEAN]

LEMMA JobMade ==
    ASSUME NEW s \in JobSteps, NEW x \in Sessions \cup {NoSession}
    PROVE  Job(s, x) \in JobRecords /\ Job(s, x).step = s /\ Job(s, x).session = x
BY DEF Job, JobRecords

LEMMA JobMoved ==
    ASSUME job \in JobRecords, NEW s \in JobSteps, job' = [job EXCEPT !.step = s]
    PROVE  /\ job' \in JobRecords /\ job'.step = s
           /\ job'.session = job.session /\ job'.left = job.left /\ job'.intact = job.intact
BY DEF JobRecords

LEMMA JobNamed ==
    ASSUME job \in JobRecords, NEW x \in Sessions \cup {NoSession}, job' = [job EXCEPT !.session = x]
    PROVE  job' \in JobRecords /\ job'.step = job.step /\ job'.session = x
BY DEF JobRecords

\* A state that moves is moved in the row of one session.
LEMMA StateMoved ==
    ASSUME ImportTypeOK, NEW s \in Sessions, NEW from, NEW to \in Terminal \cup {"none", "staging", "running"},
           Moves(s, from, to)
    PROVE  /\ importState' \in [Sessions -> Terminal \cup {"none", "staging", "running"}]
           /\ importState[s] = from
           /\ importState' = [x \in Sessions |-> IF x = s THEN to ELSE importState[x]]
BY DEF ImportTypeOK, Moves

\* Every step keeps the flag's type, and a holder that works on a session names it.
OwnerSteps == {"claim", "check", "rollback", "load", "open", "read", "failing", "purge"}

LEMMA JobStep ==
    ASSUME ImportTypeOK, Addressed, ImportNext
    PROVE  job' \in JobRecords /\ (job'.step \in OwnerSteps => job'.session \in Sessions)
<1> DEFINE T == job' \in JobRecords /\ (job'.step \in OwnerSteps => job'.session \in Sessions)
<1>0. /\ job \in JobRecords /\ (job.step \in OwnerSteps => job.session \in Sessions)
      /\ OwnerSteps \subseteq JobSteps
  BY DEF ImportTypeOK, Addressed, JobRecords, OwnerSteps, JobSteps
<1>1. CASE UploadStep
  <2>1. UNCHANGED job
    BY <1>1 DEF UploadStep, CreateSession, StartPut, WritePart, WriteFails, Recheck, MeasurePut
  <2> QED BY <1>0, <2>1
<1>2. ASSUME NEW s \in Sessions, TakeFlag(s) PROVE T
  <2>1. job' = Job("claim", s)
    BY <1>2 DEF TakeFlag
  <2> QED BY <1>0, <2>1, JobMade DEF JobSteps
<1>3. ASSUME NEW s \in Sessions, CancelSession(s) \/ PurgeCancelled(s) PROVE T
  BY <1>0, <1>3 DEF CancelSession, PurgeCancelled
<1>4. CASE \E s \in JobSteps : job' = [job EXCEPT !.step = s] /\ job.step \in OwnerSteps
  BY <1>0, <1>4, JobMoved
<1>5. CASE \E s \in JobSteps : job' = Job(s, NoSession) /\ s \notin OwnerSteps
  <2>1. PICK s \in JobSteps : job' = Job(s, NoSession) /\ s \notin OwnerSteps
    BY <1>5
  <2> QED BY <2>1, JobMade
<1>6. CASE \E s \in JobSteps : job' = Job(s, job.session) /\ job.step \in OwnerSteps
  <2>1. PICK s \in JobSteps : job' = Job(s, job.session) /\ job.step \in OwnerSteps
    BY <1>6
  <2> QED BY <1>0, <2>1, JobMade
<1>7. ASSUME ClaimSession \/ CheckCommit \/ RollBackCommit PROVE T
  BY <1>4, <1>5, <1>7 DEF ClaimSession, CheckCommit, RollBackCommit, OwnerSteps, JobSteps
<1>8. ASSUME MeasureLoad \/ CompleteImport \/ LoadFails \/ FailLoad \/ PurgeLoaded PROVE T
  BY <1>4, <1>5, <1>6, <1>8
     DEF MeasureLoad, CompleteImport, LoadFails, Loading, FailLoad, PurgeLoaded, OwnerSteps, JobSteps
<1>9. ASSUME OpenParts PROVE T
  <2>1. Staged(job.session) \subseteq Indices
    BY DEF Staged
  <2> QED BY <1>0, <1>9, <2>1 DEF OpenParts, JobRecords, OwnerSteps, JobSteps
<1>10. ASSUME NEW n \in Indices, ReadPart(n) PROVE T
  <2>1. job.session \in Sessions /\ job.left \ {n} \in SUBSET Indices
    BY <1>0, <1>10 DEF ReadPart, OwnerSteps, JobRecords
  <2>2. (job.intact /\ part[job.session][n] = "right") \in BOOLEAN
    OBVIOUS
  <2> QED BY <1>0, <1>10, <2>1, <2>2 DEF ReadPart, JobRecords
<1>11. ASSUME StartSweep \/ EndSweep \/ ImportCrash PROVE T
  BY <1>5, <1>11 DEF StartSweep, EndSweep, ImportCrash, OwnerSteps, JobSteps
<1>12. ASSUME SweepPurge \/ \E s \in Sessions : SweepSession(s) PROVE T
  <2>1. PICK x \in Sessions \cup {NoSession} : job' = [job EXCEPT !.session = x]
    BY <1>12 DEF SweepPurge, SweepSession
  <2>2. job.step \notin OwnerSteps
    BY <1>12 DEF SweepPurge, SweepSession, Sweeping, OwnerSteps
  <2> QED BY <1>0, <2>1, <2>2, JobNamed
<1> QED BY <1>1, <1>2, <1>3, <1>7, <1>8, <1>9, <1>10, <1>11, <1>12
        DEF ImportNext, CommitStep, LoadStep, SweepStep

\* An upload touches one part of the session it names, and goes on to its next step.
LEMMA ChunkTyped ==
    ASSUME ImportTypeOK, Addressed, NEW p \in Puts, put[p].step # "none",
           NEW what \in {"absent", "right", "wrong"}, Chunk(p, what)
    PROVE  /\ part' \in [Sessions -> [Indices -> {"absent", "right", "wrong"}]]
           /\ \A s \in Sessions, n \in Indices :
                 part'[s][n] = IF s = put[p].session /\ n = put[p].index THEN what ELSE part[s][n]
<1>1. put[p].session \in Sessions /\ put[p].index \in Indices
  BY DEF Addressed
<1>2. part \in [Sessions -> [Indices -> {"absent", "right", "wrong"}]]
  BY DEF ImportTypeOK
<1>3. part' = [part EXCEPT ![put[p].session] = [part[put[p].session] EXCEPT ![put[p].index] = what]]
  BY DEF Chunk
<1>4. [part[put[p].session] EXCEPT ![put[p].index] = what] \in [Indices -> {"absent", "right", "wrong"}]
  BY <1>1, <1>2
<1> QED BY <1>1, <1>2, <1>3, <1>4

LEMMA PutMoved ==
    ASSUME ImportTypeOK, Addressed, NEW p \in Puts, put[p].step # "none",
           NEW next \in {"recheck", "measure"}, put' = [put EXCEPT ![p].step = next]
    PROVE  /\ put' \in [Puts -> [step : {"none", "write", "recheck", "measure"},
                                 session : Sessions \cup {NoSession}, index : Indices \cup {0},
                                 bytes : {"right", "wrong"}]]
           /\ put'[p].step = next /\ put'[p].session = put[p].session
           /\ put'[p].index = put[p].index
           /\ \A q \in Puts \ {p} : put'[q] = put[q]
BY DEF ImportTypeOK

\* Every step keeps the types of the uploads and of the parts on disk.
LEMMA UploadTypeStep ==
    ASSUME ImportTypeOK, Addressed, ImportNext
    PROVE  /\ part' \in [Sessions -> [Indices -> {"absent", "right", "wrong"}]]
           /\ put' \in [Puts -> [step : {"none", "write", "recheck", "measure"},
                                 session : Sessions \cup {NoSession}, index : Indices \cup {0},
                                 bytes : {"right", "wrong"}]]
           /\ \A p \in Puts : put'[p].step # "none" =>
                  put'[p].session \in Sessions /\ put'[p].index \in Indices
<1> DEFINE PartT == part' \in [Sessions -> [Indices -> {"absent", "right", "wrong"}]]
           PutT == put' \in [Puts -> [step : {"none", "write", "recheck", "measure"},
                                      session : Sessions \cup {NoSession}, index : Indices \cup {0},
                                      bytes : {"right", "wrong"}]]
           NamedT == \A p \in Puts : put'[p].step # "none" =>
                        put'[p].session \in Sessions /\ put'[p].index \in Indices
<1>1. CASE UNCHANGED <<part, put>>
  BY <1>1 DEF ImportTypeOK, Addressed
<1>2. CASE \E s \in Sessions : Emptied(s) /\ UNCHANGED put
  BY <1>2 DEF ImportTypeOK, Addressed, Emptied
<1>3. ASSUME NEW p \in Puts, NEW s \in Sessions, NEW n \in Indices, NEW b \in {"right", "wrong"},
             StartPut(p, s, n, b) PROVE PartT /\ PutT /\ NamedT
  BY <1>3 DEF ImportTypeOK, Addressed, StartPut
<1>4. ASSUME NEW p \in Puts, WritePart(p) PROVE PartT /\ PutT /\ NamedT
  <2>1. put[p].session \in Sessions /\ put[p].index \in Indices /\ put[p].bytes \in {"right", "wrong"}
    BY <1>4 DEF ImportTypeOK, Addressed, WritePart, PutAt
  <2>2. PartT
    BY <1>4, <2>1, ChunkTyped DEF WritePart, PutAt
  <2>3. PutT /\ NamedT
    BY <1>4, <2>1, PutMoved DEF WritePart, PutAt, Addressed
  <2> QED BY <2>2, <2>3
<1>5. ASSUME NEW p \in Puts, PutOver(p) PROVE PutT /\ NamedT
  BY <1>5 DEF ImportTypeOK, Addressed, PutOver, NoPut
<1>6. ASSUME NEW p \in Puts, Recheck(p) \/ MeasurePut(p) PROVE PartT
  <2>1. put[p].step # "none" /\ (UNCHANGED part \/ Chunk(p, "absent"))
    BY <1>6 DEF Recheck, MeasurePut, PutAt
  <2> QED BY <2>1, ChunkTyped DEF ImportTypeOK
<1>7. ASSUME NEW p \in Puts, Recheck(p) PROVE PutT /\ NamedT
  <2>1. CASE put' = [put EXCEPT ![p].step = "measure"]
    BY <1>7, <2>1, PutMoved DEF Recheck, PutAt, Addressed
  <2> QED BY <1>5, <1>7, <2>1 DEF Recheck
<1>8. CASE ImportCrash
  BY <1>8 DEF ImportTypeOK, Addressed, ImportCrash, NoPut
<1>9. CASE UploadStep
  <2>1. ASSUME NEW s \in Sessions, CreateSession(s) PROVE UNCHANGED <<part, put>>
    BY <2>1 DEF CreateSession
  <2>2. ASSUME NEW p \in Puts, WriteFails(p) PROVE PartT /\ PutOver(p)
    BY <2>2 DEF ImportTypeOK, WriteFails
  <2>3. ASSUME NEW p \in Puts, MeasurePut(p) PROVE PutOver(p)
    BY <2>3 DEF MeasurePut
  <2> QED BY <1>1, <1>3, <1>4, <1>5, <1>6, <1>7, <1>9, <2>1, <2>2, <2>3 DEF UploadStep
<1>10. CASE CommitStep \/ LoadStep \/ SweepStep
  <2>1. CASE \E s \in Sessions : PurgeCancelled(s)
    BY <1>2, <2>1 DEF PurgeCancelled
  <2>2. CASE PurgeLoaded
    <3>1. job.session \in Sessions
      BY <2>2 DEF PurgeLoaded, Addressed
    <3> QED BY <1>2, <2>2, <3>1 DEF PurgeLoaded
  <2>3. CASE SweepPurge
    <3>1. job.session \in Sessions
      BY <2>3 DEF SweepPurge, ImportTypeOK
    <3> QED BY <1>2, <2>3, <3>1 DEF SweepPurge
  <2>4. CASE UNCHANGED <<part, put>> \/ ImportCrash
    BY <1>1, <1>8, <2>4
  <2> QED BY <1>10, <2>1, <2>2, <2>3, <2>4
       DEF CommitStep, LoadStep, SweepStep, TakeFlag, CancelSession, ClaimSession, CheckCommit,
           RollBackCommit, MeasureLoad, OpenParts, CompleteImport, LoadFails, FailLoad, ReadPart,
           StartSweep, EndSweep, SweepSession
<1> QED BY <1>9, <1>10 DEF ImportNext

\* The moves of the state column, all of them out of a state that is not an end.
Edges == {<<"none", "staging">>, <<"staging", "running">>, <<"running", "staging">>,
          <<"staging", "cancelled">>, <<"staging", "failed">>, <<"running", "failed">>}

\* A step moves one session along an edge, completes the load's, or moves none.
LEMMA StateStep ==
    ASSUME ImportTypeOK, Addressed, ImportNext
    PROVE  \/ UNCHANGED importState /\ Loads
           \/ Loads /\ \E s \in Sessions, e \in Edges : Moves(s, e[1], e[2])
           \/ CompleteImport /\ job.session \in Sessions
<1>1. CASE UploadStep
  BY <1>1 DEF UploadStep, CreateSession, StartPut, WritePart, WriteFails, Recheck, MeasurePut, Edges
<1>2. CASE CommitStep
  <2>1. job.step \in {"claim", "rollback"} => job.session \in Sessions
    BY DEF Addressed
  <2> QED BY <1>2, <2>1 DEF CommitStep, TakeFlag, CancelSession, PurgeCancelled, ClaimSession,
                            CheckCommit, RollBackCommit, Edges
<1>3. CASE LoadStep
  <2>1. job.step \in {"read", "failing"} => job.session \in Sessions
    BY DEF Addressed
  <2> QED BY <1>3, <2>1 DEF LoadStep, MeasureLoad, OpenParts, LoadFails, FailLoad, PurgeLoaded,
                            ReadPart, CompleteImport, Edges
<1>4. CASE SweepStep
  BY <1>4 DEF SweepStep, StartSweep, SweepPurge, EndSweep, ImportCrash, SweepSession, Edges
<1> QED BY <1>1, <1>2, <1>3, <1>4 DEF ImportNext

\* The three together: every variable keeps its type.
LEMMA ImportTypeStep ==
    ASSUME ImportTypeOK, Addressed, ImportNext PROVE ImportTypeOK' /\ Addressed'
<1>1. importState' \in [Sessions -> Terminal \cup {"none", "staging", "running"}]
  <2>1. ASSUME NEW s \in Sessions, NEW from,
               NEW to \in Terminal \cup {"none", "staging", "running"}, Moves(s, from, to)
        PROVE  importState' \in [Sessions -> Terminal \cup {"none", "staging", "running"}]
    BY <2>1, StateMoved
  <2>2. \A e \in Edges : e[2] \in Terminal \cup {"none", "staging", "running"}
    BY DEF Edges, Terminal
  <2>3. CASE CompleteImport /\ job.session \in Sessions
    BY <2>1, <2>3 DEF CompleteImport, Terminal
  <2> QED BY <2>1, <2>2, <2>3, StateStep DEF ImportTypeOK
<1>2. landed' \in [Sessions -> Nat] /\ whole' \in [Sessions -> BOOLEAN]
  <2>1. CASE Loads
    BY <2>1 DEF ImportTypeOK, Loads
  <2>2. CASE CompleteImport /\ job.session \in Sessions
    <3>1. landed' \in [Sessions -> Nat]
      BY <2>2 DEF ImportTypeOK, CompleteImport
    <3>2. (whole[job.session] /\ job.intact) \in BOOLEAN
      OBVIOUS
    <3>3. whole' = [whole EXCEPT ![job.session] = (whole[job.session] /\ job.intact)]
      BY <2>2 DEF CompleteImport
    <3> QED BY <2>2, <3>1, <3>2, <3>3 DEF ImportTypeOK
  <2> QED BY <2>1, <2>2, StateStep
<1>3. purging' \subseteq Sessions /\ abandoned' \subseteq Sessions
  <2>1. CASE ImportCrash
    <3>1. Cleaned \subseteq Sessions
      BY DEF Cleaned
    <3> QED BY <2>1, <3>1 DEF ImportTypeOK, ImportCrash
  <2>2. ASSUME NEW s \in Sessions, CancelSession(s) \/ PurgeCancelled(s)
        PROVE  purging' \subseteq Sessions /\ abandoned' \subseteq Sessions
    BY <2>2 DEF ImportTypeOK, CancelSession, PurgeCancelled
  <2>3. CASE UNCHANGED <<purging, abandoned>>
    BY <2>3 DEF ImportTypeOK
  <2> QED BY <2>1, <2>2, <2>3
       DEF ImportNext, UploadStep, CommitStep, LoadStep, SweepStep, CreateSession, StartPut,
           WritePart, WriteFails, Recheck, MeasurePut, TakeFlag, ClaimSession, CheckCommit,
           RollBackCommit, MeasureLoad, OpenParts, CompleteImport, LoadFails, FailLoad,
           PurgeLoaded, ReadPart, StartSweep, SweepPurge, EndSweep, SweepSession
<1> QED BY <1>1, <1>2, <1>3, JobStep, UploadTypeStep
     DEF ImportTypeOK, Addressed, JobRecords, OwnerSteps

\* Nobody moves a running session but the holder of the flag: a claim makes its
\* own session running, and a sweep, which moves others', never holds it with
\* a commit or a load.
LEMMA OwnerRunsStep ==
    ASSUME ImportTypeOK, Addressed, OwnerRuns, ImportNext PROVE OwnerRuns'
<1> DEFINE Owns(s) == s \in {"check", "rollback", "load", "open", "read", "failing"}
<1>0. job \in JobRecords
  BY DEF ImportTypeOK, JobRecords
<1>1. CASE UNCHANGED <<importState, job>>
  BY <1>1 DEF OwnerRuns
<1>2. ASSUME NEW s \in JobSteps, job' = [job EXCEPT !.step = s], Owns(job.step), UNCHANGED importState
      PROVE  OwnerRuns'
  BY <1>0, <1>2, JobMoved DEF OwnerRuns
<1>3. ASSUME NEW s \in JobSteps, NEW x \in Sessions \cup {NoSession}, job' = Job(s, x), ~Owns(s)
      PROVE  OwnerRuns'
  BY <1>3, JobMade DEF OwnerRuns
<1>4. ASSUME NEW s \in Sessions, NEW to, Moves(s, "none", to) \/ Moves(s, "staging", to), UNCHANGED job
      PROVE  OwnerRuns'
  BY <1>4 DEF OwnerRuns, Moves, Addressed, ImportTypeOK
<1>5. CASE UploadStep
  <2>1. ASSUME NEW s \in Sessions, CreateSession(s) PROVE OwnerRuns'
    BY <1>4, <2>1 DEF CreateSession
  <2> QED BY <1>1, <1>5, <2>1 DEF UploadStep, StartPut, WritePart, WriteFails, Recheck, MeasurePut
<1>6. CASE CommitStep
  <2>1. ASSUME NEW s \in Sessions, TakeFlag(s) PROVE OwnerRuns'
    <3>1. job' = Job("claim", s)
      BY <2>1 DEF TakeFlag
    <3> QED BY <1>3, <3>1 DEF JobSteps
  <2>2. ASSUME NEW s \in Sessions, CancelSession(s) PROVE OwnerRuns'
    BY <1>4, <2>2 DEF CancelSession
  <2>3. ASSUME NEW s \in Sessions, PurgeCancelled(s) PROVE OwnerRuns'
    BY <1>1, <2>3 DEF PurgeCancelled
  <2>4. CASE ClaimSession
    <3>1. CASE Moves(job.session, "staging", "running") /\ job' = [job EXCEPT !.step = "check"]
      <4>1. job.session \in Sessions /\ job'.session = job.session
        BY <1>0, <2>4, <3>1, JobMoved DEF ClaimSession, Addressed, JobSteps
      <4>2. importState'[job.session] = "running"
        BY <3>1, <4>1 DEF Moves, ImportTypeOK
      <4> QED BY <4>1, <4>2 DEF OwnerRuns
    <3>2. CASE job' = Job("free", NoSession)
      BY <1>3, <3>2 DEF JobSteps
    <3> QED BY <2>4, <3>1, <3>2 DEF ClaimSession
  <2>5. CASE CheckCommit
    BY <1>2, <2>5 DEF CheckCommit, JobSteps
  <2>6. CASE RollBackCommit
    BY <1>3, <2>6 DEF RollBackCommit, JobSteps
  <2> QED BY <1>6, <2>1, <2>2, <2>3, <2>4, <2>5, <2>6 DEF CommitStep
<1>7. CASE LoadStep
  <2>1. CASE MeasureLoad
    BY <1>2, <2>1 DEF MeasureLoad, JobSteps
  <2>2. CASE OpenParts \/ \E n \in Indices : ReadPart(n)
    <3>1. job'.session = job.session /\ Owns(job.step) /\ UNCHANGED importState
      BY <1>0, <2>2 DEF OpenParts, ReadPart, JobRecords
    <3> QED BY <3>1 DEF OwnerRuns
  <2>3. CASE CompleteImport
    BY <1>0, <2>3, JobMoved DEF CompleteImport, OwnerRuns, JobSteps
  <2>4. CASE LoadFails
    <3>1. job' = Job("failing", job.session) /\ Owns(job.step) /\ UNCHANGED importState
          /\ job.session \in Sessions
      BY <2>4 DEF LoadFails, Loading, Addressed
    <3> QED BY <3>1, JobMade DEF OwnerRuns, JobSteps
  <2>5. CASE FailLoad
    <3>1. job.session \in Sessions
      BY <2>5 DEF FailLoad, Addressed
    <3> QED BY <1>3, <2>5, <3>1 DEF FailLoad, JobSteps
  <2>6. CASE PurgeLoaded
    BY <1>3, <2>6 DEF PurgeLoaded, JobSteps
  <2> QED BY <1>7, <2>1, <2>2, <2>3, <2>4, <2>5, <2>6 DEF LoadStep
<1>8. CASE SweepStep
  <2>1. CASE StartSweep \/ EndSweep \/ ImportCrash
    BY <1>3, <2>1 DEF StartSweep, EndSweep, ImportCrash, JobSteps
  <2>2. CASE SweepPurge \/ \E s \in Sessions : SweepSession(s)
    <3>1. job'.step = job.step /\ ~Owns(job.step)
      BY <1>0, <2>2, JobNamed DEF SweepPurge, SweepSession, Sweeping
    <3> QED BY <3>1 DEF OwnerRuns
  <2> QED BY <1>8, <2>1, <2>2 DEF SweepStep
<1> QED BY <1>5, <1>6, <1>7, <1>8 DEF ImportNext

\* A session is completed by the step that commits its rows, and never moves again.
LEMMA LoadedWholeStep ==
    ASSUME ImportTypeOK, Addressed, LoadedWhole, ImportNext PROVE LoadedWhole'
<1>1. CASE UNCHANGED importState /\ Loads
  BY <1>1 DEF LoadedWhole, Loads
<1>2. CASE Loads /\ \E s \in Sessions, e \in Edges : Moves(s, e[1], e[2])
  <2>1. PICK s \in Sessions, e \in Edges : Moves(s, e[1], e[2])
    BY <1>2
  <2>2. e[1] # "completed" /\ e[2] # "completed"
    BY DEF Edges
  <2>3. \A x \in Sessions : importState'[x] = "completed" <=> importState[x] = "completed"
    BY <2>1, <2>2 DEF Moves, ImportTypeOK
  <2> QED BY <1>2, <2>3 DEF LoadedWhole, Loads
<1>3. CASE CompleteImport /\ job.session \in Sessions
  <2> DEFINE c == job.session
  <2>1. /\ importState[c] = "running" /\ job.intact
        /\ importState' = [importState EXCEPT ![c] = "completed"]
        /\ landed' = [landed EXCEPT ![c] = @ + 1]
        /\ whole' = [whole EXCEPT ![c] = @ /\ job.intact]
    BY <1>3 DEF CompleteImport, ChecksumHolds, Moves
  <2>2. landed[c] = 0 /\ whole[c]
    BY <1>3, <2>1 DEF LoadedWhole
  <2>3. importState'[c] = "completed" /\ landed'[c] = 1 /\ whole'[c]
    BY <1>3, <2>1, <2>2 DEF ImportTypeOK
  <2>4. \A x \in Sessions \ {c} : /\ importState'[x] = importState[x]
                                  /\ landed'[x] = landed[x] /\ whole'[x] = whole[x]
    BY <2>1 DEF ImportTypeOK
  <2> QED BY <2>3, <2>4 DEF LoadedWhole
<1> QED BY <1>1, <1>2, <1>3, StateStep

\* The chunk of a session that has ended is about to be removed.
CauseOf(s, n) ==
    \/ s \in purging \/ PurgedByJob(s)
    \/ \E p \in Puts : PutAt(p, "recheck") /\ put[p].session = s /\ put[p].index = n

\* A step that ends no session, adds no part and takes no cause away.
LEMMA LeftoversKept ==
    ASSUME LeftoversHaveCause,
           \A s \in Sessions : importState'[s] \in Terminal => importState[s] \in Terminal,
           \A s \in Sessions, n \in Indices : part'[s][n] # "absent" => part[s][n] # "absent",
           abandoned \subseteq abandoned',
           \A s \in Sessions, n \in Indices :
               s \notin abandoned' /\ part'[s][n] # "absent" /\ CauseOf(s, n) => CauseOf(s, n)'
    PROVE  LeftoversHaveCause'
BY DEF LeftoversHaveCause, CauseOf, Staged

\* Who ends a session removes its parts next, and who adds one to it looks again.
LEMMA LeftoversStep ==
    ASSUME ImportTypeOK, Addressed, OwnerRuns, LeftoversHaveCause, ImportNext
    PROVE  LeftoversHaveCause'
<1> DEFINE Ends == \A s \in Sessions : importState'[s] \in Terminal => importState[s] \in Terminal
           Adds == \A s \in Sessions, n \in Indices : part'[s][n] # "absent" => part[s][n] # "absent"
<1>0. job \in JobRecords /\ NoSession \notin Sessions
  BY ImportAssumption DEF ImportTypeOK, JobRecords
<1>1. ASSUME UNCHANGED <<part, purging, put, abandoned>>, Ends, ~PurgedByJob(job.session)
      PROVE  LeftoversHaveCause'
  <2>1. \A s \in Sessions, n \in Indices : CauseOf(s, n) => CauseOf(s, n)'
    BY <1>1 DEF CauseOf, PurgedByJob, PutAt
  <2> QED BY <1>1, <2>1, LeftoversKept
<1>2. ASSUME NEW s \in Sessions, NEW from, NEW to \in {"staging", "running"}, Moves(s, from, to)
      PROVE  Ends
  BY <1>2 DEF Moves, ImportTypeOK, Terminal
<1>3. ASSUME NEW s \in Sessions, Emptied(s), UNCHANGED <<importState, put, abandoned>>,
             \A x \in Sessions \ {s} : x \in purging => x \in purging',
             \A x \in Sessions \ {s} : PurgedByJob(x) => PurgedByJob(x)'
      PROVE  LeftoversHaveCause'
  <2>1. /\ \A n \in Indices : part'[s][n] = "absent"
        /\ \A x \in Sessions \ {s} : part'[x] = part[x]
    BY <1>3 DEF Emptied, ImportTypeOK
  <2>2. \A x \in Sessions, n \in Indices :
           part'[x][n] # "absent" /\ CauseOf(x, n) => CauseOf(x, n)'
    BY <1>3, <2>1 DEF CauseOf, PutAt
  <2> QED BY <1>3, <2>1, <2>2, LeftoversKept
<1>4. ASSUME NEW s \in Sessions, NEW from, NEW to \in Terminal, Moves(s, from, to),
             UNCHANGED <<part, put, abandoned>>, s \in purging' \/ PurgedByJob(s)',
             purging \subseteq purging', \A x \in Sessions : PurgedByJob(x) => PurgedByJob(x)'
      PROVE  LeftoversHaveCause'
  <2>1. \A x \in Sessions \ {s} : importState'[x] = importState[x]
    BY <1>4 DEF Moves, ImportTypeOK
  <2> QED BY <1>4, <2>1 DEF LeftoversHaveCause, Staged, PutAt
<1>5. ASSUME NEW p \in Puts, UploadStep, UNCHANGED <<importState, purging, abandoned, job>>,
             put[p].step # "none",
             \A q \in Puts \ {p} : put'[q] = put[q],
             \A s \in Sessions, n \in Indices :
                 <<s, n>> # <<put[p].session, put[p].index>> => part'[s][n] = part[s][n],
             LET s == put[p].session
                 n == put[p].index
             IN  \/ part'[s][n] = "absent"
                 \/ PutAt(p, "recheck")' /\ put'[p].session = s /\ put'[p].index = n
                 \/ importState[s] \notin Terminal
                 \/ ~PutAt(p, "recheck") /\ part'[s][n] = part[s][n]
      PROVE  LeftoversHaveCause'
  <2> SUFFICES ASSUME NEW s \in Sessions, importState[s] \in Terminal, s \notin abandoned,
                      NEW n \in Indices, part'[s][n] # "absent"
               PROVE  CauseOf(s, n)'
    BY <1>5 DEF LeftoversHaveCause, CauseOf, Staged
  <2>1. CASE <<s, n>> # <<put[p].session, put[p].index>>
    <3>1. CauseOf(s, n)
      BY <1>5, <2>1 DEF LeftoversHaveCause, CauseOf, Staged
    <3> QED BY <1>5, <2>1, <3>1 DEF CauseOf, PurgedByJob, PutAt
  <2>2. CASE s = put[p].session /\ n = put[p].index
    <3>1. CASE PutAt(p, "recheck")' /\ put'[p].session = s /\ put'[p].index = n
      BY <3>1 DEF CauseOf, PutAt
    <3>2. CASE ~PutAt(p, "recheck") /\ part'[s][n] = part[s][n]
      <4>1. CauseOf(s, n)
        BY <1>5, <3>2 DEF LeftoversHaveCause, CauseOf, Staged
      <4> QED BY <1>5, <3>2, <4>1 DEF CauseOf, PurgedByJob, PutAt
    <3> QED BY <1>5, <2>2, <3>1, <3>2
  <2> QED BY <2>1, <2>2
<1>6. CASE UploadStep
  <2>1. ASSUME NEW s \in Sessions, CreateSession(s) PROVE LeftoversHaveCause'
    <3>1. Ends /\ UNCHANGED <<part, purging, put, abandoned, job>>
      BY <1>2, <2>1 DEF CreateSession
    <3>2. \A x \in Sessions, n \in Indices : CauseOf(x, n) => CauseOf(x, n)'
      BY <3>1 DEF CauseOf, PurgedByJob, PutAt
    <3> QED BY <3>1, <3>2, LeftoversKept
  <2>2. ASSUME NEW p \in Puts, NEW s \in Sessions, NEW n \in Indices, NEW b \in {"right", "wrong"},
               StartPut(p, s, n, b) PROVE LeftoversHaveCause'
    <3>1. /\ UNCHANGED <<importState, part, purging, abandoned, job>> /\ put[p].step = "none"
          /\ \A q \in Puts \ {p} : put'[q] = put[q]
      BY <2>2 DEF StartPut, ImportTypeOK
    <3>2. \A x \in Sessions, m \in Indices : CauseOf(x, m) => CauseOf(x, m)'
      BY <3>1 DEF CauseOf, PurgedByJob, PutAt
    <3> QED BY <3>1, <3>2, LeftoversKept
  <2>3. ASSUME NEW p \in Puts, WritePart(p) PROVE LeftoversHaveCause'
    <3>1. put[p].step # "none" /\ put[p].bytes \in {"absent", "right", "wrong"}
      BY <2>3 DEF WritePart, PutAt, ImportTypeOK
    <3>2. /\ put'[p].step = "recheck" /\ put'[p].session = put[p].session
          /\ put'[p].index = put[p].index /\ \A q \in Puts \ {p} : put'[q] = put[q]
      BY <2>3, <3>1, PutMoved DEF WritePart
    <3>3. \A s \in Sessions, n \in Indices :
             <<s, n>> # <<put[p].session, put[p].index>> => part'[s][n] = part[s][n]
      BY <2>3, <3>1, ChunkTyped DEF WritePart
    <3> QED BY <1>5, <1>6, <2>3, <3>1, <3>2, <3>3 DEF WritePart, PutAt
  <2>4. ASSUME NEW p \in Puts, WriteFails(p) PROVE LeftoversHaveCause'
    <3>1. put[p].step = "write" /\ \A q \in Puts \ {p} : put'[q] = put[q]
      BY <2>4 DEF WriteFails, PutAt, PutOver, ImportTypeOK
    <3> QED BY <1>5, <1>6, <2>4, <3>1 DEF WriteFails, PutAt
  <2>5. ASSUME NEW p \in Puts, Recheck(p) PROVE LeftoversHaveCause'
    <3>1. put[p].step = "recheck"
      BY <2>5 DEF Recheck, PutAt
    <3>2. CASE StillStaging(p) /\ put' = [put EXCEPT ![p].step = "measure"] /\ UNCHANGED part
      <4>1. \A q \in Puts \ {p} : put'[q] = put[q]
        BY <3>2 DEF ImportTypeOK
      <4>2. importState[put[p].session] \notin Terminal
        BY <3>2 DEF StillStaging, Terminal
      <4> QED BY <1>5, <1>6, <2>5, <3>1, <3>2, <4>1, <4>2 DEF Recheck
    <3>3. CASE Chunk(p, "absent") /\ PutOver(p)
      <4>1. \A q \in Puts \ {p} : put'[q] = put[q]
        BY <3>3 DEF PutOver, ImportTypeOK
      <4>2. \A s \in Sessions, n \in Indices :
               part'[s][n] = IF s = put[p].session /\ n = put[p].index THEN "absent" ELSE part[s][n]
        BY <3>1, <3>3, ChunkTyped
      <4>3. put[p].session \in Sessions /\ put[p].index \in Indices
        BY <3>1 DEF Addressed
      <4> QED BY <1>5, <1>6, <2>5, <3>1, <4>1, <4>2, <4>3 DEF Recheck
    <3> QED BY <2>5, <3>2, <3>3 DEF Recheck
  <2>6. ASSUME NEW p \in Puts, MeasurePut(p) PROVE LeftoversHaveCause'
    <3>1. put[p].step = "measure" /\ \A q \in Puts \ {p} : put'[q] = put[q]
      BY <2>6 DEF MeasurePut, PutAt, PutOver, ImportTypeOK
    <3>2. CASE UNCHANGED part
      BY <1>5, <1>6, <2>6, <3>1, <3>2 DEF MeasurePut, PutAt
    <3>3. CASE Chunk(p, "absent")
      <4>1. \A s \in Sessions, n \in Indices :
               part'[s][n] = IF s = put[p].session /\ n = put[p].index THEN "absent" ELSE part[s][n]
        BY <3>1, <3>3, ChunkTyped
      <4>2. put[p].session \in Sessions /\ put[p].index \in Indices
        BY <3>1 DEF Addressed
      <4> QED BY <1>5, <1>6, <2>6, <3>1, <4>1, <4>2 DEF MeasurePut
    <3> QED BY <2>6, <3>2, <3>3 DEF MeasurePut
  <2> QED BY <1>6, <2>1, <2>2, <2>3, <2>4, <2>5, <2>6 DEF UploadStep
<1>7. CASE CommitStep
  <2>1. ASSUME NEW s \in Sessions, TakeFlag(s) PROVE LeftoversHaveCause'
    BY <1>1, <2>1 DEF TakeFlag, PurgedByJob
  <2>2. ASSUME NEW s \in Sessions, CancelSession(s) PROVE LeftoversHaveCause'
    BY <1>4, <2>2 DEF CancelSession, Terminal, PurgedByJob
  <2>3. ASSUME NEW s \in Sessions, PurgeCancelled(s) PROVE LeftoversHaveCause'
    BY <1>3, <2>3 DEF PurgeCancelled, PurgedByJob
  <2>4. CASE ClaimSession
    <3>1. Ends
      BY <1>2, <2>4 DEF ClaimSession, Addressed
    <3> QED BY <1>1, <2>4, <3>1 DEF ClaimSession, PurgedByJob
  <2>5. CASE CheckCommit
    BY <1>1, <2>5 DEF CheckCommit, PurgedByJob
  <2>6. CASE RollBackCommit
    <3>1. Ends
      BY <1>2, <2>6 DEF RollBackCommit, Addressed
    <3> QED BY <1>1, <2>6, <3>1 DEF RollBackCommit, PurgedByJob
  <2> QED BY <1>7, <2>1, <2>2, <2>3, <2>4, <2>5, <2>6 DEF CommitStep
<1>8. CASE LoadStep
  <2>1. CASE MeasureLoad \/ OpenParts \/ LoadFails \/ \E n \in Indices : ReadPart(n)
    BY <1>1, <2>1 DEF MeasureLoad, OpenParts, LoadFails, Loading, ReadPart, PurgedByJob
  <2>2. CASE CompleteImport
    <3>1. job.session \in Sessions /\ job'.step = "purge" /\ job'.session = job.session
      BY <1>0, <2>2, JobMoved DEF CompleteImport, Addressed, JobSteps
    <3> QED BY <1>4, <2>2, <3>1 DEF CompleteImport, Terminal, PurgedByJob
  <2>3. CASE FailLoad
    <3>1. job.session \in Sessions
      BY <2>3 DEF FailLoad, Addressed
    <3>2. CASE Moves(job.session, "running", "failed") /\ job' = Job("purge", job.session)
      <4>1. job'.step = "purge" /\ job'.session = job.session
        BY <3>1, <3>2, JobMade DEF JobSteps
      <4> QED BY <1>4, <2>3, <3>1, <3>2, <4>1 DEF FailLoad, Terminal, PurgedByJob
    <3>3. CASE UNCHANGED importState
      BY <1>1, <2>3, <3>3 DEF FailLoad, PurgedByJob
    <3> QED BY <2>3, <3>2, <3>3 DEF FailLoad
  <2>4. CASE PurgeLoaded
    <3>1. job.session \in Sessions
      BY <2>4 DEF PurgeLoaded, Addressed
    <3> QED BY <1>3, <2>4, <3>1 DEF PurgeLoaded, PurgedByJob
  <2> QED BY <1>8, <2>1, <2>2, <2>3, <2>4 DEF LoadStep
<1>9. CASE SweepStep
  <2>1. CASE StartSweep \/ EndSweep
    <3>1. UNCHANGED <<importState, part, purging, put, abandoned>>
          /\ \A s \in Sessions : ~PurgedByJob(s)
      BY <1>0, <2>1 DEF StartSweep, EndSweep, PurgedByJob
    <3>2. \A s \in Sessions, n \in Indices : CauseOf(s, n) => CauseOf(s, n)'
      BY <3>1 DEF CauseOf, PutAt
    <3> QED BY <3>1, <3>2, LeftoversKept
  <2>2. CASE ImportCrash
    <3>1. \A s \in Sessions, n \in Indices :
             importState[s] \in Terminal /\ CauseOf(s, n) => s \in abandoned'
      BY <2>2 DEF CauseOf, ImportCrash, Cleaned
    <3> QED BY <2>2, <3>1 DEF LeftoversHaveCause, CauseOf, Staged, ImportCrash
  <2>3. ASSUME NEW s \in Sessions, SweepSession(s) PROVE LeftoversHaveCause'
    <3>1. job'.step \in {"boot", "sweep"} /\ job'.session = s /\ job.session = NoSession
      BY <1>0, <2>3, JobNamed DEF SweepSession, Sweeping
    <3>2. \A x \in Sessions : PurgedByJob(x) => PurgedByJob(x)'
      BY <1>0, <3>1 DEF PurgedByJob
    <3> QED BY <1>4, <2>3, <3>1, <3>2 DEF SweepSession, Terminal, PurgedByJob
  <2>4. CASE SweepPurge
    <3>1. job.session \in Sessions
      BY <2>4 DEF SweepPurge, ImportTypeOK
    <3> QED BY <1>3, <2>4, <3>1 DEF SweepPurge, PurgedByJob
  <2> QED BY <1>9, <2>1, <2>2, <2>3, <2>4 DEF SweepStep
<1> QED BY <1>6, <1>7, <1>8, <1>9 DEF ImportNext

\* A step that changes nothing keeps the invariant.
LEMMA ImportStutter ==
    ASSUME ImportInv, UNCHANGED importVars PROVE ImportInv'
<1> USE DEF importVars
<1>1. ImportTypeOK' /\ Addressed' /\ OwnerRuns' /\ LoadedWhole'
  BY DEF ImportInv, ImportTypeOK, Addressed, OwnerRuns, LoadedWhole
<1>2. LeftoversHaveCause'
  BY DEF ImportInv, LeftoversHaveCause, Staged, PurgedByJob, PutAt
<1> QED BY <1>1, <1>2 DEF ImportInv

\* Every step keeps the invariant.
LEMMA ImportStep ==
    ASSUME ImportInv, [ImportNext]_importVars PROVE ImportInv'
<1>1. CASE ImportNext
  BY <1>1, ImportTypeStep, OwnerRunsStep, LoadedWholeStep, LeftoversStep DEF ImportInv
<1>2. CASE UNCHANGED importVars
  BY <1>2, ImportStutter
<1> QED BY <1>1, <1>2

\* Every reachable state satisfies the invariant.
THEOREM ImportInvariant == ImportSpec => []ImportInv
<1>1. ImportInit => ImportInv
  BY ImportInitially
<1>2. ImportInv /\ [ImportNext]_importVars => ImportInv'
  BY ImportStep
<1> QED BY <1>1, <1>2, PTL DEF ImportSpec

\* A completed session's rows are in the table once, from the declared file, and
\* no other session's are.
THEOREM ImportsLandWhole == ImportSpec => []LoadedWhole
<1>1. ImportInv => LoadedWhole
  BY DEF ImportInv
<1> QED BY <1>1, ImportInvariant, PTL

\* Every staged chunk of a session that has ended has somebody to remove it.
THEOREM LeftoversAreOwed == ImportSpec => []LeftoversHaveCause
<1>1. ImportInv => LeftoversHaveCause
  BY DEF ImportInv
<1> QED BY <1>1, ImportInvariant, PTL

\* How a session ended is never rewritten.
THEOREM EndsStay == ImportSpec => TerminalStays
<1>1. ImportInv /\ [ImportNext]_importVars =>
        [\A s \in Sessions :
            importState[s] \in Terminal => importState'[s] = importState[s]]_importVars
  <2> SUFFICES ASSUME ImportInv, ImportNext, NEW s \in Sessions, importState[s] \in Terminal
               PROVE  importState'[s] = importState[s]
    OBVIOUS
  <2>1. ASSUME NEW x \in Sessions, NEW from \in {"none", "staging", "running"}, NEW to,
               Moves(x, from, to)
        PROVE  importState'[s] = importState[s]
    BY <2>1 DEF Moves, ImportInv, ImportTypeOK, Terminal
  <2>2. \A e \in Edges : e[1] \in {"none", "staging", "running"}
    BY DEF Edges
  <2>3. CASE CompleteImport /\ job.session \in Sessions
    BY <2>1, <2>3 DEF CompleteImport
  <2> QED BY <2>1, <2>2, <2>3, StateStep DEF ImportInv
<1> QED BY <1>1, ImportInvariant, PTL DEF ImportSpec, TerminalStays

-----------------------------------------------------------------------------
(* The composition. *)

\* The area is picked once, and only its component moves.
LEMMA PlatformStep ==
    ASSUME PlatformInv, area \in Areas, [PlatformNext]_platformVars
    PROVE  PlatformInv' /\ area' \in Areas
<1>1. UNCHANGED area
  BY DEF PlatformNext, platformVars
<1>2. CASE area = "rows"
  <2>1. RowInv /\ [RowNext]_rowVars
    BY <1>2 DEF PlatformInv, PlatformNext, platformVars
  <2> QED BY <1>1, <1>2, <2>1, RowStep DEF PlatformInv, Areas
<1>3. CASE area = "breaker"
  <2>1. BreakerInv /\ [BreakerNext]_breakerVars
    BY <1>3 DEF PlatformInv, PlatformNext, platformVars
  <2> QED BY <1>1, <1>3, <2>1, BreakerStep, BreakerStutter DEF PlatformInv, Areas
<1>4. CASE area = "authority"
  <2>1. AuthorityInv /\ [AuthorityNext]_authorityVars
    BY <1>4 DEF PlatformInv, PlatformNext, platformVars
  <2> QED BY <1>1, <1>4, <2>1, AuthorityStep DEF PlatformInv, Areas
<1>5. CASE area = "grants"
  <2>1. GrantInv /\ [GrantNext]_grantVars
    BY <1>5 DEF PlatformInv, PlatformNext, platformVars
  <2> QED BY <1>1, <1>5, <2>1, GrantsGoOn DEF PlatformInv, Areas
<1>6. CASE area = "import"
  <2>1. ImportInv /\ [ImportNext]_importVars
    BY <1>6 DEF PlatformInv, PlatformNext, platformVars
  <2> QED BY <1>1, <1>6, <2>1, ImportStep DEF PlatformInv, Areas
<1> QED BY <1>2, <1>3, <1>4, <1>5, <1>6 DEF Areas

\* The invariant of the component that moves holds in every reachable state of
\* the composition.
THEOREM PlatformInvariant == PlatformSpec => []PlatformInv
<1>1. PlatformInit => PlatformInv /\ area \in Areas
  BY RowInitially, BreakerInitially, AuthorityInitially, GrantsBegin, ImportInitially
     DEF PlatformInit, PlatformInv, Areas
<1>2. PlatformInv /\ area \in Areas /\ [PlatformNext]_platformVars
        => PlatformInv' /\ (area \in Areas)'
  BY PlatformStep
<1> QED BY <1>1, <1>2, PTL DEF PlatformSpec
==============================================================================
