------------------------ MODULE CronScheduler_proofs ------------------------
(***************************************************************************)
(* Proofs about CronScheduler for any number of schedulers and processes,  *)
(* any schedule and any length of time.                                    *)
(***************************************************************************)
EXTENDS CronScheduler, FiniteSetTheorems, TLAPS

\* The clock counts up to the end of the last minute, and every instant of it
\* lies in a numbered minute.
LEMMA ClockType ==
    /\ Clock \subseteq Nat /\ MinuteNos \subseteq Nat
    /\ Minute \in Clock /\ 0 \in Clock /\ 0 \in MinuteNos
    /\ \A t \in Clock : MinuteOf(t) \in MinuteNos
<1>1. (LastMinute + 1) * Minute \in Nat /\ Minute + Minute <= (LastMinute + 1) * Minute
  BY CronAssumption
<1>2. ASSUME NEW t \in Clock PROVE t \div Minute \in 0 .. LastMinute
  <2>1. t \in Nat /\ t < (LastMinute + 1) * Minute
    BY <1>1, CronAssumption DEF Clock
  <2>2. t \div Minute \in Nat /\ (t \div Minute) * Minute <= t
    BY <2>1, CronAssumption
  <2>3. t \div Minute < LastMinute + 1
    BY <2>1, <2>2, CronAssumption
  <2> QED BY <2>2, <2>3, CronAssumption
<1> QED BY <1>1, <1>2, CronAssumption DEF Clock, MinuteNos, MinuteOf

-----------------------------------------------------------------------------
\* Nothing has fired and no scheduler runs at the start.
LEMMA TypeInit == Init => TypeOK
BY ClockType, CronAssumption DEF Init, TypeOK, Phases, Never

\* Every action keeps the types: in particular no minute number, last fire time
\* or waiting tick leaves the range of the clock.
LEMMA TypeStep == TypeOK /\ [Next]_vars => TypeOK'
<1> SUFFICES ASSUME TypeOK, [Next]_vars PROVE TypeOK'
  OBVIOUS
<1> USE DEF TypeOK, table, scheduler, Phases
<1>0. lastFire \in MinuteNos /\ Never \in MinuteNos
  BY ClockType DEF Never
<1>1. ASSUME NEW p \in Schedulers, Start(p) PROVE TypeOK'
  <2>1. memory' \in [Schedulers -> MinuteNos]
    BY <1>0, <1>1 DEF Start, Answers
  <2>2. clock + Minute \in Nat
    BY ClockType, CronAssumption
  <2> QED BY <1>1, <2>1, <2>2, ClockType DEF Start
<1>2. ASSUME NEW p \in Schedulers, Receive(p) PROVE TypeOK'
  BY <1>2, ClockType DEF Receive
<1>3. ASSUME NEW p \in Schedulers, Retire(p) PROVE TypeOK'
  BY <1>3 DEF Retire
<1>4. ASSUME NEW p \in Schedulers, Decide(p) PROVE TypeOK'
  <2>1. Known(p) \subseteq MinuteNos
    BY <1>0 DEF Known, Answers, Later
  <2> QED BY <1>4, <2>1 DEF Decide
<1>5. ASSUME NEW p \in Schedulers, Find(p) PROVE TypeOK'
  BY <1>5 DEF Find
<1>6. ASSUME NEW p \in Schedulers, Insert(p) PROVE TypeOK'
  <2>1. MinuteOf(now[p]) \in MinuteNos
    BY ClockType
  <2> QED BY <1>6, <2>1 DEF Insert
<1>7. ASSUME NEW p \in Schedulers, EnqueueFails(p) PROVE TypeOK'
  BY <1>7 DEF EnqueueFails
<1>8. ASSUME NEW p \in Schedulers, Persist(p) PROVE TypeOK'
  <2>1. MinuteOf(now[p]) \in MinuteNos
    BY ClockType
  <2> QED BY <1>8, <2>1 DEF Persist
<1>9. ASSUME NEW p \in Schedulers, Crash(p) PROVE TypeOK'
  BY <1>9 DEF Crash
<1>10. ASSUME NEW m \in MinuteNos, Settle(m) PROVE TypeOK'
  BY <1>10 DEF Settle
<1>11. ASSUME Tick PROVE TypeOK'
  <2>1. bell' \in [Schedulers -> Nat] /\ buffer' \in [Schedulers -> Clock]
    BY <1>11, ClockType, CronAssumption DEF Tick
  <2> QED BY <1>11, <2>1 DEF Tick
<1>12. ASSUME UNCHANGED vars PROVE TypeOK'
  BY <1>12 DEF vars
<1> QED
  BY <1>1, <1>2, <1>3, <1>4, <1>5, <1>6, <1>7, <1>8, <1>9, <1>10, <1>11, <1>12
     DEF Next, Step

-----------------------------------------------------------------------------
\* The schedulers about to insert a minute are finitely many, and one of them
\* less after its INSERT.
LEMMA InsertingFinite ==
    ASSUME NEW m
    PROVE  /\ IsFiniteSet(Inserting(m)) /\ Cardinality(Inserting(m)) \in Nat
           /\ Cardinality(Schedulers) \in Nat
           /\ Cardinality(Inserting(m)) <= Cardinality(Schedulers)
BY CronAssumption, FS_Subset, FS_CardinalityType DEF Inserting

\* No minute gains a scheduler about to insert while a row of it is there, and
\* each INSERT spends one.
LEMMA DuplicateStep ==
    ASSUME "find" \notin Refused, TypeOK, DuplicateInv, [Next]_vars
    PROVE  DuplicateInv'
<1> USE DEF TypeOK, table, scheduler
<1>1. ASSUME UNCHANGED runs, \A m \in MinuteNos :
                 runs[m] > 0 => Inserting(m)' \subseteq Inserting(m)
      PROVE  DuplicateInv'
  <2> SUFFICES ASSUME NEW m \in MinuteNos, runs[m] > 0
               PROVE  runs[m] + Cardinality(Inserting(m)') <= Cardinality(Schedulers)
    BY <1>1 DEF DuplicateInv
  <2>1. /\ Cardinality(Inserting(m)') \in Nat
        /\ Cardinality(Inserting(m)') <= Cardinality(Inserting(m))
    BY <1>1, InsertingFinite, FS_Subset, FS_CardinalityType
  <2>2. runs[m] + Cardinality(Inserting(m)) <= Cardinality(Schedulers)
    BY DEF DuplicateInv
  <2> QED BY <2>1, <2>2, InsertingFinite
<1>2. ASSUME NEW p \in Schedulers, Insert(p) PROVE DuplicateInv'
  <2>1. PICK m \in MinuteNos : m = MinuteOf(now[p])
    BY ClockType
  <2>2. CASE m \in live
    BY <1>1, <1>2, <2>1, <2>2 DEF Insert, Inserting
  <2>3. CASE m \notin live
    <3>1. runs' = [runs EXCEPT ![m] = @ + 1]
      BY <1>2, <2>1, <2>3 DEF Insert
    <3>2. p \in Inserting(m) /\ Inserting(m)' = Inserting(m) \ {p}
      BY <1>2, <2>1 DEF Insert, Inserting
    <3>3. Cardinality(Inserting(m)') = Cardinality(Inserting(m)) - 1
      BY <3>2, InsertingFinite, FS_RemoveElement
    <3>4. runs[m] + Cardinality(Inserting(m)) <= Cardinality(Schedulers)
      <4>1. CASE runs[m] > 0
        BY <4>1 DEF DuplicateInv
      <4>2. CASE ~(runs[m] > 0)
        <5>1. runs[m] = 0
          BY <4>2
        <5> QED BY <5>1, InsertingFinite
      <4> QED BY <4>1, <4>2
    <3>5. runs'[m] + Cardinality(Inserting(m)') <= Cardinality(Schedulers)
      BY <2>1, <3>1, <3>3, <3>4, InsertingFinite
    <3>6. ASSUME NEW k \in MinuteNos, k # m
          PROVE  runs'[k] = runs[k] /\ Inserting(k)' = Inserting(k)
      BY <1>2, <2>1, <3>1, <3>6 DEF Insert, Inserting
    <3> QED BY <3>5, <3>6 DEF DuplicateInv
  <2> QED BY <2>2, <2>3
<1>3. ASSUME NEW p \in Schedulers, Find(p) PROVE DuplicateInv'
  <2>1. phase' = [phase EXCEPT ![p] = IF Queued(MinuteOf(now[p])) THEN "persist"
                                      ELSE "insert"]
    BY <1>3 DEF Find, Answers
  <2>2. ASSUME NEW m \in MinuteNos, runs[m] > 0
        PROVE  Inserting(m)' \subseteq Inserting(m)
    BY <1>3, <2>1, <2>2 DEF Find, Queued, Inserting
  <2> QED BY <1>1, <1>3, <2>2 DEF Find
<1>4. ASSUME UNCHANGED <<runs>>,
             \A q \in Schedulers : phase'[q] = "insert" =>
                phase[q] = "insert" /\ now'[q] = now[q]
      PROVE  DuplicateInv'
  BY <1>1, <1>4 DEF Inserting
<1>5. ASSUME NEW p \in Schedulers,
             Start(p) \/ Receive(p) \/ Retire(p) \/ Decide(p) \/ EnqueueFails(p)
               \/ Persist(p) \/ Crash(p)
      PROVE  DuplicateInv'
  BY <1>4, <1>5 DEF Start, Receive, Retire, Decide, EnqueueFails, Persist, Crash
<1>6. ASSUME (\E m \in MinuteNos : Settle(m)) \/ Tick \/ UNCHANGED vars
      PROVE  DuplicateInv'
  BY <1>4, <1>6 DEF Settle, Tick, vars
<1> QED BY <1>2, <1>3, <1>5, <1>6 DEF Next, Step

-----------------------------------------------------------------------------
\* Types and the count of rows per minute, in every reachable state, as long as
\* the lookup of the unique key is not refused.
THEOREM InvCorrect ==
    ASSUME "find" \notin Refused PROVE Spec => []CronInv
<1>1. Init => CronInv
  BY TypeInit, ClockType DEF Init, CronInv, DuplicateInv
<1>2. CronInv /\ [Next]_vars => CronInv'
  BY TypeStep, DuplicateStep DEF CronInv
<1> QED BY <1>1, <1>2, PTL DEF Spec

\* A minute fires no more often than there are schedulers.
THEOREM BoundedDuplicates ==
    ASSUME "find" \notin Refused PROVE Spec => []DuplicatesBounded
<1>1. CronInv => DuplicatesBounded
  <2> SUFFICES ASSUME CronInv, NEW m \in MinuteNos
               PROVE  runs[m] <= Cardinality(Schedulers)
    BY DEF DuplicatesBounded
  <2> QED BY InsertingFinite DEF CronInv, TypeOK, DuplicateInv
<1> QED BY InvCorrect, <1>1, PTL

\* A scheduler that is alone on its database never fires a minute twice,
\* whatever crashes, lost writes and late ticks do.
THEOREM AloneFiresOnce ==
    ASSUME "find" \notin Refused, Cardinality(Schedulers) <= 1
    PROVE  Spec => []FiredOncePerMinute
<1>1. CronInv => FiredOncePerMinute
  <2> SUFFICES ASSUME CronInv, NEW m \in MinuteNos PROVE runs[m] <= 1
    BY DEF FiredOncePerMinute
  <2> QED BY InsertingFinite DEF CronInv, TypeOK, DuplicateInv
<1> QED BY InvCorrect, <1>1, PTL

-----------------------------------------------------------------------------
(* A scheduler that is alone: what was recorded lies behind what is fired. *)

\* A minute contains its instants, and later minutes begin later.
LEMMA MinuteBounds ==
    /\ \A t \in Clock : /\ MinuteOf(t) * Minute <= t
                        /\ t < (MinuteOf(t) + 1) * Minute
    /\ \A t \in Clock, k \in Nat : k * Minute <= t => k <= MinuteOf(t)
    /\ \A k, m \in Nat : k <= m => k * Minute <= m * Minute
    /\ \A t \in Clock : t >= Minute => MinuteOf(t) >= 1
<1> USE CronAssumption
<1>1. ASSUME NEW t \in Clock
      PROVE  MinuteOf(t) \in Nat /\ MinuteOf(t) * Minute <= t /\ t < (MinuteOf(t) + 1) * Minute
  <2>1. t \in Nat
    BY ClockType
  <2> QED BY <2>1 DEF MinuteOf
<1>2. ASSUME NEW t \in Clock, NEW k \in Nat, k * Minute <= t PROVE k <= MinuteOf(t)
  <2>1. t \in Nat /\ MinuteOf(t) \in Nat /\ t < (MinuteOf(t) + 1) * Minute
    BY <1>1, ClockType
  <2>2. k * Minute < (MinuteOf(t) + 1) * Minute
    BY <1>2, <2>1
  <2> QED BY <2>1, <2>2
<1>3. ASSUME NEW k \in Nat, NEW m \in Nat, k <= m PROVE k * Minute <= m * Minute
  <2>1. PICK d \in Nat : m = k + d
    BY <1>3
  <2> QED BY <2>1
<1> QED BY <1>1, <1>2, <1>3

\* Two schedulers of a set of one are the same.
LEMMA AloneSame ==
    ASSUME Cardinality(Schedulers) <= 1, NEW p \in Schedulers, NEW q \in Schedulers
    PROVE  p = q
<1> SUFFICES ASSUME p # q PROVE FALSE
  OBVIOUS
<1>1. Cardinality({p}) = 1 /\ IsFiniteSet({p})
  BY FS_Singleton
<1>2. Cardinality({p} \cup {q}) = 2
  BY <1>1, FS_AddElement
<1>3. Cardinality({p} \cup {q}) <= Cardinality(Schedulers)
  BY CronAssumption, FS_Subset
<1>4. Cardinality(Schedulers) \in Nat
  BY CronAssumption, FS_CardinalityType
<1> QED BY <1>2, <1>3, <1>4

\* Only a fire is recorded, and only Decide finds a tick due.
LEMMA FireStep ==
    ASSUME "read" \notin Refused, Cardinality(Schedulers) <= 1,
           TypeOK, FireInv, [Next]_vars
    PROVE  FireInv'
<1> USE DEF TypeOK, table, scheduler
<1>0. /\ Minute \in Nat \ {0} /\ Every \in Nat /\ clock \in Nat /\ lastFire \in Nat
      /\ \A k \in recorded : k \in Nat
      /\ \A p \in Schedulers : now[p] \in Nat /\ buffer[p] \in Nat
  BY CronAssumption, ClockType
<1>1. ASSUME UNCHANGED <<clock, lastFire, recorded, now, buffer>>,
             \A p \in Schedulers : phase'[p] # "off" => phase[p] # "off",
             \A p \in Schedulers : Found(p)' => Found(p)
      PROVE  FireInv'
  BY <1>1 DEF FireInv
<1>2. ASSUME NEW p \in Schedulers, Start(p) PROVE FireInv'
  <2>1. /\ phase'[p] = "tick" /\ now'[p] = clock /\ buffer'[p] = 0
        /\ \A q \in Schedulers : q = p
    BY <1>2, AloneSame DEF Start
  <2> QED BY <1>2, <2>1 DEF Start, FireInv, Found
<1>3. ASSUME NEW p \in Schedulers, Receive(p) PROVE FireInv'
  <2>1. /\ phase'[p] = "tick" /\ now'[p] = buffer[p] /\ buffer'[p] = 0 /\ buffer[p] # 0
        /\ \A q \in Schedulers : q = p
    BY <1>3, AloneSame DEF Receive
  <2> QED BY <1>3, <2>1 DEF Receive, FireInv, Found
<1>4. ASSUME NEW p \in Schedulers, Retire(p) \/ Find(p) \/ Insert(p) \/ EnqueueFails(p) \/ Crash(p)
      PROVE  FireInv'
  BY <1>1, <1>4 DEF Retire, Find, Insert, EnqueueFails, Crash, Found
<1>5. ASSUME NEW p \in Schedulers, Decide(p) PROVE FireInv'
  <2>1. PICK last \in Known(p) : phase' = [phase EXCEPT ![p] = IF ShouldFire(now[p], last) THEN "find"
                                                              ELSE "select"]
    BY <1>5 DEF Decide
  <2>2. last \in Nat /\ lastFire <= last
    <3>1. last = Later(memory[p], lastFire) /\ memory[p] \in Nat
      BY <2>1, ClockType DEF Known, Answers
    <3> QED BY <1>0, <3>1 DEF Later
  <2>3. ASSUME NEW k \in recorded, ShouldFire(now[p], last) PROVE k * Minute + Every <= now[p]
    <3>1. 0 < k /\ k <= last /\ last # 0 /\ k \in Nat
      BY <1>0, <2>2 DEF FireInv, Never
    <3>2. now[p] >= last * Minute + Every
      <4>1. CASE Every # 0
        BY <2>3, <3>1, <4>1 DEF ShouldFire, Never
      <4>2. CASE Every = 0
        <5>1. now[p] >= last * Minute + Guard /\ Guard \in Nat
          BY <2>3, <3>1, CronAssumption DEF ShouldFire, Never
        <5>2. last * Minute \in Nat
          BY <1>0, <2>2
        <5> QED BY <1>0, <4>2, <5>1, <5>2
      <4> QED BY <4>1, <4>2
    <3>3. k * Minute <= last * Minute /\ k * Minute \in Nat /\ last * Minute \in Nat
      BY <1>0, <2>2, <3>1, MinuteBounds
    <3> QED BY <1>0, <3>2, <3>3
  <2>4. \A q \in Schedulers : q = p
    BY AloneSame
  <2>5. Found(p)' => ShouldFire(now[p], last)
    BY <2>1 DEF Found
  <2> QED BY <1>5, <2>3, <2>4, <2>5 DEF Decide, FireInv
<1>6. ASSUME NEW p \in Schedulers, Persist(p) PROVE FireInv'
  <2>1. PICK m \in MinuteNos : m = MinuteOf(now[p])
    BY ClockType
  <2>2. /\ phase'[p] = "select" /\ \A q \in Schedulers : q = p
    BY <1>6, AloneSame DEF Persist
  <2>3. CASE lastFire' = m /\ recorded' = recorded \cup {m}
    <3>1. now[p] >= Minute /\ \A k \in recorded : k * Minute + Every <= now[p]
      BY <1>6 DEF Persist, FireInv, Found
    <3>2. \A k \in recorded : k <= m
      <4> SUFFICES ASSUME NEW k \in recorded PROVE k <= m
        OBVIOUS
      <4>1. k * Minute \in Nat /\ k * Minute <= now[p]
        BY <1>0, <3>1
      <4>2. now[p] \in Clock /\ k \in Nat
        BY <1>0
      <4>3. k <= MinuteOf(now[p])
        BY <4>1, <4>2, MinuteBounds
      <4> QED BY <2>1, <4>3
    <3>3. 0 < m /\ m \in Nat
      <4>1. now[p] \in Clock
        OBVIOUS
      <4>2. MinuteOf(now[p]) >= 1
        BY <3>1, <4>1, MinuteBounds
      <4>3. m \in Nat
        BY ClockType
      <4> QED BY <2>1, <4>2, <4>3
    <3> QED BY <1>6, <2>2, <2>3, <3>2, <3>3 DEF Persist, FireInv, Found, Never
  <2>4. CASE UNCHANGED <<lastFire, recorded>>
    BY <1>6, <2>2, <2>4 DEF Persist, FireInv, Found
  <2> QED BY <1>6, <2>1, <2>3, <2>4 DEF Persist
<1>7. ASSUME NEW m \in MinuteNos, Settle(m) PROVE FireInv'
  BY <1>1, <1>7 DEF Settle, Found
<1>8. ASSUME Tick PROVE FireInv'
  <2>1. clock' = clock + 1 /\ UNCHANGED <<lastFire, recorded, phase, now>>
    BY <1>8 DEF Tick
  <2>2. \A p \in Schedulers : buffer'[p] \in {buffer[p], clock + 1}
    BY <1>8 DEF Tick
  <2>3. \A p \in Schedulers : buffer'[p] # 0 => buffer'[p] >= Minute
    BY <1>0, <2>2 DEF FireInv
  <2> QED BY <1>0, <2>1, <2>3 DEF FireInv, Found
<1>9. ASSUME UNCHANGED vars PROVE FireInv'
  BY <1>1, <1>9 DEF vars, Found
<1> QED BY <1>2, <1>3, <1>4, <1>5, <1>6, <1>7, <1>8, <1>9 DEF Next, Step

\* Types alone need no assumption on what the database refuses.
LEMMA TypeCorrect == Spec => []TypeOK
BY TypeInit, TypeStep, PTL DEF Spec

\* A scheduler that is alone on its database, and can read the last fire time,
\* fires an "every <d>" job in a minute only when d has passed within it since
\* every recorded fire, over any restarts, refused writes and waiting ticks.
THEOREM RecordedFiresHold ==
    ASSUME "read" \notin Refused, Cardinality(Schedulers) <= 1
    PROVE  Spec => RecordedFireHolds
<1>1. Init => FireInv
  BY CronAssumption DEF Init, FireInv, Found
<1>2. TypeOK /\ FireInv /\ [Next]_vars => FireInv'
  BY FireStep
<1>3. ASSUME TypeOK, FireInv, [Next]_vars, NEW m \in MinuteNos, runs'[m] > runs[m],
             NEW k \in recorded
      PROVE  k * Minute + Every < (m + 1) * Minute
  <2>1. runs \in [MinuteNos -> Nat]
    BY <1>3 DEF TypeOK
  <2>2. PICK p \in Schedulers : Insert(p)
    <3>1. CASE UNCHANGED runs
      BY <1>3, <2>1, <3>1
    <3> QED BY <1>3, <3>1 DEF Next, Step, Start, Receive, Retire, Decide, Find, EnqueueFails,
                              Persist, Crash, Settle, Tick, vars, table
  <2>3. m = MinuteOf(now[p])
    BY <1>3, <2>1, <2>2 DEF Insert
  <2>4. k * Minute + Every <= now[p]
    BY <1>3, <2>2 DEF Insert, FireInv, Found
  <2>5. now[p] \in Clock /\ now[p] < (m + 1) * Minute
    BY <1>3, <2>3, MinuteBounds DEF TypeOK
  <2>6. k \in Nat /\ m \in Nat /\ Minute \in Nat /\ Every \in Nat /\ now[p] \in Nat
    BY <1>3, <2>5, ClockType, CronAssumption DEF TypeOK
  <2> QED BY <2>4, <2>5, <2>6
<1>4. TypeOK /\ FireInv /\ [Next]_vars =>
        [\A m \in MinuteNos : runs'[m] > runs[m] =>
           \A k \in recorded : k * Minute + Every < (m + 1) * Minute]_vars
  BY <1>3
<1> QED BY <1>1, <1>2, <1>4, TypeCorrect, PTL DEF Spec, RecordedFireHolds
=============================================================================
