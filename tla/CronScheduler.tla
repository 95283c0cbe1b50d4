--------------------------- MODULE CronScheduler ---------------------------
(***************************************************************************)
(* The cron scheduler of src/cron.go for one cron job: ticker goroutines   *)
(* that decide from the last fire time whether the job is due, queue a row *)
(* keyed by the minute with EnqueueCronJob of src/jobs.go, and record the  *)
(* fire in _benmore_cron_state. Scheduler goroutines overlap when a reload *)
(* retires one in the middle of a tick and when two processes share the    *)
(* database. Every SQL statement is one atomic step.                       *)
(*                                                                         *)
(* The clock counts parts of a minute; a minute number stands for the      *)
(* instant it begins, and minute 0 for "never".                            *)
(***************************************************************************)
EXTENDS Naturals, FiniteSets

CONSTANTS
    Schedulers,  \* scheduler goroutine slots
    Process,     \* Process[p]: the process p runs in; a reload retires its peers
    Minute,      \* parts of a minute
    Guard,       \* the 55 seconds of cronShouldFire, in parts
    Every,       \* "every <d>", in parts, or 0 for a five-field schedule
    Matching,    \* the minutes the five fields match
    Refused,     \* the statements the database may refuse
    LastMinute   \* bound: the clock stops at the end of this minute

Statements == {"hydrate", "read", "find", "enqueue", "persist"}
Never      == 0
Clock      == 0 .. (LastMinute + 1) * Minute - 1
MinuteOf(t) == t \div Minute
MinuteNos  == 0 .. LastMinute

ASSUME CronAssumption ==
    /\ IsFiniteSet(Schedulers)
    /\ Minute \in Nat \ {0} /\ Guard \in 1 .. Minute
    /\ Every \in Nat /\ Matching \subseteq Nat /\ Refused \subseteq Statements
    /\ LastMinute \in Nat \ {0}

VARIABLES
    clock,
    runs,      \* runs[m]: rows queued under the unique key of minute m
    live,      \* the minutes whose latest row is pending or running
    lastFire,  \* the row of _benmore_cron_state
    phase,     \* what each scheduler goroutine is doing
    memory,    \* its in-memory lastFire
    now,       \* the time its current tick carries
    bell,      \* when its ticker rings next
    buffer,    \* the tick waiting in its channel, or 0
    retired,   \* the schedulers whose CronStop is closed
    recorded   \* history, read by properties only: the fires ever recorded

table     == <<runs, live, lastFire, recorded>>
scheduler == <<phase, memory, now, bell, buffer, retired>>
vars      == <<clock, table, scheduler>>

Phases == {"off", "select", "tick", "find", "insert", "persist"}

TypeOK ==
    /\ clock \in Clock
    /\ runs \in [MinuteNos -> Nat]
    /\ live \subseteq MinuteNos
    /\ lastFire \in MinuteNos
    /\ phase \in [Schedulers -> Phases]
    /\ memory \in [Schedulers -> MinuteNos]
    /\ now \in [Schedulers -> Clock]
    /\ bell \in [Schedulers -> Nat]
    /\ buffer \in [Schedulers -> Clock]
    /\ retired \subseteq Schedulers
    /\ recorded \subseteq MinuteNos

Init ==
    /\ clock = Minute
    /\ runs = [m \in MinuteNos |-> 0]
    /\ live = {}
    /\ lastFire = Never
    /\ phase = [p \in Schedulers |-> "off"]
    /\ memory = [p \in Schedulers |-> Never]
    /\ now = [p \in Schedulers |-> 0]
    /\ bell = [p \in Schedulers |-> 0]
    /\ buffer = [p \in Schedulers |-> 0]
    /\ retired = {}
    /\ recorded = {}

-----------------------------------------------------------------------------
\* The refused statements leave their caller with nothing.
Answers(statement, value, nothing) ==
    {value} \cup (IF statement \in Refused THEN {nothing} ELSE {})

Later(a, b) == IF a > b THEN a ELSE b

\* cronShouldFire: not within 55 seconds of the last fire; then the interval
\* since it, or the five fields against the minute.
ShouldFire(t, last) ==
    /\ last # Never => t >= last * Minute + Guard
    /\ IF Every # 0 THEN last = Never \/ t >= last * Minute + Every
       ELSE MinuteOf(t) \in Matching

\* StartCronScheduler, at boot or by a reload: retire the peers, read the last
\* fire time, start the ticker, and tick at once.
Start(p) ==
    /\ phase[p] = "off"
    /\ \E last \in Answers("hydrate", lastFire, Never) :
         memory' = [memory EXCEPT ![p] = last]
    /\ phase' = [phase EXCEPT ![p] = "tick"]
    /\ now' = [now EXCEPT ![p] = clock]
    /\ bell' = [bell EXCEPT ![p] = clock + Minute]
    /\ buffer' = [buffer EXCEPT ![p] = 0]
    /\ retired' = {q \in Schedulers \ {p} : \/ q \in retired
                                            \/ Process[q] = Process[p]}
    /\ UNCHANGED <<clock, table>>

\* The select of the loop: the next tick, or the closed stop channel.
Receive(p) ==
    /\ phase[p] = "select"
    /\ buffer[p] # 0
    /\ phase' = [phase EXCEPT ![p] = "tick"]
    /\ now' = [now EXCEPT ![p] = buffer[p]]
    /\ buffer' = [buffer EXCEPT ![p] = 0]
    /\ UNCHANGED <<clock, table, memory, bell, retired>>

Retire(p) ==
    /\ phase[p] = "select"
    /\ p \in retired
    /\ phase' = [phase EXCEPT ![p] = "off"]
    /\ UNCHANGED <<clock, table, memory, now, bell, buffer, retired>>

\* tick, up to cronShouldFire. Another scheduler may have fired since this one
\* hydrated, so the recorded fire is read again. Variant: it is not
\* (RecordedFireHolds).
KnownFromMemory(p) == {memory[p]}

Known(p) == {Later(memory[p], read) : read \in Answers("read", lastFire, Never)}

Decide(p) ==
    /\ phase[p] = "tick"
    /\ \E last \in Known(p) :
         /\ memory' = [memory EXCEPT ![p] = last]
         /\ phase' = [phase EXCEPT ![p] = IF ShouldFire(now[p], last) THEN "find"
                                          ELSE "select"]
    /\ UNCHANGED <<clock, table, now, bell, buffer, retired>>

\* findJobByUniqueKey with anyStatus. A refused SELECT counts as "no such row".
\* Variant: it matches active rows only (DuplicatesBounded).
QueuedActive(m) == m \in live

Queued(m) == runs[m] > 0

Find(p) ==
    /\ phase[p] = "find"
    /\ \E found \in Answers("find", Queued(MinuteOf(now[p])), FALSE) :
         phase' = [phase EXCEPT ![p] = IF found THEN "persist" ELSE "insert"]
    /\ UNCHANGED <<clock, table, memory, now, bell, buffer, retired>>

\* The INSERT. The partial unique index knows active rows only; a refusal by it
\* counts as success once the winner's row is found.
Insert(p) ==
    LET m == MinuteOf(now[p]) IN
    /\ phase[p] = "insert"
    /\ phase' = [phase EXCEPT ![p] = "persist"]
    /\ IF m \in live THEN UNCHANGED <<runs, live>>
       ELSE /\ runs' = [runs EXCEPT ![m] = @ + 1]
            /\ live' = live \cup {m}
    /\ UNCHANGED <<clock, lastFire, recorded, memory, now, bell, buffer, retired>>

\* The enqueue fails for good: nothing is recorded and the tick moves on.
EnqueueFails(p) ==
    /\ "enqueue" \in Refused
    /\ phase[p] = "insert"
    /\ phase' = [phase EXCEPT ![p] = "select"]
    /\ UNCHANGED <<clock, table, memory, now, bell, buffer, retired>>

\* persistCronFire, best effort, then the in-memory copy.
Persist(p) ==
    LET m == MinuteOf(now[p]) IN
    /\ phase[p] = "persist"
    /\ \/ lastFire' = m /\ recorded' = recorded \cup {m}
       \/ "persist" \in Refused /\ UNCHANGED <<lastFire, recorded>>
    /\ memory' = [memory EXCEPT ![p] = m]
    /\ phase' = [phase EXCEPT ![p] = "select"]
    /\ UNCHANGED <<clock, runs, live, now, bell, buffer, retired>>

\* A process dies with all its schedulers.
Crash(p) ==
    /\ phase[p] # "off"
    /\ phase' = [q \in Schedulers |-> IF Process[q] = Process[p] THEN "off"
                                      ELSE phase[q]]
    /\ UNCHANGED <<clock, table, memory, now, bell, buffer, retired>>

\* A job worker completes or fails the row of minute m (JobQueue has the rest).
Settle(m) ==
    /\ m \in live
    /\ live' = live \ {m}
    /\ UNCHANGED <<clock, runs, lastFire, recorded, scheduler>>

\* Time passes. A ticker rings once a minute; its channel holds one tick, and
\* a tick that finds it full is dropped.
Rings(p) == phase[p] # "off" /\ bell[p] = clock + 1

Tick ==
    /\ clock + 1 \in Clock
    /\ clock' = clock + 1
    /\ bell' = [p \in Schedulers |-> IF Rings(p) THEN bell[p] + Minute ELSE bell[p]]
    /\ buffer' = [p \in Schedulers |-> IF Rings(p) /\ buffer[p] = 0 THEN clock + 1
                                       ELSE buffer[p]]
    /\ UNCHANGED <<table, phase, memory, now, retired>>

Step(p) ==
    \/ Start(p) \/ Receive(p) \/ Retire(p) \/ Decide(p) \/ Find(p) \/ Insert(p)
    \/ EnqueueFails(p) \/ Persist(p) \/ Crash(p)

Next == (\E p \in Schedulers : Step(p)) \/ (\E m \in MinuteNos : Settle(m)) \/ Tick

Spec == Init /\ [][Next]_vars

-----------------------------------------------------------------------------
(***************************************************************************)
(* Properties.                                                             *)
(***************************************************************************)

\* A minute fires at most once: what EnqueueCronJob and its any-status lookup
\* say of the minute-specific key. It holds for a scheduler that is alone on
\* its database, whatever crashes, lost last_fire writes and late ticks do.
FiredOncePerMinute == \A m \in MinuteNos : runs[m] <= 1

\* A minute fires no more often than there are schedulers that overlap: a
\* duplicate needs two of them between the lookup and the INSERT at once, and
\* no restart adds one.
DuplicatesBounded == \A m \in MinuteNos : runs[m] <= Cardinality(Schedulers)

\* The invariant behind it: a scheduler about to insert counts as a row.
Inserting(m) == {p \in Schedulers : phase[p] = "insert" /\ MinuteOf(now[p]) = m}

DuplicateInv ==
    \A m \in MinuteNos :
        runs[m] > 0 => runs[m] + Cardinality(Inserting(m)) <= Cardinality(Schedulers)

CronInv == TypeOK /\ DuplicateInv

\* The persisted last_fire outlives restarts: an "every <d>" job fires in minute
\* m only when d has passed, within m, since every fire that was recorded. (A
\* crash between the enqueue and the record may still repeat a fire.)
RecordedFireHolds ==
    [][\A m \in MinuteNos : runs'[m] > runs[m] =>
         \A k \in recorded : k * Minute + Every < (m + 1) * Minute]_vars

\* The invariant behind it, of a scheduler that is alone on its database: the
\* persisted last_fire is the latest fire recorded, and once a tick is found due
\* every recorded fire lies far enough behind it, since nobody else records one
\* before the row is queued. No tick carries a time before the first minute, so
\* that "never" is no minute's number.
Found(p) == phase[p] \in {"find", "insert", "persist"}

FireInv ==
    /\ \A k \in recorded : Never < k /\ k <= lastFire
    /\ clock >= Minute
    /\ \A p \in Schedulers :
          /\ phase[p] # "off" => now[p] >= Minute
          /\ buffer[p] # 0 => buffer[p] >= Minute
          /\ Found(p) => \A k \in recorded : k * Minute + Every <= now[p]
=============================================================================
