----------------------------- MODULE MCJobQueue -----------------------------
(***************************************************************************)
(* Instances of JobQueue for TLC. A submission names the kind, the project *)
(* and the unique key of a job, its max_attempts and its run_at.           *)
(***************************************************************************)
EXTENDS JobQueue, TLC

CONSTANTS p1, k1

Submit(kind, group, key, max, at) ==
    [kind |-> kind, group |-> group, key |-> key, max |-> max, runAt |-> at]

\* A project chain of three stages: the second row queued belongs before the
\* first, the third arrives a tick after boot. The first may be re-run.
ChainDef ==
    << Submit("cron", p1, NoKey, 2, 1), Submit("flow", p1, NoKey, 2, 0),
       Submit("flow", p1, NoKey, 1, 2) >>

\* Two submissions of one key, and a connector command's effect.
KeyDef ==
    << Submit("webhook", NoGroup, k1, 2, 1), Submit("flow", NoGroup, k1, 1, 1),
       Submit("effect", NoGroup, NoKey, 2, 1) >>

\* Two stages of one project, the first safe to re-run.
PairDef ==
    << Submit("idempotent", p1, NoKey, 2, 1), Submit("flow", p1, NoKey, 2, 0) >>

\* Every retry waits one tick, or 2^n ticks.
UnitBackoff == [n \in 0 .. 16 |-> 1]
DoublingBackoff == [n \in 0 .. 16 |-> 2 ^ n]

\* Two states that differ by a shift of the clock behave alike: the guards only
\* compare run_at values with each other (those of rows still to be queued
\* included), every instant with the clock, and a running lease with the fixed
\* `now` of a sweep. The view keeps exactly these comparisons, so the safety
\* runs need no bound on time.
Ahead(t) == IF t >= clock THEN t - clock + 1 ELSE 0

Stamp(j)    == IF status[j] = "absent" THEN Def[j].runAt ELSE runAt[j]
SlotNow(j)  == IF status[j] = "absent" THEN Def[j].runAt ELSE slot[j]

RowView(j) ==
    <<status[j], attempts[j], starts[j], retries[j], last[j],
      Ahead(Stamp(j)), {k \in Jobs : Stamp(k) < Stamp(j)},
      Ahead(SlotNow(j)), {k \in Jobs : SlotNow(k) < SlotNow(j)},
      IF status[j] = "pending" THEN Ahead(notBefore[j]) ELSE 0,
      IF status[j] = "running" THEN Ahead(lease[j]) ELSE 0>>

WorkerView(w) ==
    LET g == worker[w] IN
    <<g.phase, g.phase # "off" /\ stop[w] = "closed", g.stage, g.job, g.attempt,
      {j \in Jobs : g.phase = "sweep" /\ Orphaned(j, g.asOf)}>>

TimelessView ==
    <<[j \in Jobs |-> RowView(j)], [w \in Workers |-> WorkerView(w)], faults>>

WorkerSymmetry == Permutations(Workers)
=============================================================================
