-------------------------- MODULE MCCronScheduler --------------------------
(***************************************************************************)
(* Instances of CronScheduler for TLC. A minute has three parts, the last  *)
(* of which lies beyond the 55 seconds of cronShouldFire.                  *)
(***************************************************************************)
EXTENDS CronScheduler, TLC

CONSTANTS s1, s2, s3, alone, sibling

\* One process that reloads, with a sibling on the same database.
Cluster == s1 :> alone @@ s2 :> alone @@ s3 :> sibling
\* One process that reloads.
Reload == s1 :> alone @@ s2 :> alone
\* One scheduler that is alone on its database.
Solo == s1 :> alone

\* What a stopped scheduler left behind plays no part any more.
SchedulerView(p) ==
    IF phase[p] = "off" THEN <<"off">>
    ELSE <<phase[p], memory[p], now[p], bell[p], buffer[p], p \in retired>>

View == <<clock, table, [p \in Schedulers |-> SchedulerView(p)]>>

Peers == Permutations({s1, s2})
=============================================================================
