--------------------------- MODULE CircuitBreaker ---------------------------
(***************************************************************************)
(* The breaker in front of one outside host (src/circuitbreaker.go) and    *)
(* the deliveries that share it: webhook jobs (src/webhooks.go), hook      *)
(* webhooks (src/hooks.go) and the api steps of flows (src/flows_api.go).  *)
(* Each asks CheckCircuit, sends without holding the mutex, and records    *)
(* what came of it. The circuit is memory of the process. Time is counted  *)
(* in ticks; a send is cut off by its client's timeout.                    *)
(***************************************************************************)
EXTENDS Naturals

CONSTANTS
    Deliveries,
    Threshold, Cooldown, ProbeEvery, SendTimeout,
    MaxClock       \* bound: how many ticks pass

ASSUME BreakerAssumption ==
    /\ Threshold \in Nat \ {0} /\ Cooldown \in Nat /\ ProbeEvery \in Nat
    /\ ProbeEvery <= Cooldown
    /\ SendTimeout \in Nat /\ MaxClock \in Nat

VARIABLES
    circuit,       \* closed, open or half-open ...
    failures, lastFailure, lastAttempt,
    clock,
    sending,       \* what a delivery has under way: nothing, a plain send or a probe
    started,       \*   since when,
    failedBefore   \*   and when the failure before it was recorded

breakerVars == <<circuit, failures, lastFailure, lastAttempt, clock, sending, started,
                 failedBefore>>

BreakerTypeOK ==
    /\ circuit \in {"closed", "open", "half-open"}
    /\ failures \in Nat /\ lastFailure \in Nat /\ lastAttempt \in Nat /\ clock \in Nat
    /\ sending \in [Deliveries -> {"none", "plain", "probe"}]
    /\ started \in [Deliveries -> Nat] /\ failedBefore \in [Deliveries -> Nat]

BreakerInit ==
    /\ circuit = "closed" /\ failures = 0 /\ lastFailure = 0 /\ lastAttempt = 0 /\ clock = 0
    /\ sending = [d \in Deliveries |-> "none"]
    /\ started = [d \in Deliveries |-> 0]
    /\ failedBefore = [d \in Deliveries |-> 0]

Sends(d, how) ==
    /\ sending[d] = "none"
    /\ sending' = [sending EXCEPT ![d] = how]
    /\ started' = [started EXCEPT ![d] = clock]
    /\ failedBefore' = [failedBefore EXCEPT ![d] = lastFailure]

Finishes(d) ==
    /\ sending[d] # "none"
    /\ sending' = [sending EXCEPT ![d] = "none"]
    /\ UNCHANGED <<started, failedBefore>>

\* CheckCircuit of a host in good standing.
Admit(d) ==
    /\ circuit = "closed" /\ Sends(d, "plain")
    /\ UNCHANGED <<circuit, failures, lastFailure, lastAttempt, clock>>

\* The first caller after the cooldown probes the host.
CooledDown == circuit = "open" /\ clock - lastFailure > Cooldown

\* Variant: whoever asks while the circuit is half-open probes.
ProbeAnyTime == circuit = "half-open"

\* A probe that has been out for a while does not hold up the next.
ProbeDue == circuit = "half-open" /\ clock - lastAttempt >= ProbeEvery

AdmitProbe(d) ==
    /\ CooledDown \/ ProbeDue
    /\ Sends(d, "probe")
    /\ circuit' = "half-open" /\ lastAttempt' = clock
    /\ UNCHANGED <<failures, lastFailure, clock>>

\* RecordSuccess. The answer may be to a send of long before the trip.
Succeed(d) ==
    /\ Finishes(d)
    /\ circuit' = "closed" /\ failures' = 0
    /\ UNCHANGED <<lastFailure, lastAttempt, clock>>

\* Variant: a failed probe leaves the circuit half-open.
TripsAtThreshold == circuit = "closed" /\ failures' >= Threshold

\* RecordFailure: any failure reopens a half-open circuit.
Trips == circuit = "half-open" \/ (circuit = "closed" /\ failures' >= Threshold)

Fail(d) ==
    /\ Finishes(d)
    /\ failures' = failures + 1 /\ lastFailure' = clock
    /\ circuit' = IF Trips THEN "open" ELSE circuit
    /\ UNCHANGED <<lastAttempt, clock>>

\* A payload that cannot be opened or a request that cannot be signed ends the
\* delivery after the check with nothing recorded.
Abandon(d) ==
    /\ Finishes(d)
    /\ UNCHANGED <<circuit, failures, lastFailure, lastAttempt, clock>>

\* No send is out longer than its timeout.
BreakerTick ==
    /\ clock < MaxClock
    /\ \A d \in Deliveries : sending[d] # "none" => clock - started[d] < SendTimeout
    /\ clock' = clock + 1
    /\ UNCHANGED <<circuit, failures, lastFailure, lastAttempt, sending, started, failedBefore>>

\* The process starts anew, with no circuit and nothing under way.
BreakerRestart ==
    /\ circuit # "closed"
    /\ circuit' = "closed" /\ failures' = 0 /\ lastFailure' = 0 /\ lastAttempt' = 0
    /\ sending' = [d \in Deliveries |-> "none"]
    /\ UNCHANGED <<clock, started, failedBefore>>

BreakerNext ==
    \/ \E d \in Deliveries : Admit(d) \/ AdmitProbe(d) \/ Succeed(d) \/ Fail(d) \/ Abandon(d)
    \/ BreakerTick \/ BreakerRestart

BreakerSpec == BreakerInit /\ [][BreakerNext]_breakerVars

-----------------------------------------------------------------------------
(* Properties. *)

Probing(d) == sending[d] = "probe"

\* Whatever late answers do to the circuit meanwhile, two probes under way at
\* once were let through at least ProbeEvery apart.
ProbesSpaced ==
    \A d, e \in Deliveries :
        d # e /\ Probing(d) /\ Probing(e) =>
            started[d] >= started[e] + ProbeEvery \/ started[e] >= started[d] + ProbeEvery

\* A probe goes out only after the host was left alone for the whole cooldown:
\* no failure, not even that of an earlier probe, was recorded within it.
ProbesFollowQuiet ==
    \A d \in Deliveries : Probing(d) => started[d] > failedBefore[d] + Cooldown

-----------------------------------------------------------------------------
(* What the proofs need besides. *)

BreakerInv ==
    /\ BreakerTypeOK /\ ProbesSpaced /\ ProbesFollowQuiet
    /\ lastFailure <= clock /\ lastAttempt <= clock
    /\ \A d \in Deliveries : Probing(d) => started[d] <= lastAttempt
    /\ circuit = "open" => lastFailure >= lastAttempt
    /\ circuit = "half-open" => lastAttempt > lastFailure + Cooldown
    /\ circuit = "closed" <=> failures < Threshold
=============================================================================
