-------------------------- MODULE CircuitBreakerOps --------------------------
(***************************************************************************)
(* The circuit breaker of circuitbreaker.go as operators on its record of  *)
(* fields.  Every operator is the critical section of one method: the      *)
(* methods hold cb.mu from their first read to their last write, so each   *)
(* is one atomic step of whoever calls it.                                 *)
(*                                                                         *)
(* A time stamp is kept only as what time.Since(stamp) >= cooldown can     *)
(* tell: "recent" (less than a cooldown old), "old", or "zero" (the zero   *)
(* time.Time, older than any cooldown).  Failures are counted up to        *)
(* Threshold: the code only ever compares the count with the threshold.    *)
(***************************************************************************)
EXTENDS Integers

CONSTANTS
    Threshold,   \* consecutive failures that open the circuit
    AnyProbe     \* the wildcard token, the largest uint64 in the code

ASSUME ThresholdAssumption == Threshold \in Nat \ {0}
ASSUME AnyProbeAssumption == AnyProbe \in Nat /\ AnyProbe > 1

States == {"closed", "open", "halfopen"}
Stamps == {"zero", "recent", "old"}
Tokens == 0 .. AnyProbe

Breakers == [state : States, failures : 0 .. Threshold, openedAt : Stamps,
             probeStarted : Stamps, probeGen : 0 .. (AnyProbe - 1)]

NewCircuitBreaker ==
    [state |-> "closed", failures |-> 0, openedAt |-> "zero",
     probeStarted |-> "zero", probeGen |-> 0]

CooldownElapsed(stamp) == stamp # "recent"

(* Faulty: the wrap lands on the reserved values. *)
BumpProbeGenOntoReserved(gen) == IF gen = AnyProbe THEN 0 ELSE gen + 1

(* The next probe generation: never 0 (no probe) and never the wildcard. *)
BumpProbeGen(gen) ==
    LET next == IF gen = AnyProbe THEN 0 ELSE gen + 1
    IN  IF next \in {0, AnyProbe} THEN 1 ELSE next

(* Faulty: a half-open circuit waits for a report, however long it takes. *)
AdmitsProbeOnlyWhenOpen(b) == b.state = "open" /\ CooldownElapsed(b.openedAt)

(* allow admits a probe: the request that tests a circuit that is not closed. *)
AdmitsProbe(b) ==
    \/ b.state = "open" /\ CooldownElapsed(b.openedAt)
    \/ b.state = "halfopen" /\ CooldownElapsed(b.probeStarted)

Admits(b) == b.state = "closed" \/ AdmitsProbe(b)

(* Faulty: a replacement probe shares the generation of the one it replaces. *)
AllowWithoutBump(b) ==
    IF AdmitsProbe(b)
    THEN [b EXCEPT !.state = "halfopen", !.probeStarted = "recent",
                   !.probeGen = IF b.state = "open" THEN BumpProbeGen(@) ELSE @]
    ELSE b

(* The breaker after allow has admitted a request, and the token it returns. *)
Allow(b) ==
    IF AdmitsProbe(b)
    THEN [b EXCEPT !.state = "halfopen", !.probeStarted = "recent",
                   !.probeGen = BumpProbeGen(@)]
    ELSE b

ProbeToken(b) == IF AdmitsProbe(b) THEN Allow(b).probeGen ELSE 0

(* A half-open circuit ignores an outcome that is not its current probe's. *)
Ignores(b, tok) ==
    b.state = "halfopen" /\ tok # AnyProbe /\ tok # b.probeGen

(* Faulty: the probe's success closes the circuit and keeps the count. *)
RecordSuccessKeepsCount(b, tok) ==
    IF Ignores(b, tok) THEN b
    ELSE [b EXCEPT !.state = IF @ = "halfopen" THEN "closed" ELSE @]

(* Faulty: any success closes a half-open circuit. *)
RecordSuccessOfAnyone(b, tok) ==
    [b EXCEPT !.failures = 0, !.state = IF @ = "halfopen" THEN "closed" ELSE @]

RecordSuccess(b, tok) ==
    IF Ignores(b, tok) THEN b
    ELSE [b EXCEPT !.failures = 0,
                   !.state = IF @ = "halfopen" THEN "closed" ELSE @]

CountFailure(n) == IF n < Threshold THEN n + 1 ELSE n

FailureOpens(b) ==
    \/ b.state = "closed" /\ CountFailure(b.failures) >= Threshold
    \/ b.state = "halfopen"

(* Faulty: any failure re-opens a half-open circuit. *)
RecordFailureOfAnyone(b, tok) ==
    [b EXCEPT !.failures = CountFailure(@),
              !.openedAt = IF FailureOpens(b) THEN "recent" ELSE @,
              !.state = IF FailureOpens(b) THEN "open" ELSE @]

RecordFailure(b, tok) ==
    IF Ignores(b, tok) THEN b
    ELSE [b EXCEPT !.failures = CountFailure(@),
                   !.openedAt = IF FailureOpens(b) THEN "recent" ELSE @,
                   !.state = IF FailureOpens(b) THEN "open" ELSE @]

(* Faulty: whoever held a token re-arms whatever probe is current. *)
ReleaseProbeOfAnyone(b, tok) ==
    IF tok # 0 /\ b.state = "halfopen" THEN [b EXCEPT !.probeStarted = "zero"] ELSE b

ReleaseProbe(b, tok) ==
    IF tok # 0 /\ b.state = "halfopen" /\ b.probeGen = tok
    THEN [b EXCEPT !.probeStarted = "zero"]
    ELSE b

Reset(b) == [b EXCEPT !.failures = 0, !.state = "closed"]

(* The passage of time: a cooldown has gone by since the stamp was taken. *)
Age(stamp) == IF stamp = "recent" THEN "old" ELSE stamp
==============================================================================
