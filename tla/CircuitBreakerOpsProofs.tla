----------------------- MODULE CircuitBreakerOpsProofs -----------------------
(***************************************************************************)
(* What the operators of the circuit breaker do to its fields, for any     *)
(* threshold and any size of the generation counter: the lemmas that the   *)
(* proofs about the breaker and about the pooled client share.             *)
(***************************************************************************)
EXTENDS CircuitBreakerOps, TLAPS

(* Every admission of a probe draws a token that is neither 0 nor the      *)
(* wildcard (bumpProbeGen), at the wrap too.                               *)
LEMMA BumpAvoidsReserved ==
    ASSUME NEW gen \in 0 .. AnyProbe
    PROVE  BumpProbeGen(gen) \in 1 .. (AnyProbe - 1)
BY AnyProbeAssumption DEF BumpProbeGen

(* allow keeps the fields well-typed; its token identifies the probe it    *)
(* admits, and is 0 when the request is not a probe.                       *)
LEMMA AllowFacts ==
    ASSUME NEW b \in Breakers, Admits(b)
    PROVE  /\ Allow(b) \in Breakers
           /\ ProbeToken(b) \in 0 .. (AnyProbe - 1)
           /\ AdmitsProbe(b) =>
                /\ Allow(b).state = "halfopen"
                /\ ProbeToken(b) = BumpProbeGen(b.probeGen)
                /\ Allow(b).probeGen = BumpProbeGen(b.probeGen)
                /\ Allow(b).probeStarted = "recent"
           /\ ~AdmitsProbe(b) =>
                Allow(b) = b /\ ProbeToken(b) = 0 /\ b.state = "closed"
<1>1. b.probeGen \in 0 .. AnyProbe
  BY AnyProbeAssumption DEF Breakers
<1>2. BumpProbeGen(b.probeGen) \in 1 .. (AnyProbe - 1)
  BY <1>1, BumpAvoidsReserved
<1>3. CASE ~AdmitsProbe(b)
  BY <1>3, AnyProbeAssumption DEF Allow, ProbeToken, Admits
<1>4. CASE AdmitsProbe(b)
  <2>1. Allow(b) = [b EXCEPT !.state = "halfopen", !.probeStarted = "recent",
                             !.probeGen = BumpProbeGen(b.probeGen)]
    BY <1>4 DEF Allow
  <2>2. /\ Allow(b) \in Breakers
        /\ Allow(b).state = "halfopen"
        /\ Allow(b).probeGen = BumpProbeGen(b.probeGen)
        /\ Allow(b).probeStarted = "recent"
    <3>1. BumpProbeGen(b.probeGen) \in 0 .. (AnyProbe - 1)
      BY <1>2, AnyProbeAssumption
    <3>2. "halfopen" \in States /\ "recent" \in Stamps
      BY DEF States, Stamps
    <3> QED
      BY <2>1, <3>1, <3>2 DEF Breakers
  <2>3. ProbeToken(b) = BumpProbeGen(b.probeGen)
    BY <1>4, <2>2 DEF ProbeToken
  <2> QED
    BY <1>4, <1>2, <2>2, <2>3, AnyProbeAssumption
<1> QED
  BY <1>3, <1>4

(* What the three reports do to the fields, and what they leave alone.      *)
LEMMA SuccessFacts ==
    ASSUME NEW b \in Breakers, NEW tok \in Tokens
    PROVE  /\ RecordSuccess(b, tok) \in Breakers
           /\ RecordSuccess(b, tok).probeGen = b.probeGen
           /\ RecordSuccess(b, tok).probeStarted = b.probeStarted
           /\ RecordSuccess(b, tok).failures \in {0, b.failures}
           /\ RecordSuccess(b, tok).state = b.state \/
                 /\ b.state = "halfopen" /\ tok \in {b.probeGen, AnyProbe}
                 /\ RecordSuccess(b, tok).state = "closed"
           /\ RecordSuccess(b, tok).state = "closed" =>
                 RecordSuccess(b, tok).failures = 0
<1>1. CASE Ignores(b, tok)
  BY <1>1 DEF RecordSuccess, Ignores
<1>2. CASE ~Ignores(b, tok) /\ b.state = "halfopen"
  <2>1. RecordSuccess(b, tok) = [b EXCEPT !.failures = 0, !.state = "closed"]
    BY <1>2 DEF RecordSuccess
  <2>2. 0 \in 0 .. Threshold /\ "closed" \in States
    BY ThresholdAssumption DEF States
  <2> QED
    BY <1>2, <2>1, <2>2 DEF Ignores, Breakers
<1>3. CASE ~Ignores(b, tok) /\ b.state # "halfopen"
  <2>1. RecordSuccess(b, tok) = [b EXCEPT !.failures = 0]
    BY <1>3 DEF RecordSuccess, Breakers
  <2> QED
    BY <1>3, <2>1, ThresholdAssumption DEF Breakers
<1> QED
  BY <1>1, <1>2, <1>3

LEMMA FailureFacts ==
    ASSUME NEW b \in Breakers, NEW tok \in Tokens
    PROVE  /\ RecordFailure(b, tok) \in Breakers
           /\ RecordFailure(b, tok).probeGen = b.probeGen
           /\ RecordFailure(b, tok).probeStarted = b.probeStarted
           /\ RecordFailure(b, tok).state = b.state \/
                 /\ RecordFailure(b, tok).state = "open"
                 /\ \/ b.state = "closed"
                    \/ b.state = "halfopen" /\ tok \in {b.probeGen, AnyProbe}
           /\ RecordFailure(b, tok).state = "closed" =>
                 RecordFailure(b, tok).failures < Threshold
<1>1. CASE Ignores(b, tok)
  BY <1>1 DEF RecordFailure, Ignores
<1>2. CASE ~Ignores(b, tok)
  <2>1. CountFailure(b.failures) \in 0 .. Threshold
    BY ThresholdAssumption DEF CountFailure, Breakers
  <2>2. CASE FailureOpens(b)
    <3>1. RecordFailure(b, tok) =
            [b EXCEPT !.failures = CountFailure(b.failures),
                      !.openedAt = "recent", !.state = "open"]
      BY <1>2, <2>2 DEF RecordFailure
    <3> QED
      BY <1>2, <2>1, <2>2, <3>1
      DEF FailureOpens, Ignores, Breakers, States, Stamps
  <2>3. CASE ~FailureOpens(b)
    <3>1. RecordFailure(b, tok) = [b EXCEPT !.failures = CountFailure(b.failures)]
      BY <1>2, <2>3 DEF RecordFailure, Breakers
    <3> QED
      BY <2>1, <2>3, <3>1, ThresholdAssumption DEF FailureOpens, Breakers
  <2> QED
    BY <2>2, <2>3
<1> QED
  BY <1>1, <1>2

LEMMA ReleaseFacts ==
    ASSUME NEW b \in Breakers, NEW tok \in Tokens
    PROVE  /\ ReleaseProbe(b, tok) \in Breakers
           /\ ReleaseProbe(b, tok).probeGen = b.probeGen
           /\ ReleaseProbe(b, tok).state = b.state
           /\ ReleaseProbe(b, tok).failures = b.failures
           /\ ReleaseProbe(b, tok).probeStarted = b.probeStarted \/
                 /\ b.state = "halfopen" /\ tok = b.probeGen
                 /\ ReleaseProbe(b, tok).probeStarted = "zero"
<1>1. CASE tok # 0 /\ b.state = "halfopen" /\ b.probeGen = tok
  <2>1. ReleaseProbe(b, tok) = [b EXCEPT !.probeStarted = "zero"]
    BY <1>1 DEF ReleaseProbe
  <2> QED
    BY <1>1, <2>1 DEF Breakers, Stamps
<1>2. CASE ~(tok # 0 /\ b.state = "halfopen" /\ b.probeGen = tok)
  BY <1>2 DEF ReleaseProbe
<1> QED
  BY <1>1, <1>2
==============================================================================
