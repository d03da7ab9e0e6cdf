------------------------- MODULE CircuitBreakerProofs -------------------------
(***************************************************************************)
(* Proofs about the circuit breaker, for any set of callers, any threshold *)
(* and any size of the generation counter.                                 *)
(***************************************************************************)
EXTENDS CircuitBreaker, CircuitBreakerOpsProofs, TLAPS

------------------------------------------------------------------------------

(* Every reachable state is well-typed: the count stays within Threshold    *)
(* and no generation is ever the wildcard.                                  *)
THEOREM TypeCorrect == Spec => []TypeOK
<1>1. Init => TypeOK
  BY AnyProbeAssumption, ThresholdAssumption
  DEF Init, TypeOK, NewCircuitBreaker, Breakers, States, Stamps, Tokens
<1>2. TypeOK /\ [Next]_vars => TypeOK'
  <2> SUFFICES ASSUME TypeOK, [Next]_vars PROVE TypeOK'
    OBVIOUS
  <2> USE DEF TypeOK
  <2>1. ASSUME NEW c \in Callers, Admit(c) PROVE TypeOK'
    <3>1. Allow(breaker) \in Breakers /\ ProbeToken(breaker) \in 0 .. (AnyProbe - 1)
      BY <2>1, AllowFacts DEF Admit
    <3> QED
      BY <2>1, <3>1, AnyProbeAssumption DEF Admit, Tokens
  <2>2. ASSUME NEW c \in Callers, Return(c), breaker' \in Breakers PROVE TypeOK'
    BY <2>2, AnyProbeAssumption DEF Return, Tokens
  <2>3. ASSUME NEW c \in Callers, Succeed(c) PROVE TypeOK'
    BY <2>2, <2>3, SuccessFacts DEF Succeed
  <2>4. ASSUME NEW c \in Callers, Fail(c) PROVE TypeOK'
    BY <2>2, <2>4, FailureFacts DEF Fail
  <2>5. ASSUME NEW c \in Callers, Release(c) PROVE TypeOK'
    BY <2>2, <2>5, ReleaseFacts DEF Release
  <2>6. ASSUME NEW c \in Callers, Abandon(c) PROVE TypeOK'
    BY <2>2, <2>6 DEF Abandon
  <2>7. CASE ResetBreaker
    <3>1. 0 \in 0 .. Threshold /\ "closed" \in States
      BY ThresholdAssumption DEF States
    <3>2. Reset(breaker) \in Breakers
      BY <3>1 DEF Reset, Breakers
    <3> QED
      BY <2>7, <3>2 DEF ResetBreaker
  <2>8. CASE AgeOpened
    BY <2>8 DEF AgeOpened, Age, Breakers, Stamps
  <2>9. CASE AgeProbe
    BY <2>9 DEF AgeProbe, Age, Breakers, Stamps
  <2>10. CASE UNCHANGED vars
    BY <2>10 DEF vars
  <2> QED
    BY <2>1, <2>3, <2>4, <2>5, <2>6, <2>7, <2>8, <2>9, <2>10 DEF Next
<1> QED
  BY <1>1, <1>2, PTL DEF Spec

------------------------------------------------------------------------------

(* A closed circuit is below its threshold in every reachable state.        *)
THEOREM ClosedIsBelowThreshold == Spec => []ClosedBelowThreshold
<1>1. Init => ClosedBelowThreshold
  BY ThresholdAssumption DEF Init, ClosedBelowThreshold, NewCircuitBreaker
<1>2. TypeOK /\ ClosedBelowThreshold /\ [Next]_vars => ClosedBelowThreshold'
  <2> SUFFICES ASSUME TypeOK, ClosedBelowThreshold, [Next]_vars
               PROVE  ClosedBelowThreshold'
    OBVIOUS
  <2> USE DEF TypeOK, ClosedBelowThreshold
  <2>1. ASSUME NEW c \in Callers, Admit(c) PROVE ClosedBelowThreshold'
    BY <2>1, AllowFacts DEF Admit
  <2>2. ASSUME NEW c \in Callers, Succeed(c) PROVE ClosedBelowThreshold'
    BY <2>2, SuccessFacts, ThresholdAssumption DEF Succeed
  <2>3. ASSUME NEW c \in Callers, Fail(c) PROVE ClosedBelowThreshold'
    BY <2>3, FailureFacts DEF Fail
  <2>4. ASSUME NEW c \in Callers, Release(c) PROVE ClosedBelowThreshold'
    BY <2>4, ReleaseFacts DEF Release
  <2>5. ASSUME NEW c \in Callers, Abandon(c) PROVE ClosedBelowThreshold'
    BY <2>5 DEF Abandon
  <2>6. CASE ResetBreaker
    BY <2>6, ThresholdAssumption DEF ResetBreaker, Reset, Breakers
  <2>7. CASE AgeOpened
    BY <2>7 DEF AgeOpened, Breakers
  <2>8. CASE AgeProbe
    BY <2>8 DEF AgeProbe, Breakers
  <2>9. CASE UNCHANGED vars
    BY <2>9 DEF vars
  <2> QED
    BY <2>1, <2>2, <2>3, <2>4, <2>5, <2>6, <2>7, <2>8, <2>9 DEF Next
<1> QED
  BY <1>1, <1>2, TypeCorrect, PTL DEF Spec

------------------------------------------------------------------------------

(* A request that returns takes its token with it and leaves the others.    *)
LEMMA ReturnKeepsDiscipline ==
    ASSUME TypeOK, TokenDiscipline, NEW c \in Callers, Return(c),
           breaker'.probeGen = breaker.probeGen,
           breaker'.state = "halfopen" => breaker.state = "halfopen"
    PROVE  TokenDiscipline'
BY DEF TypeOK, TokenDiscipline, Return

(* The tokens in flight identify probes in every reachable state.           *)
THEOREM TokensIdentifyProbes == Spec => []TokenDiscipline
<1>1. Init => TokenDiscipline
  BY DEF Init, TokenDiscipline, NewCircuitBreaker
<1>2. TypeOK /\ TokenDiscipline /\ [Next]_vars => TokenDiscipline'
  <2> SUFFICES ASSUME TypeOK, TokenDiscipline, [Next]_vars
               PROVE  TokenDiscipline'
    OBVIOUS
  <2>0. breaker \in Breakers /\ \A c \in inflight : token[c] \in Tokens
    BY DEF TypeOK
  <2>1. ASSUME NEW c \in Callers, Admit(c) PROVE TokenDiscipline'
    <3> DEFINE mine == IF c \in DirectCallers THEN AnyProbe ELSE ProbeToken(breaker)
    <3>1. /\ inflight' = inflight \union {c}
          /\ \A d \in inflight : d # c /\ d \in Callers /\ token'[d] = token[d]
          /\ token'[c] = mine
      BY <2>1 DEF Admit, TypeOK
    <3>2. /\ ProbeToken(breaker) \in 0 .. (AnyProbe - 1)
          /\ breaker'.state = "halfopen" => breaker'.probeGen # 0
      BY <2>0, <2>1, AllowFacts, BumpAvoidsReserved, AnyProbeAssumption
      DEF Admit, Breakers
    <3>3. ProbeToken(breaker) # 0 => \A d \in inflight : token[d] # ProbeToken(breaker)
      BY <2>0, <2>1, AllowFacts DEF Admit, NoLap
    <3>4. \A d \in inflight : token[d] = mine => mine \in {0, AnyProbe}
      BY <3>3
    <3>5. mine = AnyProbe <=> c \in DirectCallers
      BY <3>2, AnyProbeAssumption
    <3> HIDE DEF mine
    <3> QED
      BY <3>1, <3>2, <3>4, <3>5 DEF TokenDiscipline
  <2>2. ASSUME NEW c \in Callers, Succeed(c) PROVE TokenDiscipline'
    BY <2>0, <2>2, SuccessFacts, ReturnKeepsDiscipline DEF Succeed, Return
  <2>3. ASSUME NEW c \in Callers, Fail(c) PROVE TokenDiscipline'
    BY <2>0, <2>3, FailureFacts, ReturnKeepsDiscipline DEF Fail, Return
  <2>4. ASSUME NEW c \in Callers, Release(c) PROVE TokenDiscipline'
    BY <2>0, <2>4, ReleaseFacts, ReturnKeepsDiscipline DEF Release, Return
  <2>5. ASSUME NEW c \in Callers, Abandon(c) PROVE TokenDiscipline'
    BY <2>5, ReturnKeepsDiscipline DEF Abandon
  <2>6. CASE ResetBreaker
    BY <2>0, <2>6 DEF ResetBreaker, Reset, TokenDiscipline, Breakers
  <2>7. CASE AgeOpened
    BY <2>0, <2>7 DEF AgeOpened, TokenDiscipline, Breakers
  <2>8. CASE AgeProbe
    BY <2>0, <2>8 DEF AgeProbe, TokenDiscipline, Breakers
  <2>9. CASE UNCHANGED vars
    BY <2>9 DEF vars, TokenDiscipline
  <2> QED
    BY <2>1, <2>2, <2>3, <2>4, <2>5, <2>6, <2>7, <2>8, <2>9 DEF Next
<1> QED
  BY <1>1, <1>2, TypeCorrect, PTL DEF Spec

(* Two holders of the current generation would share an unreserved token.   *)
LEMMA DisciplineGivesSingleProbe ==
    ASSUME TypeOK, TokenDiscipline
    PROVE  SingleProbe
BY AnyProbeAssumption DEF TypeOK, TokenDiscipline, SingleProbe, Probes, Breakers

(* A half-open circuit never has two probes in flight.                      *)
THEOREM AtMostOneProbe == Spec => []SingleProbe
BY TypeCorrect, TokensIdentifyProbes, DisciplineGivesSingleProbe, PTL

------------------------------------------------------------------------------

(* What one step can do to a half-open circuit and to its probe generation. *)
LEMMA HalfOpenStep ==
    ASSUME TypeOK, TokenDiscipline, [Next]_vars,
           breaker.state = "halfopen", breaker'.state # "halfopen"
    PROVE  \/ \E c \in Probes \union (inflight \intersect DirectCallers) :
                  c \notin inflight'
           \/ breaker' = Reset(breaker) /\ inflight' = inflight
<1>0. breaker \in Breakers /\ \A c \in Callers : token[c] \in Tokens
  BY DEF TypeOK
<1>1. ASSUME NEW c \in Callers, Return(c), token[c] \in {breaker.probeGen, AnyProbe}
      PROVE  c \in Probes \union (inflight \intersect DirectCallers) /\ c \notin inflight'
  BY <1>1 DEF Return, TokenDiscipline, Probes
<1>2. ASSUME NEW c \in Callers, Admit(c) PROVE FALSE
  BY <1>0, <1>2, AllowFacts DEF Admit
<1>3. ASSUME NEW c \in Callers, Succeed(c)
      PROVE  c \in Probes \union (inflight \intersect DirectCallers) /\ c \notin inflight'
  BY <1>0, <1>1, <1>3, SuccessFacts DEF Succeed
<1>4. ASSUME NEW c \in Callers, Fail(c)
      PROVE  c \in Probes \union (inflight \intersect DirectCallers) /\ c \notin inflight'
  BY <1>0, <1>1, <1>4, FailureFacts DEF Fail
<1>5. ASSUME NEW c \in Callers, Release(c) PROVE FALSE
  BY <1>0, <1>5, ReleaseFacts DEF Release
<1>6. ASSUME NEW c \in Callers, Abandon(c) PROVE FALSE
  BY <1>6 DEF Abandon
<1>7. CASE ResetBreaker
  BY <1>7 DEF ResetBreaker
<1>8. CASE AgeOpened \/ AgeProbe \/ UNCHANGED vars
  BY <1>0, <1>8 DEF AgeOpened, AgeProbe, vars, Breakers
<1> QED
  BY <1>2, <1>3, <1>4, <1>5, <1>6, <1>7, <1>8 DEF Next

(* A late outcome never ends a probe that belongs to another request.       *)
THEOREM OnlyTheHolderResolves == Spec => ProbeResolvedByItsHolder
<1>1. TypeOK /\ TokenDiscipline /\ [Next]_vars =>
        [ breaker.state = "halfopen" /\ breaker'.state # "halfopen"
          => \/ \E c \in Probes \union (inflight \intersect DirectCallers) :
                    c \notin inflight'
             \/ breaker' = Reset(breaker) /\ inflight' = inflight ]_vars
  BY HalfOpenStep
<1> QED
  BY <1>1, TypeCorrect, TokensIdentifyProbes, PTL DEF Spec, ProbeResolvedByItsHolder

------------------------------------------------------------------------------
(* The refinement of ProbeLease. *)

(* The owner of the lease is the one request that holds the probe.          *)
LEMMA OwnerFacts ==
    ASSUME SingleProbe
    PROVE  /\ Probes = {} => ProbeOwner = NoCaller
           /\ \A c \in Probes : ProbeOwner = c
BY DEF SingleProbe, ProbeOwner

(* A request that returns without moving the circuit gives up its own lease *)
(* and nobody else's.                                                       *)
LEMMA ReturnGivesUpOwnLease ==
    ASSUME TypeOK, SingleProbe, SingleProbe', NEW c \in Callers, Return(c),
           breaker'.state = breaker.state, breaker'.probeGen = breaker.probeGen
    PROVE  ProbeOwner' = IF c = ProbeOwner THEN NoCaller ELSE ProbeOwner
<1>1. Probes' = Probes \ {c}
  BY DEF TypeOK, Probes, Return
<1>2. /\ Probes' = {} => ProbeOwner' = NoCaller
      /\ \A d \in Probes' : ProbeOwner' = d
  BY DEF SingleProbe, ProbeOwner
<1>3. CASE Probes = {}
  BY <1>1, <1>2, <1>3, OwnerFacts, NoCallerAssumption
<1>4. ASSUME NEW d \in Probes
      PROVE  ProbeOwner' = IF c = ProbeOwner THEN NoCaller ELSE ProbeOwner
  <2>1. ProbeOwner = d /\ Probes = {d}
    BY <1>4, OwnerFacts DEF SingleProbe
  <2> QED
    BY <1>1, <1>2, <2>1
<1> QED
  BY <1>3, <1>4

(* When the circuit is not half-open nobody owns a lease and none is free.  *)
LEMMA NoLeaseUnlessHalfOpen ==
    ASSUME breaker.state # "halfopen"
    PROVE  Probes = {} /\ ProbeOwner = NoCaller /\ ProbeFree = FALSE
BY DEF Probes, ProbeOwner, ProbeFree

(* Admitting a request enters the closed circuit or takes the free lease.   *)
LEMMA AdmitRefines ==
    ASSUME TypeOK, TypeOK', SingleProbe, SingleProbe', NEW c \in Callers, Admit(c)
    PROVE  Lease!Enter(c) \/ Lease!Probe(c)
<1>0. breaker \in Breakers /\ Admits(breaker) /\ breaker' = Allow(breaker)
  BY DEF Admit, TypeOK
<1>1. CASE ~AdmitsProbe(breaker)
  <2>1. breaker' = breaker /\ breaker.state = "closed"
    BY <1>0, <1>1, AllowFacts
  <2>2. /\ ProbeOwner = NoCaller /\ ProbeOwner' = NoCaller
        /\ ProbeFree = FALSE /\ ProbeFree' = FALSE
    BY <2>1, NoLeaseUnlessHalfOpen DEF Probes, ProbeOwner, ProbeFree
  <2> QED
    BY <2>1, <2>2 DEF Lease!Enter, Admit
<1>2. CASE AdmitsProbe(breaker)
  <2> DEFINE gen == BumpProbeGen(breaker.probeGen)
  <2>1. /\ breaker'.state = "halfopen" /\ breaker'.probeGen = gen
        /\ breaker'.probeStarted = "recent" /\ ProbeToken(breaker) = gen
    BY <1>0, <1>2, AllowFacts
  <2>2. gen # AnyProbe
    BY <1>0, BumpAvoidsReserved, AnyProbeAssumption DEF Breakers
  <2>3. /\ \A d \in inflight : d # c /\ d \in Callers /\ token[d] # gen /\ token'[d] = token[d]
        /\ token'[c] = IF c \in DirectCallers THEN AnyProbe ELSE gen
        /\ inflight' = inflight \union {c}
    BY <2>1 DEF Admit, NoLap, TypeOK
  <2>4. Probes' = IF c \in DirectCallers THEN {} ELSE {c}
    BY <2>1, <2>2, <2>3 DEF Probes
  <2>5. ProbeOwner' = IF c \in DirectCallers THEN NoCaller ELSE c
    BY <2>4 DEF SingleProbe, ProbeOwner
  <2>6. ProbeFree' = FALSE
    BY <2>1 DEF ProbeFree, CooldownElapsed
  <2>7. breaker.state = "open" \/ (breaker.state = "halfopen" /\ ProbeFree)
    <3>1. CASE breaker.state = "open"
      BY <3>1
    <3>2. CASE breaker.state = "halfopen" /\ CooldownElapsed(breaker.probeStarted)
      BY <3>2 DEF ProbeFree
    <3> QED
      BY <1>2, <3>1, <3>2 DEF AdmitsProbe
  <2> QED
    BY <2>1, <2>3, <2>5, <2>6, <2>7 DEF Lease!Probe
<1> QED
  BY <1>1, <1>2

(* A request whose return does not move the circuit just leaves.            *)
LEMMA QuietReturnRefines ==
    ASSUME TypeOK, SingleProbe, SingleProbe', NEW c \in Callers, Return(c),
           breaker'.state = breaker.state, breaker'.probeGen = breaker.probeGen,
           \/ breaker'.probeStarted = breaker.probeStarted
           \/ breaker.state = "halfopen" /\ token[c] = breaker.probeGen
                /\ breaker'.probeStarted = "zero"
    PROVE  Lease!Leave(c)
<1>1. ProbeOwner' = IF c = ProbeOwner THEN NoCaller ELSE ProbeOwner
  BY ReturnGivesUpOwnLease
<1>2. ProbeFree' \in IF c = ProbeOwner THEN {ProbeFree, TRUE} ELSE {ProbeFree}
  <2>1. CASE breaker'.probeStarted = breaker.probeStarted
    BY <2>1 DEF ProbeFree
  <2>2. CASE breaker.state = "halfopen" /\ token[c] = breaker.probeGen
                /\ breaker'.probeStarted = "zero"
    <3>1. c = ProbeOwner
      BY <2>2, OwnerFacts DEF Return, Probes
    <3>2. ProbeFree' = TRUE
      BY <2>2 DEF ProbeFree, CooldownElapsed
    <3> QED
      BY <3>1, <3>2
  <2> QED
    BY <2>1, <2>2
<1> QED
  BY <1>1, <1>2 DEF Lease!Leave, Return

(* A request whose return moves the circuit had the right to: it owned the  *)
(* lease, reports without a token, or counted against a closed circuit.     *)
LEMMA VerdictRefines ==
    ASSUME TypeOK, TokenDiscipline, SingleProbe, NEW c \in Callers, Return(c),
           \/ breaker.state = "halfopen" /\ breaker'.state \in {"closed", "open"}
                /\ token[c] \in {breaker.probeGen, AnyProbe}
           \/ breaker.state = "closed" /\ breaker'.state = "open"
    PROVE  Lease!Verdict(c)
<1>1. breaker'.state # "halfopen"
  OBVIOUS
<1>2. ProbeOwner' = NoCaller /\ ProbeFree' = FALSE
  BY <1>1 DEF Probes, ProbeOwner, ProbeFree
<1>3. breaker.state = "halfopen" => Lease!MayResolve(c)
  BY OwnerFacts DEF Lease!MayResolve, Return, Probes, TokenDiscipline
<1> QED
  BY <1>2, <1>3 DEF Lease!Verdict, Return

(* The breaker of circuitbreaker.go implements the lease of ProbeLease.     *)
THEOREM BreakerImplementsLease == Spec => ImplementsLease
<1>1. Init => Lease!Init
  <2> SUFFICES ASSUME Init PROVE Lease!Init
    OBVIOUS
  <2>1. breaker.state = "closed" /\ inflight = {}
    BY DEF Init, NewCircuitBreaker
  <2> QED
    BY <2>1, NoLeaseUnlessHalfOpen DEF Lease!Init
<1>2. TypeOK /\ TypeOK' /\ TokenDiscipline /\ SingleProbe /\ SingleProbe' /\ [Next]_vars
        => [Lease!Next]_(Lease!vars)
  <2> SUFFICES ASSUME TypeOK, TypeOK', TokenDiscipline, SingleProbe, SingleProbe',
                      [Next]_vars
               PROVE  Lease!Next \/ UNCHANGED Lease!vars
    OBVIOUS
  <2>0. breaker \in Breakers /\ \A c \in Callers : token[c] \in Tokens
    BY DEF TypeOK
  <2>1. ASSUME NEW c \in Callers, Admit(c) PROVE Lease!Enter(c) \/ Lease!Probe(c)
    BY <2>1, AdmitRefines
  <2>2. ASSUME NEW c \in Callers, Succeed(c) PROVE Lease!Verdict(c) \/ Lease!Leave(c)
    BY <2>0, <2>2, SuccessFacts, VerdictRefines, QuietReturnRefines DEF Succeed
  <2>3. ASSUME NEW c \in Callers, Fail(c) PROVE Lease!Verdict(c) \/ Lease!Leave(c)
    BY <2>0, <2>3, FailureFacts, VerdictRefines, QuietReturnRefines DEF Fail
  <2>4. ASSUME NEW c \in Callers, Release(c) PROVE Lease!Leave(c)
    BY <2>0, <2>4, ReleaseFacts, QuietReturnRefines DEF Release
  <2>5. ASSUME NEW c \in Callers, Abandon(c) PROVE Lease!Leave(c)
    BY <2>5, QuietReturnRefines DEF Abandon
  <2>6. CASE ResetBreaker
    <3>1. breaker'.state = "closed" /\ inflight' = inflight
      BY <2>0, <2>6 DEF ResetBreaker, Reset, Breakers
    <3>2. ProbeOwner' = NoCaller /\ ProbeFree' = FALSE
      BY <3>1 DEF Probes, ProbeOwner, ProbeFree
    <3> QED
      BY <3>1, <3>2 DEF Lease!Next, Lease!Reset
  <2>7. CASE AgeOpened
    <3>1. breaker'.state = breaker.state /\ breaker'.probeGen = breaker.probeGen
          /\ breaker'.probeStarted = breaker.probeStarted
      BY <2>0, <2>7 DEF AgeOpened, Breakers
    <3>2. ProbeOwner' = ProbeOwner /\ ProbeFree' = ProbeFree
      BY <2>7, <3>1 DEF AgeOpened, Probes, ProbeOwner, ProbeFree
    <3> QED
      BY <2>7, <3>1, <3>2 DEF AgeOpened, Lease!vars
  <2>8. CASE AgeProbe
    <3>1. breaker'.state = breaker.state /\ breaker'.probeGen = breaker.probeGen
          /\ breaker'.probeStarted = "old"
      BY <2>0, <2>8 DEF AgeProbe, Age, Breakers
    <3>2. ProbeOwner' = ProbeOwner
      BY <2>8, <3>1 DEF AgeProbe, Probes, ProbeOwner
    <3>3. ProbeFree' = (breaker.state = "halfopen")
      BY <3>1 DEF ProbeFree, CooldownElapsed
    <3>4. CASE breaker.state = "halfopen"
      BY <2>8, <3>1, <3>2, <3>3, <3>4 DEF AgeProbe, Lease!Next, Lease!Expire
    <3>5. CASE breaker.state # "halfopen"
      BY <2>8, <3>1, <3>2, <3>3, <3>5 DEF AgeProbe, Lease!vars, ProbeFree
    <3> QED
      BY <3>4, <3>5
  <2>9. CASE UNCHANGED vars
    BY <2>9 DEF vars, Lease!vars, Probes, ProbeOwner, ProbeFree
  <2> QED
    BY <2>1, <2>2, <2>3, <2>4, <2>5, <2>6, <2>7, <2>8, <2>9 DEF Next, Lease!Next
<1> QED
  BY <1>1, <1>2, TypeCorrect, TokensIdentifyProbes, AtMostOneProbe, PTL
  DEF Spec, ImplementsLease, Lease!Spec
==============================================================================
