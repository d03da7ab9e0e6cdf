---------------------------- MODULE CircuitBreaker ----------------------------
(***************************************************************************)
(* One circuit breaker shared by concurrent requests (circuitbreaker.go).  *)
(* A pool request keeps the token allow() gave it and reports with it; a   *)
(* direct caller (Execute, or Allow followed by RecordSuccess and          *)
(* RecordFailure) reports with the wildcard.  Any request may also never   *)
(* report: an abandoned iterator, an error Execute excuses, or a return    *)
(* path that forgets the token.                                            *)
(***************************************************************************)
EXTENDS CircuitBreakerOps, FiniteSets

CONSTANTS
    Callers,         \* the requests that may be in flight at one time
    DirectCallers,   \* those that use the public, token-less methods
    NoCaller         \* not a caller

ASSUME DirectCallersAssumption == DirectCallers \subseteq Callers
ASSUME NoCallerAssumption == NoCaller \notin Callers

VARIABLES
    breaker,    \* the breaker's fields
    inflight,   \* the requests admitted and not yet back
    token       \* the token each of them reports with

vars == <<breaker, inflight, token>>

TypeOK ==
    /\ breaker \in Breakers
    /\ inflight \subseteq Callers
    /\ token \in [Callers -> Tokens]

Init ==
    /\ breaker = NewCircuitBreaker
    /\ inflight = {}
    /\ token = [c \in Callers |-> 0]

(* Bound: no request outlives 2^64 - 2 later probe admissions, so that a   *)
(* token never comes round again while a request still holds it.           *)
NoLap == \A c \in inflight : token[c] # BumpProbeGen(breaker.probeGen)

(* allow() admits c.  A rejected call changes nothing and is not a step.   *)
Admit(c) ==
    /\ c \notin inflight
    /\ Admits(breaker)
    /\ NoLap
    /\ breaker' = Allow(breaker)
    /\ inflight' = inflight \union {c}
    /\ token' = [token EXCEPT ![c] = IF c \in DirectCallers THEN AnyProbe
                                     ELSE ProbeToken(breaker)]

(* A request that is back drops its token. *)
Return(c) ==
    /\ c \in inflight
    /\ inflight' = inflight \ {c}
    /\ token' = [token EXCEPT ![c] = 0]

Succeed(c) == Return(c) /\ breaker' = RecordSuccess(breaker, token[c])

Fail(c) == Return(c) /\ breaker' = RecordFailure(breaker, token[c])

(* A pool request cancelled by its caller, or answered with a client error. *)
Release(c) ==
    /\ c \notin DirectCallers
    /\ Return(c)
    /\ breaker' = ReleaseProbe(breaker, token[c])

Abandon(c) == Return(c) /\ UNCHANGED breaker

ResetBreaker ==
    /\ breaker' = Reset(breaker)
    /\ UNCHANGED <<inflight, token>>

AgeOpened ==
    /\ breaker.openedAt = "recent"
    /\ breaker' = [breaker EXCEPT !.openedAt = Age(@)]
    /\ UNCHANGED <<inflight, token>>

AgeProbe ==
    /\ breaker.probeStarted = "recent"
    /\ breaker' = [breaker EXCEPT !.probeStarted = Age(@)]
    /\ UNCHANGED <<inflight, token>>

Next ==
    \/ \E c \in Callers : Admit(c) \/ Succeed(c) \/ Fail(c) \/ Release(c)
                            \/ Abandon(c)
    \/ ResetBreaker
    \/ AgeOpened
    \/ AgeProbe

Spec == Init /\ [][Next]_vars

(* Time passes, requests come back, and more of them arrive. *)
Fairness ==
    /\ WF_vars(AgeOpened)
    /\ WF_vars(AgeProbe)
    /\ WF_vars(\E c \in Callers : Admit(c))
    /\ \A c \in Callers : WF_vars(Succeed(c) \/ Fail(c) \/ Release(c) \/ Abandon(c))

FairSpec == Spec /\ Fairness

------------------------------------------------------------------------------

(* The requests that hold the current probe of a half-open circuit. *)
Probes == {c \in inflight : breaker.state = "halfopen" /\ token[c] = breaker.probeGen}

(* A closed circuit is always below its threshold, whatever outcomes of     *)
(* earlier generations arrive late: the next failure is counted, and it     *)
(* opens the circuit only as the last of Threshold.                         *)
ClosedBelowThreshold == breaker.state = "closed" => breaker.failures < Threshold

(* At most one request holds the probe of a half-open circuit, however many *)
(* probes were superseded, released or abandoned before it.                 *)
SingleProbe == \A c, d \in Probes : c = d

(* The tokens in flight identify probes: no two requests share one that is   *)
(* not reserved, exactly the token-less callers carry the wildcard, and a    *)
(* half-open circuit has a probe generation.                                 *)
TokenDiscipline ==
    /\ \A c, d \in inflight :
           c # d /\ token[c] = token[d] => token[c] \in {0, AnyProbe}
    /\ \A c \in inflight : token[c] = AnyProbe <=> c \in DirectCallers
    /\ breaker.state = "halfopen" => breaker.probeGen # 0

(* A half-open circuit is left only because the holder of its probe (or a   *)
(* token-less caller) reported, or by Reset: a late outcome of a request    *)
(* admitted earlier never closes or re-opens a probe it does not own.       *)
ProbeResolvedByItsHolder ==
    [][ breaker.state = "halfopen" /\ breaker'.state # "halfopen"
        => \/ \E c \in Probes \union (inflight \intersect DirectCallers) :
                  c \notin inflight'
           \/ breaker' = Reset(breaker) /\ inflight' = inflight ]_vars

(* A half-open circuit whose probe nobody holds is not wedged: another      *)
(* probe is admitted, or the circuit leaves half-open.                      *)
AbandonedProbeReplaced ==
    (breaker.state = "halfopen" /\ Probes = {})
        ~> \/ breaker.state # "halfopen"
           \/ Probes \union (inflight \intersect DirectCallers) # {}

(* The breaker keeps the promise of ProbeLease: its tokens, generations and *)
(* time stamps implement one lease that a caller owns by identity.          *)
ProbeOwner == IF Probes = {} THEN NoCaller ELSE CHOOSE c \in Probes : TRUE

ProbeFree == breaker.state = "halfopen" /\ CooldownElapsed(breaker.probeStarted)

Lease == INSTANCE ProbeLease WITH
             mode <- breaker.state, owner <- ProbeOwner, free <- ProbeFree,
             busy <- inflight, Anonymous <- DirectCallers, NoOne <- NoCaller

ImplementsLease == Lease!Spec

==============================================================================
