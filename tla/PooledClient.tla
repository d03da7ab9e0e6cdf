----------------------------- MODULE PooledClient -----------------------------
(***************************************************************************)
(* PooledClient of pool.go: concurrent Complete, Stream, Provider and      *)
(* Model calls over a pool of keys, a circuit breaker and reference-       *)
(* counted clients, with a Close at any moment.                            *)
(*                                                                         *)
(* A call is a process.  req[r].todo is the list of steps it has still to  *)
(* take; each step is one critical section of the code (pc.mu, rotateMu    *)
(* with the lock nested in it, the key pool's or the breaker's mutex) or   *)
(* drops one reference, so every interleaving of them is a behaviour.      *)
(* What a call decides on its own afterwards belongs to the same step.     *)
(***************************************************************************)
EXTENDS CircuitBreakerOps, AuthPoolOps, Sequences, FiniteSets

CONSTANTS
    Requests,          \* the calls that may run at one time
    NoRequest,         \* not a call
    NumClients,        \* bound on clients that exist at one time
    DisableRetries,    \* Config.DisableRetries
    HasBreaker,        \* Config.CircuitThreshold > 0
    Workloads          \* the configurations and calls a behaviour starts from

ASSUME RequestsAssumption == NoRequest \notin Requests /\ IsFiniteSet(Requests)
(* Which calls are made, how a provider fails, Config.MaxRetries or its     *)
(* default, and whether a consumer may panic: at most one does (bound).     *)
ASSUME WorkloadsAssumption ==
           \A w \in Workloads : /\ w.kinds \subseteq {"complete", "stream", "peek"}
                                /\ w.failures \subseteq {"retryable", "auth", "fatal"}
                                /\ w.retries \in Nat \ {0}
                                /\ w.panics \in BOOLEAN
(* Each request keeps at most one client from being closed, and so does a   *)
(* panic; one more is active and one more is being made.                    *)
ASSUME NumClientsAssumption ==
           NumClients \in Nat
           /\ NumClients >= Cardinality(Requests)
                               + (IF \E w \in Workloads : w.panics THEN 3 ELSE 2)

Clients == 1 .. NumClients
NoClient == 0

VARIABLES
    breaker,      \* pc.breaker
    pool,         \* pc.pool
    clients,      \* the key and the reference count of every client
    rc,           \* pc.rc, NoClient once the pool is closed
    activeName,   \* pc.activeName, the key of the active client
    rotator,      \* the call that holds rotateMu
    fresh,        \* the client it has made and not installed
    swapped,      \* the client it has replaced and not released
    closing,      \* the client Close has taken and not released
    abandoned,    \* history: the client a panicking consumer has left behind
    load,         \* the workload, which never changes
    req           \* the calls

vars == <<breaker, pool, clients, rc, activeName, rotator, fresh, swapped,
          closing, abandoned, load, req>>

surroundings == <<abandoned, load>>
rotation == <<rotator, fresh, swapped>>
handle == <<rc, activeName, surroundings>>

(* A client is closed, or was never made, when it has no key.              *)
Closed == [key |-> 0, refs |-> 0]
Exists(c) == clients[c].key # 0

(* A call that is not running. *)
Idle == [kind |-> "none", todo |-> <<>>, attempt |-> 0, cap |-> 0,
         admitted |-> FALSE, tok |-> 0, rc |-> NoClient, name |-> 0,
         err |-> "none", started |-> FALSE, ctxDone |-> FALSE]

(* A context that has expired surfaces as a network timeout, which the      *)
(* classification takes for a transient failure.                            *)
IsRetryable(e) == e \in {"retryable", "expired"}
IsAuthError(e) == e = "auth"

Init ==
    /\ breaker = NewCircuitBreaker
    /\ pool = NewAuthPool
    /\ clients = [c \in Clients |-> IF c = 1 THEN [key |-> 1, refs |-> 1] ELSE Closed]
    /\ rc = 1
    /\ activeName = 1
    /\ rotator = NoRequest
    /\ fresh = NoClient
    /\ swapped = NoClient
    /\ closing = NoClient
    /\ abandoned = NoClient
    /\ load \in Workloads
    /\ req = [r \in Requests |-> Idle]

------------------------------------------------------------------------------
(* The steps of a call. *)

Running(r) == req[r].todo # <<>>

At(r, step) == Running(r) /\ Head(req[r].todo) = step

(* The call goes on as record q; with nothing left to do it has returned.   *)
Become(r, q) == req' = [req EXCEPT ![r] = IF q.todo = <<>> THEN Idle ELSE q]

Proceed(r) == Become(r, [req[r] EXCEPT !.todo = Tail(@)])

Returns(r) == Become(r, Idle)

(* A nil breaker's methods return at once: they are no steps.               *)
OnBreaker(step) == IF HasBreaker THEN <<step>> ELSE <<>>

(* A call that has reported to the breaker, or never will, has no token.    *)
Forget(q) == [q EXCEPT !.admitted = FALSE, !.tok = 0]

Least(S) == CHOOSE x \in S : \A y \in S : x <= y

(* The retry cap: the healthy keys, at least 3, at most the configured cap. *)
MaxRetries ==
    LET n == Cardinality(HealthyKeys(pool))
    IN  IF DisableRetries THEN 1
        ELSE Least({load.retries, IF n < 3 THEN 3 ELSE n})

(* Complete, Stream, or (peek) Provider and Model, which only borrow the    *)
(* client.                                                                  *)
Call(r) ==
    /\ ~Running(r)
    /\ \E k \in load.kinds :
         Become(r, [Idle EXCEPT !.kind = k,
                    !.cap = IF k = "peek" THEN 0 ELSE MaxRetries,
                    !.todo = IF k = "peek" THEN <<"acquire">>
                             ELSE OnBreaker("gate") \o <<"acquire">>])
    /\ UNCHANGED <<breaker, pool, clients, handle, rotation, closing>>

(* The caller's context is cancelled or its deadline passes.  That may be   *)
(* at any time; it is seen only at these steps, so it is a step only there. *)
Cancel(r) ==
    /\ At(r, "call") \/ At(r, "classify") \/ At(r, "sleep")
    /\ ~req[r].ctxDone
    /\ req' = [req EXCEPT ![r].ctxDone = TRUE]
    /\ UNCHANGED <<breaker, pool, clients, handle, rotation, closing>>

(* Bound: a token never comes round again while a call still holds it.     *)
NoLap == \A r \in Requests :
             req[r].admitted => req[r].tok # BumpProbeGen(breaker.probeGen)

GateAdmits(r) ==
    /\ At(r, "gate")
    /\ Admits(breaker)
    /\ NoLap
    /\ breaker' = Allow(breaker)
    /\ Become(r, [req[r] EXCEPT !.admitted = TRUE, !.tok = ProbeToken(breaker),
                                !.todo = Tail(@)])
    /\ UNCHANGED <<pool, clients, handle, rotation, closing>>

GateRejects(r) ==
    /\ At(r, "gate")
    /\ ~Admits(breaker)
    /\ Returns(r)
    /\ UNCHANGED <<breaker, pool, clients, handle, rotation, closing>>

(* The active client, its key and a reference to it, read under one lock.   *)
Acquire(r) ==
    /\ At(r, "acquire")
    /\ rc # NoClient
    /\ clients' = [clients EXCEPT ![rc].refs = @ + 1]
    /\ Become(r, [req[r] EXCEPT !.rc = rc, !.name = activeName,
                  !.todo = IF req[r].kind = "peek" THEN <<"release">> ELSE <<"call">>])
    /\ UNCHANGED <<breaker, pool, handle, rotation, closing>>

(* A closed pool: the call returns, keeping a probe it may hold.           *)
FindsClosed(r) ==
    /\ At(r, "acquire")
    /\ rc = NoClient
    /\ Returns(r)
    /\ UNCHANGED <<breaker, pool, clients, handle, rotation, closing>>

(* The places that refer to a client. *)
References(c) ==
    Cardinality({r \in Requests : req[r].rc = c})
    + (IF rc = c THEN 1 ELSE 0)
    + (IF swapped = c THEN 1 ELSE 0)
    + (IF closing = c THEN 1 ELSE 0)

------------------------------------------------------------------------------
(* What the borrowed client answers. *)

(* A dead context may make the call fail as a timeout. *)
Errors(r) == load.failures \union (IF req[r].ctxDone THEN {"expired"} ELSE {})

(* Once the exchange is over, whether it delivered anything is forgotten.   *)
Answer(r, kinds, q) ==
    /\ At(r, "call")
    /\ req[r].kind \in kinds
    /\ Become(r, [q EXCEPT !.started = FALSE])
    /\ UNCHANGED <<breaker, pool, clients, handle, rotation, closing>>

(* Complete returns a response; Stream runs to its end. *)
Succeeds(r) ==
    Answer(r, {"complete", "stream"},
           [req[r] EXCEPT !.todo = <<"release", "markSuccess">>
                                       \o OnBreaker("recordSuccess")])

(* The call failed and nothing was delivered: it may be tried again.        *)
FailsBeforeData(r) ==
    /\ ~req[r].started
    /\ \E e \in Errors(r) :
         /\ req[r].kind = "stream" => IsRetryable(e) \/ IsAuthError(e)
         /\ Answer(r, {"complete", "stream"},
                   [req[r] EXCEPT !.err = e, !.todo = <<"classify">>])

(* Stream hands an event to the consumer. *)
Event(r) ==
    /\ At(r, "call")
    /\ req[r].kind = "stream" /\ ~req[r].started
    /\ req' = [req EXCEPT ![r].started = TRUE]
    /\ UNCHANGED <<breaker, pool, clients, handle, rotation, closing>>

(* The consumer leaves the range loop early. *)
ConsumerBreaks(r) ==
    /\ req[r].started
    /\ Answer(r, {"stream"},
              [req[r] EXCEPT !.todo = <<"markSuccess">> \o OnBreaker("recordSuccess")
                                          \o <<"release">>])

(* Faulty: a stream that ends with a client error, or is cancelled, keeps   *)
(* its probe.                                                               *)
PassedOnKeepsProbe(q) ==
    IF q.ctxDone \/ ~(IsRetryable(q.err) \/ IsAuthError(q.err))
    THEN [Forget(q) EXCEPT !.todo = <<"release">>]
    ELSE IF IsAuthError(q.err)
    THEN [Forget(q) EXCEPT !.todo = <<"markFailed", "release">>]
    ELSE [q EXCEPT !.todo = <<"markFailed">> \o OnBreaker("recordFailure")
                               \o <<"release">>]

(* Faulty: a stream broken after its first event is charged to the key only. *)
PassedOnUncharged(q) ==
    IF q.ctxDone \/ ~(IsRetryable(q.err) \/ IsAuthError(q.err))
    THEN [q EXCEPT !.todo = OnBreaker("releaseProbe") \o <<"release">>]
    ELSE [Forget(q) EXCEPT !.todo = <<"markFailed", "release">>]

(* An error in mid-stream, one that no retry can help, or an error event    *)
(* that carries usage, is passed on to the consumer.                        *)
PassedOn(q) ==
    IF q.ctxDone \/ ~(IsRetryable(q.err) \/ IsAuthError(q.err))
    THEN [q EXCEPT !.todo = OnBreaker("releaseProbe") \o <<"release">>]
    ELSE IF IsAuthError(q.err)
    THEN [Forget(q) EXCEPT !.todo = <<"markFailed", "release">>]
    ELSE [q EXCEPT !.todo = <<"markFailed">> \o OnBreaker("recordFailure")
                               \o <<"release">>]

FailsMidStream(r) ==
    \E e \in Errors(r) :
        Answer(r, {"stream"}, PassedOn([req[r] EXCEPT !.err = e]))

(* The consumer panics in the loop body: Stream does not run another line.  *)
ConsumerPanics(r) ==
    /\ At(r, "call")
    /\ req[r].kind = "stream" /\ req[r].started
    /\ load.panics /\ abandoned = NoClient
    /\ abandoned' = req[r].rc
    /\ Returns(r)
    /\ UNCHANGED <<breaker, pool, clients, rc, activeName, load, rotation, closing>>

------------------------------------------------------------------------------
(* The reports: one lock each. *)

DropReference(c) ==
    clients' = [clients EXCEPT ![c] = IF @.refs = 1 THEN Closed
                                      ELSE [key |-> @.key, refs |-> @.refs - 1]]

Release(r) ==
    /\ At(r, "release")
    /\ DropReference(req[r].rc)
    /\ Become(r, [req[r] EXCEPT !.rc = NoClient, !.todo = Tail(@)])
    /\ UNCHANGED <<breaker, pool, handle, rotation, closing>>

(* Faulty: the caller's context is not consulted. *)
ClassifiedByErrorAlone(q) ==
    IF DisableRetries \/ ~(IsRetryable(q.err) \/ IsAuthError(q.err))
    THEN [q EXCEPT !.todo = OnBreaker("releaseProbe")]
    ELSE IF IsAuthError(q.err)
    THEN [Forget(q) EXCEPT !.todo = <<"markFailed", "rotate">>]
    ELSE [q EXCEPT !.todo = OnBreaker("recordFailure") \o <<"markFailed", "rotate">>]

(* Faulty: a call that gives up keeps the probe it holds. *)
ClassifiedKeepsProbe(q) ==
    IF q.ctxDone \/ DisableRetries \/ ~(IsRetryable(q.err) \/ IsAuthError(q.err))
    THEN Idle
    ELSE IF IsAuthError(q.err)
    THEN [Forget(q) EXCEPT !.todo = <<"markFailed", "rotate">>]
    ELSE [q EXCEPT !.todo = OnBreaker("recordFailure") \o <<"markFailed", "rotate">>]

(* Faulty: a transient failure re-arms the probe as a client error does. *)
ClassifiedNeverCounts(q) ==
    IF q.ctxDone \/ DisableRetries \/ ~(IsRetryable(q.err) \/ IsAuthError(q.err))
    THEN [q EXCEPT !.todo = OnBreaker("releaseProbe")]
    ELSE [q EXCEPT !.todo = OnBreaker("releaseProbe") \o <<"markFailed", "rotate">>]

(* Faulty: a transient failure is, as a dead key is, no report at all. *)
ClassifiedUncharged(q) ==
    IF q.ctxDone \/ DisableRetries \/ ~(IsRetryable(q.err) \/ IsAuthError(q.err))
    THEN [q EXCEPT !.todo = OnBreaker("releaseProbe")]
    ELSE [Forget(q) EXCEPT !.todo = <<"markFailed", "rotate">>]

(* The client is released, and then the context and the error decide.       *)
Classified(q) ==
    IF q.ctxDone \/ DisableRetries \/ ~(IsRetryable(q.err) \/ IsAuthError(q.err))
    THEN [q EXCEPT !.todo = OnBreaker("releaseProbe")]
    ELSE IF IsAuthError(q.err)
    THEN [Forget(q) EXCEPT !.todo = <<"markFailed", "rotate">>]
    ELSE [q EXCEPT !.todo = OnBreaker("recordFailure") \o <<"markFailed", "rotate">>]

Classify(r) ==
    /\ At(r, "classify")
    /\ DropReference(req[r].rc)
    /\ Become(r, Classified([req[r] EXCEPT !.rc = NoClient]))
    /\ UNCHANGED <<breaker, pool, handle, rotation, closing>>

ReportToPool(r) ==
    /\ \/ At(r, "markSuccess") /\ pool' = MarkSuccess(pool, req[r].name)
       \/ At(r, "markFailed")
            /\ pool' = MarkFailed(pool, req[r].name, IsAuthError(req[r].err))
    /\ Proceed(r)
    /\ UNCHANGED <<breaker, clients, handle, rotation, closing>>

Report(r, step, b) ==
    /\ At(r, step)
    /\ breaker' = b
    /\ Become(r, [Forget(req[r]) EXCEPT !.todo = Tail(@)])
    /\ UNCHANGED <<pool, clients, handle, rotation, closing>>

(* Faulty: the pool reports through the public methods, without its token. *)
ReportToBreakerAsAnyone(r) ==
    \/ Report(r, "recordSuccess", RecordSuccess(breaker, AnyProbe))
    \/ Report(r, "recordFailure", RecordFailure(breaker, AnyProbe))
    \/ Report(r, "releaseProbe", ReleaseProbe(breaker, req[r].tok))

ReportToBreaker(r) ==
    \/ Report(r, "recordSuccess", RecordSuccess(breaker, req[r].tok))
    \/ Report(r, "recordFailure", RecordFailure(breaker, req[r].tok))
    \/ Report(r, "releaseProbe", ReleaseProbe(breaker, req[r].tok))

------------------------------------------------------------------------------
(* The next attempt, and rotateClient. *)

LastAttempt(r) == req[r].attempt + 1 >= req[r].cap

NextAttempt(r) ==
    /\ ~LastAttempt(r)
    /\ Become(r, [req[r] EXCEPT !.attempt = @ + 1, !.name = 0, !.err = "none",
                  !.todo = OnBreaker("gate") \o <<"acquire">>])

(* A call on a new client tries again, unless the retry budget is spent or  *)
(* the attempts are.                                                        *)
TryAgain(r) == NextAttempt(r) \/ Returns(r)

(* A call that could not rotate gives up on a dead key, after the last      *)
(* attempt, and when the budget or the deadline leaves no time; otherwise   *)
(* it sleeps.                                                               *)
BackOff(r) ==
    \/ Returns(r)
    \/ /\ ~IsAuthError(req[r].err)
       /\ ~LastAttempt(r)
       /\ Become(r, [req[r] EXCEPT !.todo = <<"sleep">>, !.name = 0])

(* Another call has rotated: rotateMu is free, activeName (which changes    *)
(* only under it) is no longer the failed key's.                            *)
FindsRotated(r) ==
    /\ At(r, "rotate")
    /\ rotator = NoRequest
    /\ activeName # req[r].name
    /\ TryAgain(r)
    /\ UNCHANGED <<breaker, pool, clients, handle, rotation, closing>>

MayRotate(r) ==
    At(r, "rotate") /\ rotator = NoRequest /\ activeName = req[r].name

(* No key is available, or the client for the next one cannot be made.      *)
RotationFails(r) ==
    /\ MayRotate(r)
    /\ pool' = IF AvailableKeys(pool) = {} THEN pool ELSE GetAvailable(pool)
    /\ BackOff(r)
    /\ UNCHANGED <<breaker, clients, handle, rotation, closing>>

Unused == {c \in Clients : ~Exists(c) /\ \A r \in Requests : req[r].rc # c}

(* The client for the next key is made; rotateMu stays locked.              *)
MakeClient(r) ==
    /\ MayRotate(r)
    /\ AvailableKeys(pool) # {}
    /\ Unused # {}
    /\ rotator' = r
    /\ pool' = GetAvailable(pool)
    /\ fresh' = Least(Unused)
    /\ clients' = [clients EXCEPT ![fresh'] = [key |-> pool'.current, refs |-> 0]]
    /\ Become(r, [req[r] EXCEPT !.todo = <<"swap">>, !.name = 0])
    /\ UNCHANGED <<breaker, handle, swapped, closing>>

(* Faulty: a client is born without the pool's own reference. *)
InstallClientUncounted(r) ==
    /\ At(r, "swap")
    /\ rc # NoClient
    /\ swapped' = rc
    /\ rc' = fresh
    /\ activeName' = clients[fresh].key
    /\ fresh' = NoClient
    /\ Become(r, [req[r] EXCEPT !.todo = <<"drop">>])
    /\ UNCHANGED <<breaker, pool, clients, rotator, closing, surroundings>>

(* Faulty: the client is replaced under the name of the old one. *)
InstallClientUnnamed(r) ==
    /\ At(r, "swap")
    /\ rc # NoClient
    /\ swapped' = rc
    /\ rc' = fresh
    /\ clients' = [clients EXCEPT ![fresh].refs = 1]
    /\ fresh' = NoClient
    /\ Become(r, [req[r] EXCEPT !.todo = <<"drop">>])
    /\ UNCHANGED <<breaker, pool, activeName, rotator, closing, surroundings>>

InstallClient(r) ==
    /\ At(r, "swap")
    /\ rc # NoClient
    /\ swapped' = rc
    /\ rc' = fresh
    /\ activeName' = clients[fresh].key
    /\ clients' = [clients EXCEPT ![fresh].refs = 1]
    /\ fresh' = NoClient
    /\ Become(r, [req[r] EXCEPT !.todo = <<"drop">>])
    /\ UNCHANGED <<breaker, pool, rotator, closing, surroundings>>

(* Faulty: the client made for a closed pool is dropped without a Close. *)
RotationFindsClosedLeaks(r) ==
    /\ At(r, "swap")
    /\ rc = NoClient
    /\ fresh' = NoClient
    /\ rotator' = NoRequest
    /\ Returns(r)
    /\ UNCHANGED <<breaker, pool, clients, handle, swapped, closing>>

(* Faulty: rotateMu is not unlocked on the way out of a closed pool. *)
RotationFindsClosedLocked(r) ==
    /\ At(r, "swap")
    /\ rc = NoClient
    /\ clients' = [clients EXCEPT ![fresh] = Closed]
    /\ fresh' = NoClient
    /\ Returns(r)
    /\ UNCHANGED <<breaker, pool, handle, rotator, swapped, closing>>

(* The pool was closed meanwhile: the new client is closed at once.         *)
RotationFindsClosed(r) ==
    /\ At(r, "swap")
    /\ rc = NoClient
    /\ clients' = [clients EXCEPT ![fresh] = Closed]
    /\ fresh' = NoClient
    /\ rotator' = NoRequest
    /\ Returns(r)
    /\ UNCHANGED <<breaker, pool, handle, swapped, closing>>

(* The replaced client is released, rotateMu unlocked, the call goes on.    *)
DropSwapped(r) ==
    /\ At(r, "drop")
    /\ DropReference(swapped)
    /\ swapped' = NoClient
    /\ rotator' = NoRequest
    /\ TryAgain(r)
    /\ UNCHANGED <<breaker, pool, handle, fresh, closing>>

(* The backoff ends by its timer or by the caller's context.               *)
WakeUp(r) ==
    /\ At(r, "sleep")
    /\ NextAttempt(r) \/ (req[r].ctxDone /\ Returns(r))
    /\ UNCHANGED <<breaker, pool, clients, handle, rotation, closing>>

------------------------------------------------------------------------------
(* Close, and the passage of time. *)

Close ==
    /\ rc # NoClient
    /\ closing' = rc
    /\ rc' = NoClient
    /\ UNCHANGED <<breaker, pool, clients, activeName, surroundings, rotation, req>>

(* Faulty: Close closes the client under the calls that still use it. *)
CloseAtOnce ==
    /\ closing # NoClient
    /\ clients' = [clients EXCEPT ![closing] = Closed]
    /\ closing' = NoClient
    /\ UNCHANGED <<breaker, pool, handle, rotation, req>>

CloseReleases ==
    /\ closing # NoClient
    /\ DropReference(closing)
    /\ closing' = NoClient
    /\ UNCHANGED <<breaker, pool, handle, rotation, req>>

CooldownEnds(k) ==
    /\ pool.cooling[k]
    /\ pool' = [pool EXCEPT !.cooling[k] = FALSE]
    /\ UNCHANGED <<breaker, clients, handle, rotation, closing, req>>

BreakerAges ==
    /\ \/ /\ breaker.openedAt = "recent"
          /\ breaker' = [breaker EXCEPT !.openedAt = Age(@)]
       \/ /\ breaker.probeStarted = "recent"
          /\ breaker' = [breaker EXCEPT !.probeStarted = Age(@)]
    /\ UNCHANGED <<pool, clients, handle, rotation, closing, req>>

(* The steps a running call takes by itself once its client has answered.   *)
Step(r) ==
    \/ GateAdmits(r) \/ GateRejects(r) \/ Acquire(r) \/ FindsClosed(r)
    \/ Classify(r) \/ Release(r) \/ ReportToPool(r) \/ ReportToBreaker(r)
    \/ InstallClient(r) \/ RotationFindsClosed(r) \/ DropSwapped(r) \/ WakeUp(r)

Rotate(r) == FindsRotated(r) \/ RotationFails(r) \/ MakeClient(r)

Answers(r) ==
    \/ Succeeds(r) \/ FailsBeforeData(r) \/ ConsumerBreaks(r)
    \/ FailsMidStream(r) \/ ConsumerPanics(r)

Next ==
    \/ \E r \in Requests :
          Call(r) \/ Cancel(r) \/ Event(r) \/ Answers(r) \/ Rotate(r) \/ Step(r)
    \/ Close
    \/ CloseReleases
    \/ \E k \in Keys : CooldownEnds(k)
    \/ BreakerAges

Spec == Init /\ [][Next]_vars

(* A call's own steps are taken, a provider's answer or a timeout ends      *)
(* every exchange, and rotateMu, like every Go mutex, starves nobody.       *)
Fairness ==
    /\ \A r \in Requests :
          WF_vars(Step(r)) /\ WF_vars(Answers(r)) /\ SF_vars(Rotate(r))
    /\ WF_vars(CloseReleases)

FairSpec == Spec /\ Fairness

------------------------------------------------------------------------------

(* The count of a client is the number of places that refer to it, at every *)
(* interleaving of acquisitions, rotations, releases and Close; a consumer  *)
(* that panics out of Stream, and nothing else, leaves one behind for good. *)
ReferencesCounted ==
    \A c \in Clients :
        Exists(c) => clients[c].refs = References(c) + (IF abandoned = c THEN 1 ELSE 0)

(* A client is closed exactly when nobody refers to it any more: nobody      *)
(* holds, or can still obtain, a closed one, and one nobody refers to is    *)
(* closed, a client made for a pool that was closed meanwhile included, but *)
(* not the one a panicking consumer left.                                   *)
ClosedWithItsLastUser ==
    \A c \in Clients :
        /\ References(c) > 0 \/ fresh = c => Exists(c)
        /\ Exists(c) => References(c) > 0 \/ c \in {fresh, abandoned}

(* A call blames or praises the key its request was sent with: the name it  *)
(* read is that of the client it read, whatever rotations go on around it.  *)
BlamesItsOwnKey ==
    /\ rc # NoClient => clients[rc].key = activeName
    /\ \A r \in Requests :
           req[r].rc # NoClient /\ req[r].kind # "peek"
               => clients[req[r].rc].key = req[r].name

(* A verdict fits its cause.  An admission whose request failed for a        *)
(* transient reason ends in nothing but a recorded failure, unless the       *)
(* caller's context ends first (or retries are disabled: pool.go:495); any  *)
(* other failure changes the breaker by re-arming the call's own probe, if   *)
(* at all; and once the caller's context is done a failure costs no key its  *)
(* health and rotates nothing.                                              *)
Transient(q) == q.err = "retryable" /\ ~q.ctxDone

VerdictFits(r) ==
    LET q == req[r]
    IN /\ ~DisableRetries /\ q.admitted /\ (Transient(q) \/ Transient(req'[r])) =>
             \/ req'[r].admitted /\ (Transient(req'[r]) \/ req'[r].ctxDone)
             \/ breaker' = RecordFailure(breaker, q.tok)
       /\ q.err # "none" /\ ~Transient(q) /\ req'[r] # q =>
             breaker' \in {breaker, ReleaseProbe(breaker, q.tok)}
       /\ q.err # "none" /\ q.ctxDone /\ req'[r] # q =>
             pool' = pool /\ rotator' # r

VerdictsFitTheirCause == [][\A r \in Requests : VerdictFits(r)]_vars

(* While the pool is open, a half-open circuit that is not re-armed and      *)
(* whose cooldown is running has its probe in flight: no way out of a call   *)
(* strands the probe and rejects other traffic for another cooldown.         *)
ProbeNotStranded ==
    rc # NoClient /\ breaker.state = "halfopen" /\ breaker.probeStarted = "recent"
        => \E r \in Requests : req[r].admitted /\ req[r].tok = breaker.probeGen

(* The calls of the pool drive the breaker as CircuitBreaker describes.     *)
CB == INSTANCE CircuitBreaker WITH
          Callers <- Requests, DirectCallers <- {}, NoCaller <- NoRequest,
          inflight <- {r \in Requests : req[r].admitted},
          token <- [r \in Requests |-> req[r].tok]

DrivesBreaker == CB!Spec

(* Every call returns. *)
CallsReturn == \A r \in Requests : Running(r) ~> ~Running(r)

(* Once the pool is closed, every client it ever made ends up closed.       *)
ClosedPoolDrains == rc = NoClient ~> [](\A c \in Clients : ~Exists(c))
==============================================================================
