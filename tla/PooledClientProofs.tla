-------------------------- MODULE PooledClientProofs --------------------------
(***************************************************************************)
(* Proofs about the pooled client: for any number of calls, of keys and of *)
(* clients, with a breaker or without one, and any mix of workloads.       *)
(***************************************************************************)
EXTENDS PooledClient, CircuitBreakerOpsProofs, FiniteSetTheorems,
        SequenceTheorems, WellFoundedInduction, TLAPS

(* What a call can have left to do. *)
Plans ==
    {<<>>, <<"gate", "acquire">>, <<"acquire">>, <<"call">>, <<"classify">>,
     <<"release", "markSuccess", "recordSuccess">>, <<"release", "markSuccess">>,
     <<"markSuccess", "recordSuccess">>, <<"markSuccess">>, <<"recordSuccess">>,
     <<"markSuccess", "recordSuccess", "release">>, <<"markSuccess", "release">>,
     <<"recordSuccess", "release">>, <<"release">>,
     <<"releaseProbe", "release">>, <<"releaseProbe">>,
     <<"markFailed", "recordFailure", "release">>, <<"markFailed", "release">>,
     <<"recordFailure", "release">>,
     <<"recordFailure", "markFailed", "rotate">>, <<"markFailed", "rotate">>,
     <<"rotate">>, <<"swap">>, <<"drop">>, <<"sleep">>}

StepsOf(t) == {t[i] : i \in DOMAIN t}

(* A call holds its client until the step that releases it. *)
HoldingSteps == {"call", "classify", "release"}
Holding(t) == StepsOf(t) \intersect HoldingSteps # {}

ReportSteps == {"recordSuccess", "recordFailure", "releaseProbe"}
Reporting(t) == StepsOf(t) \intersect ReportSteps # {}

(* What a failed attempt still does, and what of it costs a key something.   *)
FailureSteps == {"classify", "release", "releaseProbe", "markFailed", "recordFailure",
                 "rotate", "swap", "drop", "sleep"}
KeySteps == {"markFailed", "rotate", "swap", "drop"}

CallRecords ==
    [kind : {"none", "complete", "stream", "peek"}, todo : Plans, attempt : Nat,
     cap : Nat, admitted : BOOLEAN, tok : Tokens, rc : 0 .. NumClients,
     name : 0 .. NumKeys, err : {"none", "retryable", "auth", "fatal", "expired"},
     started : BOOLEAN, ctxDone : BOOLEAN]

(* A call keeps its client and its token exactly as long as its plan needs   *)
(* them, and its plan fits the error it has met.                            *)
HoldsWhilePlanned(q) == q.rc # NoClient <=> Holding(q.todo)

NeedsToken(q) ==
    \/ Reporting(q.todo)
    \/ q.kind # "peek" /\ q.todo \in {<<"acquire">>, <<"call">>, <<"classify">>}

AdmittedWhilePlanned(q) ==
    /\ q.admitted <=> HasBreaker /\ NeedsToken(q)
    /\ ~HasBreaker => ~Reporting(q.todo) /\ "gate" \notin StepsOf(q.todo)
    /\ ~q.admitted => q.tok = 0
    /\ q.kind = "peek" => StepsOf(q.todo) \subseteq {"acquire", "release"}

FitsItsCause(q) ==
    /\ q.err = "expired" => q.ctxDone
    /\ q.err # "none" => StepsOf(q.todo) \subseteq FailureSteps
    /\ q.err # "none" /\ ~Transient(q) => "recordFailure" \notin StepsOf(q.todo)
    /\ q.err # "none" /\ q.ctxDone => StepsOf(q.todo) \intersect KeySteps = {}
    /\ ~DisableRetries /\ Transient(q) => "releaseProbe" \notin StepsOf(q.todo)

Types ==
    /\ breaker \in Breakers
    /\ pool \in Pools
    /\ clients \in [Clients -> [key : 0 .. NumKeys, refs : Nat]]
    /\ rc \in 0 .. NumClients /\ activeName \in Keys
    /\ fresh \in 0 .. NumClients /\ swapped \in 0 .. NumClients
    /\ closing \in 0 .. NumClients /\ abandoned \in 0 .. NumClients
    /\ rotator \in Requests \union {NoRequest}
    /\ load \in Workloads
    /\ req \in [Requests -> CallRecords]

CallsInOrder ==
    \A r \in Requests : /\ HoldsWhilePlanned(req[r])
                        /\ AdmittedWhilePlanned(req[r])
                        /\ FitsItsCause(req[r])

(* rotateMu is held exactly between the making of a client and the release   *)
(* of the one it replaces.                                                  *)
RotatesAlone ==
    /\ rotator = NoRequest => fresh = NoClient /\ swapped = NoClient
    /\ rotator # NoRequest =>
          \/ req[rotator].todo = <<"swap">> /\ fresh # NoClient /\ swapped = NoClient
          \/ req[rotator].todo = <<"drop">> /\ fresh = NoClient /\ swapped # NoClient
    /\ \A r \in Requests : req[r].todo \in {<<"swap">>, <<"drop">>} => rotator = r

Count(c) == References(c) + (IF abandoned = c THEN 1 ELSE 0)

(* The count of a client tells whether anything refers to it, the panicking  *)
(* consumer's reference included; a client not yet installed has none.      *)
CountsTell ==
    /\ closing # NoClient => rc = NoClient
    /\ fresh # NoClient => Count(fresh) = 0
    /\ \A c \in Clients : /\ Exists(c) => clients[c].refs = Count(c)
                          /\ Exists(c) <=> Count(c) > 0 \/ fresh = c

NamesTell ==
    /\ rc # NoClient => clients[rc].key = activeName
    /\ \A r \in Requests :
           req[r].rc # NoClient => clients[req[r].rc].key = req[r].name

PoolInv == Types /\ CallsInOrder /\ RotatesAlone /\ CountsTell /\ NamesTell

------------------------------------------------------------------------------
(* The plans. *)

LEMMA ShortSequences ==
    /\ \A a, b, c : Tail(<<a, b, c>>) = <<b, c>> /\ Head(<<a, b, c>>) = a
    /\ \A a, b : Tail(<<a, b>>) = <<b>> /\ Head(<<a, b>>) = a
    /\ \A a : Tail(<<a>>) = <<>> /\ Head(<<a>>) = a
OBVIOUS

(* The steps of a plan are those of its literal. *)
LEMMA StepsOfShort ==
    /\ StepsOf(<<>>) = {}
    /\ \A a : StepsOf(<<a>>) = {a}
    /\ \A a, b : StepsOf(<<a, b>>) = {a, b}
    /\ \A a, b, c : StepsOf(<<a, b, c>>) = {a, b, c}
BY DEF StepsOf

LEMMA Concatenations ==
    /\ \A a, b : <<a>> \o <<b>> = <<a, b>>
    /\ \A a, b, c : <<a>> \o <<b, c>> = <<a, b, c>>
    /\ \A a, b, c : <<a, b>> \o <<c>> = <<a, b, c>>
<1>1. ASSUME NEW a, NEW b, NEW c
      PROVE  /\ <<a>> \o <<b>> = <<a, b>>
             /\ <<a>> \o <<b, c>> = <<a, b, c>>
             /\ <<a, b>> \o <<c>> = <<a, b, c>>
  <2> DEFINE S == {a, b, c}
  <2>1. /\ <<a>> \in Seq(S) /\ <<b>> \in Seq(S) /\ <<c>> \in Seq(S)
        /\ <<a, b>> \in Seq(S) /\ <<b, c>> \in Seq(S) /\ <<a, b, c>> \in Seq(S)
    OBVIOUS
  <2>2. /\ <<a>> \o <<b>> \in Seq(S) /\ Len(<<a>> \o <<b>>) = 2
        /\ \A i \in 1 .. 2 : (<<a>> \o <<b>>)[i] = <<a, b>>[i]
    BY <2>1
  <2>3. /\ <<a>> \o <<b, c>> \in Seq(S) /\ Len(<<a>> \o <<b, c>>) = 3
        /\ \A i \in 1 .. 3 : (<<a>> \o <<b, c>>)[i] = <<a, b, c>>[i]
    BY <2>1
  <2>4. /\ <<a, b>> \o <<c>> \in Seq(S) /\ Len(<<a, b>> \o <<c>>) = 3
        /\ \A i \in 1 .. 3 : (<<a, b>> \o <<c>>)[i] = <<a, b, c>>[i]
    BY <2>1
  <2>5. Len(<<a, b>>) = 2 /\ Len(<<a, b, c>>) = 3
    OBVIOUS
  <2> HIDE DEF S
  <2>6. <<a>> \o <<b>> = <<a, b>>
    BY <2>1, <2>2, <2>5, SeqEqual
  <2>7. <<a>> \o <<b, c>> = <<a, b, c>>
    BY <2>1, <2>3, <2>5, SeqEqual
  <2>8. <<a, b>> \o <<c>> = <<a, b, c>>
    BY <2>1, <2>4, <2>5, SeqEqual
  <2> QED
    BY <2>6, <2>7, <2>8
<1> QED
  BY <1>1

(* What the calls put on their plans, with a breaker and without one.        *)
LEMMA NoneOrOne ==
    ASSUME NEW s PROVE OnBreaker(s) = IF HasBreaker THEN <<s>> ELSE <<>>
BY DEF OnBreaker

LEMMA BreakerFirst ==
    ASSUME NEW s, NEW t
    PROVE  OnBreaker(s) \o <<t>> = IF HasBreaker THEN <<s, t>> ELSE <<t>>
<1>1. <<t>> \in Seq({t})
  OBVIOUS
<1>2. <<>> \o <<t>> = <<t>> /\ <<s>> \o <<t>> = <<s, t>>
  BY <1>1, ConcatEmptySeq, Concatenations
<1> QED
  BY <1>2 DEF OnBreaker

LEMMA BreakerBeforeTwo ==
    ASSUME NEW s, NEW t, NEW u
    PROVE  OnBreaker(s) \o <<t, u>> = IF HasBreaker THEN <<s, t, u>> ELSE <<t, u>>
<1>1. <<t, u>> \in Seq({t, u})
  OBVIOUS
<1>2. <<>> \o <<t, u>> = <<t, u>> /\ <<s>> \o <<t, u>> = <<s, t, u>>
  BY <1>1, ConcatEmptySeq, Concatenations
<1> QED
  BY <1>2 DEF OnBreaker

LEMMA BreakerLast ==
    ASSUME NEW s, NEW t, NEW u
    PROVE  <<s, t>> \o OnBreaker(u) = IF HasBreaker THEN <<s, t, u>> ELSE <<s, t>>
<1>1. <<s, t>> \in Seq({s, t})
  OBVIOUS
<1>2. <<s, t>> \o <<>> = <<s, t>> /\ <<s, t>> \o <<u>> = <<s, t, u>>
  BY <1>1, ConcatEmptySeq, Concatenations
<1> QED
  BY <1>2 DEF OnBreaker

LEMMA BreakerBetween ==
    ASSUME NEW s, NEW t, NEW u
    PROVE  <<s>> \o OnBreaker(t) \o <<u>> =
             IF HasBreaker THEN <<s, t, u>> ELSE <<s, u>>
<1>1. <<s>> \in Seq({s})
  OBVIOUS
<1>2. /\ <<s>> \o <<>> = <<s>> /\ <<s>> \o <<u>> = <<s, u>>
      /\ <<s>> \o <<t>> = <<s, t>> /\ <<s, t>> \o <<u>> = <<s, t, u>>
  BY <1>1, ConcatEmptySeq, Concatenations
<1> QED
  BY <1>2 DEF OnBreaker

(* Every plan is the head step and a plan that no longer needs what that     *)
(* step gives up; the steps that decide what comes next are the last.       *)
LEMMA PlanFacts ==
    ASSUME NEW t \in Plans, t # <<>>
    PROVE  /\ Tail(t) \in Plans
           /\ StepsOf(t) = {Head(t)} \union StepsOf(Tail(t))
           /\ Head(t) \in HoldingSteps => ~Holding(Tail(t))
           /\ Head(t) \in ReportSteps => ~Reporting(Tail(t))
           /\ Head(t) \in {"acquire", "call", "classify", "rotate", "swap", "drop", "sleep"}
                 => t = <<Head(t)>>
           /\ Head(t) = "gate" => t = <<"gate", "acquire">>
           /\ Tail(t) \notin {<<"call">>, <<"classify">>, <<"swap">>, <<"drop">>}
           /\ Tail(t) = <<"acquire">> => Head(t) = "gate"
<1> DEFINE Good(u) ==
             /\ Tail(u) \in Plans
             /\ StepsOf(u) = {Head(u)} \union StepsOf(Tail(u))
             /\ Head(u) \in HoldingSteps => ~Holding(Tail(u))
             /\ Head(u) \in ReportSteps => ~Reporting(Tail(u))
             /\ Head(u) \in {"acquire", "call", "classify", "rotate", "swap", "drop", "sleep"}
                   => u = <<Head(u)>>
             /\ Head(u) = "gate" => u = <<"gate", "acquire">>
             /\ Tail(u) \notin {<<"call">>, <<"classify">>, <<"swap">>, <<"drop">>}
             /\ Tail(u) = <<"acquire">> => Head(u) = "gate"
<1>1. ASSUME NEW a PROVE <<a>> \in Plans => Good(<<a>>)
  <2>1. Tail(<<a>>) = <<>> /\ Head(<<a>>) = a
    BY ShortSequences
  <2>2. <<>> \in Plans /\ <<>> \notin {<<"call">>, <<"classify">>, <<"swap">>, <<"drop">>, <<"acquire">>}
    BY DEF Plans
  <2>3. StepsOf(<<>>) = {} /\ StepsOf(<<a>>) = {a}
    BY StepsOfShort
  <2>4. <<a>> \in Plans => a # "gate"
    BY DEF Plans
  <2> QED
    BY <2>1, <2>2, <2>3, <2>4 DEF Holding, Reporting
<1>2. ASSUME NEW a, NEW b PROVE <<a, b>> \in Plans => Good(<<a, b>>)
  <2>1. Tail(<<a, b>>) = <<b>> /\ Head(<<a, b>>) = a
    BY ShortSequences
  <2>2. StepsOf(<<b>>) = {b} /\ StepsOf(<<a, b>>) = {a, b}
    BY StepsOfShort
  <2>3. <<a, b>> \in Plans =>
          \/ a = "gate" /\ b = "acquire"
          \/ a = "release" /\ b = "markSuccess"
          \/ a = "markSuccess" /\ b \in {"recordSuccess", "release"}
          \/ a \in ReportSteps /\ b = "release"
          \/ a = "markFailed" /\ b \in {"release", "rotate"}
    BY DEF Plans, ReportSteps
  <2>4. <<b>> = <<"acquire">> => b = "acquire"
    OBVIOUS
  <2>5. b \in {"acquire", "markSuccess", "recordSuccess", "release", "rotate"} =>
          <<b>> \in Plans \ {<<"call">>, <<"classify">>, <<"swap">>, <<"drop">>}
    BY DEF Plans
  <2> QED
    BY <2>1, <2>2, <2>3, <2>4, <2>5
    DEF Holding, Reporting, HoldingSteps, ReportSteps
<1>3. ASSUME NEW a, NEW b, NEW c PROVE <<a, b, c>> \in Plans => Good(<<a, b, c>>)
  <2>1. Tail(<<a, b, c>>) = <<b, c>> /\ Head(<<a, b, c>>) = a
    BY ShortSequences
  <2>2. StepsOf(<<b, c>>) = {b, c} /\ StepsOf(<<a, b, c>>) = {a, b, c}
    BY StepsOfShort
  <2>3. <<a, b, c>> \in Plans =>
          \/ a = "release" /\ b = "markSuccess" /\ c = "recordSuccess"
          \/ a = "markSuccess" /\ b = "recordSuccess" /\ c = "release"
          \/ a = "markFailed" /\ b = "recordFailure" /\ c = "release"
          \/ a = "recordFailure" /\ b = "markFailed" /\ c = "rotate"
    BY DEF Plans
  <2>4. <<b, c>> \notin {<<"call">>, <<"classify">>, <<"swap">>, <<"drop">>, <<"acquire">>}
    OBVIOUS
  <2>5. <<a, b, c>> \in Plans => <<b, c>> \in Plans
    BY <2>3 DEF Plans
  <2> QED
    BY <2>1, <2>2, <2>3, <2>4, <2>5
    DEF Holding, Reporting, HoldingSteps, ReportSteps
<1>4. \/ \E a : t = <<a>>
      \/ \E a, b : t = <<a, b>>
      \/ \E a, b, c : t = <<a, b, c>>
  BY DEF Plans
<1> HIDE DEF Good
<1>5. Good(t)
  BY <1>1, <1>2, <1>3, <1>4
<1> QED
  BY <1>5 DEF Good

------------------------------------------------------------------------------
(* The key pool, the choice of a client, the retry cap. *)

(* A set of naturals that is not empty has a least element.                 *)
LEMMA NatLeast ==
    ASSUME NEW S \in SUBSET Nat, S # {}
    PROVE  \E x \in S : \A y \in S : x <= y
<1> DEFINE R == OpToRel(<, Nat)
<1>1. IsWellFoundedOn(R, Nat)
  BY NatLessThanWellFounded, Zenon
<1>2. \A a, b \in Nat : a < b => <<a, b>> \in R
  BY DEF OpToRel
<1> HIDE DEF R
<1>3. PICK x \in S : \A y \in S : ~(<<y, x>> \in R)
  BY <1>1, WFMin
<1>4. ASSUME NEW y \in S PROVE x <= y
  <2>1. x \in Nat /\ y \in Nat /\ ~(y < x)
    BY <1>2, <1>3
  <2> QED
    BY <2>1
<1> QED
  BY <1>4

LEMMA LeastFacts ==
    ASSUME NEW S \in SUBSET Nat, S # {}
    PROVE  Least(S) \in S
BY NatLeast DEF Least

(* GetAvailable makes a key that is available the current one.               *)
LEMMA GetAvailableFacts ==
    ASSUME NEW p \in Pools, AvailableKeys(p) # {}
    PROVE  /\ NextAvailable(p) \in Keys
           /\ GetAvailable(p) \in Pools
           /\ GetAvailable(p).current = NextAvailable(p)
<1>1. ASSUME NEW k \in AvailableKeys(p) PROVE Distance(p, k) \in Nat
  BY NumKeysAssumption DEF AvailableKeys, Keys, Distance, Pools
<1>2. PICK d \in {Distance(p, k) : k \in AvailableKeys(p)} :
         \A e \in {Distance(p, k) : k \in AvailableKeys(p)} : d <= e
  <2> DEFINE D == {Distance(p, k) : k \in AvailableKeys(p)}
  <2>1. D \in SUBSET Nat /\ D # {}
    BY <1>1
  <2> HIDE DEF D
  <2>2. \E d \in D : \A e \in D : d <= e
    BY <2>1, NatLeast
  <2> QED
    BY <2>2 DEF D
<1>3. \E k \in AvailableKeys(p) :
         \A j \in AvailableKeys(p) : Distance(p, k) <= Distance(p, j)
  BY <1>2
<1>4. NextAvailable(p) \in AvailableKeys(p)
  BY <1>3 DEF NextAvailable
<1> QED
  BY <1>4 DEF AvailableKeys, GetAvailable, Pools

LEMMA MarkFacts ==
    ASSUME NEW p \in Pools, NEW k, NEW auth
    PROVE  MarkFailed(p, k, auth) \in Pools /\ MarkSuccess(p, k) \in Pools
BY DEF MarkFailed, MarkSuccess, Pools

(* The retry cap is a number. *)
LEMMA MaxRetriesType ==
    ASSUME Types
    PROVE  MaxRetries \in Nat
<1> DEFINE n == Cardinality(HealthyKeys(pool))
<1>1. IsFiniteSet(Keys)
  BY FS_Interval, NumKeysAssumption DEF Keys
<1>2. n \in Nat
  BY <1>1, FS_Subset, FS_CardinalityType DEF HealthyKeys
<1>3. load.retries \in Nat
  BY WorkloadsAssumption DEF Types
<1> HIDE DEF n
<1>4. {load.retries, IF n < 3 THEN 3 ELSE n} \in SUBSET Nat
  BY <1>2, <1>3
<1>5. Least({load.retries, IF n < 3 THEN 3 ELSE n}) \in Nat
  BY <1>4, LeastFacts
<1> QED
  BY <1>5 DEF MaxRetries, n

------------------------------------------------------------------------------
(* One call: what its record goes through. *)

InOrder(q) == HoldsWhilePlanned(q) /\ AdmittedWhilePlanned(q) /\ FitsItsCause(q)

LEMMA IdleFacts == Idle \in CallRecords /\ InOrder(Idle) /\ Idle.rc = NoClient
<1>1. Idle \in CallRecords
  BY AnyProbeAssumption, NumClientsAssumption, NumKeysAssumption
  DEF Idle, CallRecords, Plans, Tokens, NoClient
<1>2. /\ Idle.rc = NoClient /\ Idle.todo = <<>> /\ Idle.admitted = FALSE /\ Idle.tok = 0
      /\ Idle.err = "none" /\ Idle.kind = "none"
  BY DEF Idle
<1>3. ~Holding(<<>>) /\ ~Reporting(<<>>) /\ StepsOf(<<>>) = {}
  BY StepsOfShort DEF Holding, Reporting
<1>4. ~NeedsToken(Idle)
  BY <1>2, <1>3 DEF NeedsToken
<1> QED
  BY <1>1, <1>2, <1>3, <1>4
  DEF InOrder, HoldsWhilePlanned, AdmittedWhilePlanned,
      FitsItsCause, Transient, FailureSteps, KeySteps

(* A call that becomes an orderly record leaves the calls in order, and the  *)
(* others as they were.                                                     *)
LEMMA BecomeFacts ==
    ASSUME Types, CallsInOrder, NEW r \in Requests,
           NEW q \in CallRecords, InOrder(q), Become(r, q)
    PROVE  /\ req' \in [Requests -> CallRecords]
           /\ CallsInOrder'
           /\ \A s \in Requests : s # r => req'[s] = req[s]
           /\ req'[r].rc = q.rc /\ req'[r].todo = q.todo
           /\ q.rc # NoClient => req'[r] = q
<1>1. req \in [Requests -> CallRecords]
  BY DEF Types
<1>2. /\ req' \in [Requests -> CallRecords]
      /\ \A s \in Requests : s # r => req'[s] = req[s]
      /\ req'[r] = IF q.todo = <<>> THEN Idle ELSE q
  BY <1>1, IdleFacts DEF Become
<1>3. InOrder(req'[r])
  BY <1>2, IdleFacts
<1>4. CallsInOrder'
  BY <1>2, <1>3 DEF CallsInOrder, InOrder
<1>5. q.todo = <<>> => q.rc = NoClient
  BY StepsOfShort DEF InOrder, HoldsWhilePlanned, Holding
<1>6. Idle.todo = <<>> /\ Idle.rc = NoClient
  BY DEF Idle
<1> QED
  BY <1>2, <1>4, <1>5, <1>6

(* How many calls hold a client changes with the one that moves.             *)
Users(c) == {r \in Requests : req[r].rc = c}

LEMMA UsersMove ==
    ASSUME req \in [Requests -> CallRecords], req' \in [Requests -> CallRecords],
           NEW r \in Requests, \A s \in Requests : s # r => req'[s].rc = req[s].rc,
           NEW c
    PROVE  /\ Cardinality(Users(c)) \in Nat /\ Cardinality(Users(c)') \in Nat
           /\ req[r].rc = c => Cardinality(Users(c)) > 0
           /\ Cardinality(Users(c)') + (IF req[r].rc = c THEN 1 ELSE 0)
                 = Cardinality(Users(c)) + (IF req'[r].rc = c THEN 1 ELSE 0)
<1> DEFINE others == {s \in Requests : s # r /\ req[s].rc = c}
<1>1. IsFiniteSet(others) /\ r \notin others
  BY RequestsAssumption, FS_Subset
<1>2. /\ Users(c) = IF req[r].rc = c THEN others \union {r} ELSE others
      /\ Users(c)' = IF req'[r].rc = c THEN others \union {r} ELSE others
  BY DEF Users
<1> HIDE DEF others
<1>3. Cardinality(others) \in Nat /\ Cardinality(others \union {r}) = Cardinality(others) + 1
  BY <1>1, FS_CardinalityType, FS_AddElement
<1> QED
  BY <1>2, <1>3

------------------------------------------------------------------------------
(* Steps that move no reference. *)

Rotating(t) == t \in {<<"swap">>, <<"drop">>}

(* A call that moves on with the client it has, or with none, outside the    *)
(* rotation, disturbs nothing that the others rely on.                      *)
LEMMA LocalStep ==
    ASSUME PoolInv, NEW r \in Requests, NEW q \in CallRecords, InOrder(q), Become(r, q),
           q.rc = req[r].rc, q.rc # NoClient => q.name = req[r].name,
           ~Rotating(req[r].todo), ~Rotating(q.todo),
           breaker' \in Breakers, pool' \in Pools,
           UNCHANGED <<clients, handle, rotation, closing>>
    PROVE  PoolInv'
<1> USE DEF handle, rotation, surroundings
<1>1. /\ req' \in [Requests -> CallRecords]
      /\ CallsInOrder'
      /\ \A s \in Requests : s # r => req'[s] = req[s]
      /\ req'[r].rc = q.rc /\ req'[r].todo = q.todo
      /\ q.rc # NoClient => req'[r] = q
  BY BecomeFacts DEF PoolInv
<1>2. Types'
  BY <1>1 DEF PoolInv, Types
<1>3. RotatesAlone'
  BY <1>1, RequestsAssumption DEF PoolInv, Types, RotatesAlone, Rotating
<1>4. \A c : Users(c)' = Users(c)
  BY <1>1 DEF Users
<1>5. \A c : Count(c)' = Count(c)
  BY <1>4 DEF Count, References, Users
<1>6. CountsTell'
  BY <1>5 DEF PoolInv, CountsTell, Exists
<1>7. NamesTell'
  BY <1>1 DEF PoolInv, NamesTell
<1> QED
  BY <1>1, <1>2, <1>3, <1>6, <1>7 DEF PoolInv

(* Time passes, and nobody moves. *)
LEMMA QuietStep ==
    ASSUME PoolInv, breaker' \in Breakers, pool' \in Pools,
           UNCHANGED <<clients, handle, rotation, closing, req>>
    PROVE  PoolInv'
<1> USE DEF handle, rotation, surroundings
<1>1. \A c : Count(c)' = Count(c)
  BY DEF Count, References
<1> QED
  BY <1>1 DEF PoolInv, Types, CallsInOrder, HoldsWhilePlanned, AdmittedWhilePlanned,

                  FitsItsCause, Transient, FailureSteps, KeySteps, RotatesAlone, CountsTell, NamesTell, Exists

(* What is known of a call at a step. *)
LEMMA AtFacts ==
    ASSUME PoolInv, NEW r \in Requests, NEW step, At(r, step)
    PROVE  /\ req[r] \in CallRecords /\ InOrder(req[r])
           /\ req[r].todo \in Plans /\ req[r].todo # <<>> /\ Head(req[r].todo) = step
BY DEF PoolInv, Types, CallsInOrder, InOrder, At, Running, CallRecords

(* The plans of one step, and what they need. *)
LEMMA SinglePlans ==
    ASSUME NEW s
    PROVE  /\ <<s>> # <<>> /\ StepsOf(<<s>>) = {s}
           /\ Holding(<<s>>) <=> s \in HoldingSteps
           /\ Reporting(<<s>>) <=> s \in ReportSteps
           /\ Rotating(<<s>>) <=> s \in {"swap", "drop"}
           /\ <<s>> \in {<<"acquire">>, <<"call">>, <<"classify">>}
                 <=> s \in {"acquire", "call", "classify"}
<1>1. StepsOf(<<s>>) = {s}
  BY StepsOfShort
<1> QED
  BY <1>1 DEF Holding, Reporting, Rotating

(* A call whose plan asks for neither a client nor a token has neither, and  *)
(* may return.                                                              *)
LEMMA ReturnStep ==
    ASSUME PoolInv, NEW r \in Requests, Returns(r), req[r].rc = NoClient,
           ~Rotating(req[r].todo), breaker' \in Breakers, pool' \in Pools,
           UNCHANGED <<clients, handle, rotation, closing>>
    PROVE  PoolInv'
<1>1. ~Rotating(Idle.todo)
  BY DEF Idle, Rotating
<1> QED
  BY <1>1, IdleFacts, LocalStep DEF Returns

LEMMA CallStep ==
    ASSUME PoolInv, NEW r \in Requests, Call(r)
    PROVE  PoolInv'
<1> PICK k \in load.kinds :
       Become(r, [Idle EXCEPT !.kind = k,
                    !.cap = IF k = "peek" THEN 0 ELSE MaxRetries,
                    !.todo = IF k = "peek" THEN <<"acquire">>
                             ELSE OnBreaker("gate") \o <<"acquire">>])
  BY DEF Call
<1> DEFINE q == [Idle EXCEPT !.kind = k,
                    !.cap = IF k = "peek" THEN 0 ELSE MaxRetries,
                    !.todo = IF k = "peek" THEN <<"acquire">>
                             ELSE OnBreaker("gate") \o <<"acquire">>]
<1>1. k \in {"complete", "stream", "peek"} /\ MaxRetries \in Nat
  BY MaxRetriesType, WorkloadsAssumption DEF PoolInv, Types
<1>2. OnBreaker("gate") \o <<"acquire">> =
        IF HasBreaker THEN <<"gate", "acquire">> ELSE <<"acquire">>
  BY BreakerFirst
<1>3. q.todo \in {<<"acquire">>, <<"gate", "acquire">>} /\ q.kind = k
      /\ (k # "peek" /\ HasBreaker => q.todo = <<"gate", "acquire">>)
      /\ (k = "peek" \/ ~HasBreaker => q.todo = <<"acquire">>)
      /\ q.rc = NoClient /\ q.admitted = FALSE /\ q.tok = 0 /\ q.err = "none"
  BY <1>2 DEF Idle
<1>4. q \in CallRecords
  BY <1>1, <1>2, IdleFacts DEF CallRecords, Plans
<1> HIDE DEF q
<1>5. /\ StepsOf(<<"acquire">>) = {"acquire"}
      /\ StepsOf(<<"gate", "acquire">>) = {"gate", "acquire"}
      /\ <<"gate", "acquire">> \notin {<<"acquire">>, <<"call">>, <<"classify">>}
  BY StepsOfShort
<1>6. ~Holding(q.todo) /\ ~Reporting(q.todo) /\ ~Rotating(q.todo)
  BY <1>3, <1>5 DEF Holding, HoldingSteps, Reporting, ReportSteps, Rotating
<1>7. ~(HasBreaker /\ NeedsToken(q))
  BY <1>3, <1>5, <1>6 DEF NeedsToken
<1>8. InOrder(q)
  BY <1>1, <1>3, <1>5, <1>6, <1>7
  DEF InOrder, HoldsWhilePlanned, AdmittedWhilePlanned,
      FitsItsCause, Transient, FailureSteps, KeySteps
<1>9. /\ req[r].todo = <<>> /\ req[r].rc = NoClient /\ ~Rotating(req[r].todo)
  BY StepsOfShort
  DEF Call, Running, PoolInv, CallsInOrder, HoldsWhilePlanned, Holding, Rotating
<1> QED
  BY <1>3, <1>4, <1>6, <1>8, <1>9, LocalStep DEF Call, q, PoolInv, Types

(* Cancellation and delivery only set a flag of the record. *)
LEMMA CancelStep ==
    ASSUME PoolInv, NEW r \in Requests, Cancel(r)
    PROVE  PoolInv'
<1> DEFINE q == [req[r] EXCEPT !.ctxDone = TRUE]
<1>1. PICK step \in {"call", "classify", "sleep"} : At(r, step)
  BY DEF Cancel
<1>2. /\ req[r] \in CallRecords /\ InOrder(req[r])
      /\ req[r].todo = <<step>>
  BY <1>1, AtFacts, PlanFacts
<1>3. /\ q \in CallRecords /\ q.todo = <<step>> /\ q.ctxDone
      /\ q.rc = req[r].rc /\ q.name = req[r].name /\ q.kind = req[r].kind
      /\ q.admitted = req[r].admitted /\ q.tok = req[r].tok /\ q.err = req[r].err
  BY <1>2 DEF CallRecords
<1>4. Become(r, q)
  <2>1. req' = [req EXCEPT ![r] = q]
    BY DEF Cancel
  <2>2. q.todo # <<>>
    BY <1>3, SinglePlans
  <2> QED
    BY <2>1, <2>2 DEF Become
<1> HIDE DEF q
<1>5. InOrder(q)
  <2>1. StepsOf(<<step>>) = {step}
    BY SinglePlans
  <2> QED
    BY <1>2, <1>3, <2>1
    DEF InOrder, HoldsWhilePlanned, AdmittedWhilePlanned, NeedsToken,
        FitsItsCause, Transient, FailureSteps, KeySteps
<1>6. ~Rotating(<<step>>)
  BY SinglePlans
<1> QED
  BY <1>2, <1>3, <1>4, <1>5, <1>6, LocalStep DEF Cancel, PoolInv, Types

LEMMA EventStep ==
    ASSUME PoolInv, NEW r \in Requests, Event(r)
    PROVE  PoolInv'
<1> DEFINE q == [req[r] EXCEPT !.started = TRUE]
<1>2. /\ req[r] \in CallRecords /\ InOrder(req[r])
      /\ req[r].todo = <<"call">>
  BY AtFacts, PlanFacts DEF Event
<1>3. /\ q \in CallRecords /\ q.todo = <<"call">>
      /\ q.rc = req[r].rc /\ q.name = req[r].name /\ q.kind = req[r].kind
      /\ q.admitted = req[r].admitted /\ q.tok = req[r].tok /\ q.err = req[r].err
      /\ q.ctxDone = req[r].ctxDone
  BY <1>2 DEF CallRecords
<1>4. Become(r, q)
  <2>1. req' = [req EXCEPT ![r] = q]
    BY DEF Event
  <2>2. q.todo # <<>>
    BY <1>3, SinglePlans
  <2> QED
    BY <2>1, <2>2 DEF Become
<1> HIDE DEF q
<1>5. InOrder(q)
  BY <1>2, <1>3
  DEF InOrder, HoldsWhilePlanned, AdmittedWhilePlanned, NeedsToken,
      FitsItsCause, Transient, FailureSteps, KeySteps
<1>6. ~Rotating(<<"call">>)
  BY SinglePlans
<1> QED
  BY <1>2, <1>3, <1>4, <1>5, <1>6, LocalStep DEF Event, PoolInv, Types

(* A plan that waits for the gate or for a client has neither yet.           *)
LEMMA EntryPlans ==
    /\ StepsOf(<<"acquire">>) = {"acquire"}
    /\ StepsOf(<<"gate", "acquire">>) = {"gate", "acquire"}
    /\ \A t \in {<<"acquire">>, <<"gate", "acquire">>} :
          ~Holding(t) /\ ~Reporting(t) /\ ~Rotating(t)
    /\ <<"gate", "acquire">> \notin {<<"acquire">>, <<"call">>, <<"classify">>}
BY StepsOfShort DEF Holding, HoldingSteps, Reporting, ReportSteps, Rotating

LEMMA GateStep ==
    ASSUME PoolInv, NEW r \in Requests, GateAdmits(r) \/ GateRejects(r) \/ FindsClosed(r)
    PROVE  PoolInv'
<1>1. CASE GateAdmits(r)
  <2> DEFINE q == [req[r] EXCEPT !.admitted = TRUE, !.tok = ProbeToken(breaker),
                                 !.todo = Tail(req[r].todo)]
  <2>1. /\ req[r] \in CallRecords /\ InOrder(req[r])
        /\ req[r].todo = <<"gate", "acquire">>
    BY <1>1, AtFacts, PlanFacts DEF GateAdmits
  <2>2. /\ Allow(breaker) \in Breakers
        /\ ProbeToken(breaker) \in Tokens
    BY <1>1, AllowFacts, AnyProbeAssumption DEF GateAdmits, PoolInv, Types, Tokens
  <2>3. Tail(req[r].todo) = <<"acquire">> /\ <<"acquire">> \in Plans
    BY <2>1, ShortSequences DEF Plans
  <2>4. q \in CallRecords
    BY <2>1, <2>2, <2>3 DEF CallRecords
  <2>5. /\ q.todo = <<"acquire">> /\ q.admitted = TRUE /\ q.rc = req[r].rc
        /\ q.err = req[r].err /\ q.kind = req[r].kind /\ q.ctxDone = req[r].ctxDone
        /\ q.name = req[r].name
    BY <2>1, <2>3 DEF CallRecords
  <2>6. Become(r, q)
    BY <1>1 DEF GateAdmits
  <2> HIDE DEF q
  <2>7. HasBreaker /\ req[r].kind # "peek"
    BY <2>1, EntryPlans DEF InOrder, AdmittedWhilePlanned
  <2>8. NeedsToken(q)
    BY <2>5, <2>7 DEF NeedsToken
  <2>9. InOrder(q)
    BY <2>1, <2>5, <2>7, <2>8, EntryPlans
    DEF InOrder, HoldsWhilePlanned, AdmittedWhilePlanned,
        FitsItsCause, Transient, FailureSteps, KeySteps
  <2> QED
    BY <1>1, <2>1, <2>2, <2>4, <2>5, <2>6, <2>9, EntryPlans, LocalStep
    DEF GateAdmits, PoolInv, Types
<1>2. CASE GateRejects(r) \/ FindsClosed(r)
  <2>1. req[r].todo \in {<<"acquire">>, <<"gate", "acquire">>} /\ InOrder(req[r])
    BY <1>2, AtFacts, PlanFacts DEF GateRejects, FindsClosed
  <2>2. req[r].rc = NoClient /\ ~Rotating(req[r].todo)
    BY <2>1, EntryPlans DEF InOrder, HoldsWhilePlanned
  <2> QED
    BY <1>2, <2>2, ReturnStep DEF GateRejects, FindsClosed, PoolInv, Types
<1> QED
  BY <1>1, <1>2

(* The answers. *)

(* An answer that leaves the call with a plan of its own, and with its client. *)
LEMMA AnswerStep ==
    ASSUME PoolInv, NEW r \in Requests, NEW kinds, NEW q \in CallRecords,
           Answer(r, kinds, q), InOrder(q), ~Rotating(q.todo),
           q.rc = req[r].rc, q.name = req[r].name
    PROVE  PoolInv'
<1> DEFINE p == [q EXCEPT !.started = FALSE]
<1>1. req[r].todo = <<"call">>
  BY AtFacts, PlanFacts DEF Answer
<1>2. /\ p \in CallRecords /\ p.todo = q.todo /\ p.rc = q.rc /\ p.name = q.name
      /\ p.kind = q.kind /\ p.admitted = q.admitted /\ p.tok = q.tok /\ p.err = q.err
      /\ p.ctxDone = q.ctxDone
  BY DEF CallRecords
<1>3. Become(r, p)
  BY DEF Answer
<1> HIDE DEF p
<1>4. InOrder(p)
  BY <1>2
  DEF InOrder, HoldsWhilePlanned, AdmittedWhilePlanned, NeedsToken,
      FitsItsCause, Transient, FailureSteps, KeySteps
<1>5. ~Rotating(req[r].todo)
  BY <1>1, SinglePlans
<1> QED
  BY <1>2, <1>3, <1>4, <1>5, LocalStep DEF Answer, PoolInv, Types

(* What a call that waits for its client's answer is like. *)
LEMMA CallingFacts ==
    ASSUME PoolInv, NEW r \in Requests, At(r, "call")
    PROVE  /\ req[r] \in CallRecords /\ InOrder(req[r]) /\ req[r].todo = <<"call">>
           /\ req[r].rc # NoClient /\ req[r].kind # "peek"
           /\ req[r].admitted <=> HasBreaker
           /\ ~req[r].admitted => req[r].tok = 0
           /\ req[r].err = "none"
<1>1. /\ req[r] \in CallRecords /\ InOrder(req[r]) /\ req[r].todo = <<"call">>
  BY AtFacts, PlanFacts
<1>2. Holding(<<"call">>) /\ StepsOf(<<"call">>) = {"call"}
  BY SinglePlans DEF HoldingSteps
<1>3. req[r].rc # NoClient /\ req[r].kind # "peek"
  BY <1>1, <1>2 DEF InOrder, HoldsWhilePlanned, AdmittedWhilePlanned
<1>4. req[r].err = "none"
  BY <1>1, <1>2 DEF InOrder, FitsItsCause, FailureSteps
<1> QED
  BY <1>1, <1>3, <1>4 DEF InOrder, AdmittedWhilePlanned, NeedsToken

LEMMA ErrorsFacts ==
    ASSUME PoolInv, NEW r \in Requests, NEW e \in Errors(r)
    PROVE  /\ e \in {"retryable", "auth", "fatal", "expired"}
           /\ e = "expired" => req[r].ctxDone
BY WorkloadsAssumption DEF Errors, PoolInv, Types

(* A report is on a plan exactly with a breaker. *)
WithBreaker(step) == IF HasBreaker THEN {step} ELSE {}

LEMMA ReportedPlans ==
    /\ \A s : StepsOf(OnBreaker(s)) = WithBreaker(s)
    /\ \A s, t : StepsOf(OnBreaker(s) \o <<t>>) = {t} \union WithBreaker(s)
    /\ \A s, t, u : StepsOf(OnBreaker(s) \o <<t, u>>) = {t, u} \union WithBreaker(s)
    /\ \A s, t, u : StepsOf(<<s, t>> \o OnBreaker(u)) = {s, t} \union WithBreaker(u)
    /\ \A s, t, u :
          StepsOf(<<s>> \o OnBreaker(t) \o <<u>>) = {s, u} \union WithBreaker(t)
<1>1. ASSUME NEW s
      PROVE  StepsOf(OnBreaker(s)) = WithBreaker(s)
  BY NoneOrOne, StepsOfShort DEF WithBreaker
<1>2. ASSUME NEW s, NEW t
      PROVE  StepsOf(OnBreaker(s) \o <<t>>) = {t} \union WithBreaker(s)
  <2>1. OnBreaker(s) \o <<t>> = IF HasBreaker THEN <<s, t>> ELSE <<t>>
    BY BreakerFirst
  <2>2. StepsOf(<<s, t>>) = {s, t} /\ StepsOf(<<t>>) = {t}
    BY StepsOfShort
  <2> QED
    BY <2>1, <2>2 DEF WithBreaker
<1>3. ASSUME NEW s, NEW t, NEW u
      PROVE  StepsOf(OnBreaker(s) \o <<t, u>>) = {t, u} \union WithBreaker(s)
  <2>1. OnBreaker(s) \o <<t, u>> = IF HasBreaker THEN <<s, t, u>> ELSE <<t, u>>
    BY BreakerBeforeTwo
  <2>2. StepsOf(<<s, t, u>>) = {s, t, u} /\ StepsOf(<<t, u>>) = {t, u}
    BY StepsOfShort
  <2> QED
    BY <2>1, <2>2 DEF WithBreaker
<1>4. ASSUME NEW s, NEW t, NEW u
      PROVE  StepsOf(<<s, t>> \o OnBreaker(u)) = {s, t} \union WithBreaker(u)
  <2>1. <<s, t>> \o OnBreaker(u) = IF HasBreaker THEN <<s, t, u>> ELSE <<s, t>>
    BY BreakerLast
  <2>2. StepsOf(<<s, t, u>>) = {s, t, u} /\ StepsOf(<<s, t>>) = {s, t}
    BY StepsOfShort
  <2> QED
    BY <2>1, <2>2 DEF WithBreaker
<1>5. ASSUME NEW s, NEW t, NEW u
      PROVE  StepsOf(<<s>> \o OnBreaker(t) \o <<u>>) = {s, u} \union WithBreaker(t)
  <2>1. <<s>> \o OnBreaker(t) \o <<u>> = IF HasBreaker THEN <<s, t, u>> ELSE <<s, u>>
    BY BreakerBetween
  <2>2. StepsOf(<<s, t, u>>) = {s, t, u} /\ StepsOf(<<s, u>>) = {s, u}
    BY StepsOfShort
  <2> QED
    BY <2>1, <2>2 DEF WithBreaker
<1> QED
  BY <1>1, <1>2, <1>3, <1>4, <1>5

(* A plan made after an answer still holds the client, and reports exactly   *)
(* if there is a breaker to report to; unless it has forgotten its token.    *)
LEMMA HeldInOrder ==
    ASSUME NEW q \in CallRecords, q.rc # NoClient, q.kind # "peek",
           q.todo \notin {<<"acquire">>, <<"call">>, <<"classify">>},
           "release" \in StepsOf(q.todo), "gate" \notin StepsOf(q.todo),
           q.admitted <=> Reporting(q.todo), ~HasBreaker => ~Reporting(q.todo),
           ~q.admitted => q.tok = 0, FitsItsCause(q)
    PROVE  InOrder(q)
BY DEF InOrder, HoldsWhilePlanned, AdmittedWhilePlanned, NeedsToken, Holding, HoldingSteps

LEMMA SucceedsStep ==
    ASSUME PoolInv, NEW r \in Requests, Succeeds(r) \/ ConsumerBreaks(r)
    PROVE  PoolInv'
<1> DEFINE t1 == <<"release", "markSuccess">> \o OnBreaker("recordSuccess")
           t2 == <<"markSuccess">> \o OnBreaker("recordSuccess") \o <<"release">>
           q(t) == [req[r] EXCEPT !.todo = t]
<1>1. /\ req[r] \in CallRecords /\ InOrder(req[r]) /\ req[r].todo = <<"call">>
      /\ req[r].rc # NoClient /\ req[r].kind # "peek"
      /\ req[r].admitted <=> HasBreaker
      /\ ~req[r].admitted => req[r].tok = 0
      /\ req[r].err = "none"
  BY CallingFacts DEF Succeeds, ConsumerBreaks, Answer
<1>2. /\ t1 \in Plans /\ ~Rotating(t1)
      /\ t1 \notin {<<"acquire">>, <<"call">>, <<"classify">>}
  <2>1. t1 \in {<<"release", "markSuccess", "recordSuccess">>, <<"release", "markSuccess">>}
    BY BreakerLast
  <2> QED
    BY <2>1 DEF Plans, Rotating
<1>3. /\ t2 \in Plans /\ ~Rotating(t2)
      /\ t2 \notin {<<"acquire">>, <<"call">>, <<"classify">>}
  <2>1. t2 \in {<<"markSuccess", "recordSuccess", "release">>, <<"markSuccess", "release">>}
    BY BreakerBetween
  <2> QED
    BY <2>1 DEF Plans, Rotating
<1>4. /\ StepsOf(t1) = {"release", "markSuccess"} \union WithBreaker("recordSuccess")
      /\ StepsOf(t2) = {"release", "markSuccess"} \union WithBreaker("recordSuccess")
  BY ReportedPlans
<1>5. \/ Answer(r, {"complete", "stream"}, q(t1))
      \/ Answer(r, {"stream"}, q(t2))
  BY DEF Succeeds, ConsumerBreaks
<1> HIDE DEF t1, t2
<1>6. ASSUME NEW t \in {t1, t2}
      PROVE  /\ q(t) \in CallRecords /\ InOrder(q(t)) /\ ~Rotating(q(t).todo)
             /\ q(t).rc = req[r].rc /\ q(t).name = req[r].name
  <2> DEFINE p == q(t)
  <2>1. /\ p \in CallRecords /\ p.todo = t /\ p.rc = req[r].rc /\ p.name = req[r].name
        /\ p.kind = req[r].kind /\ p.admitted = req[r].admitted /\ p.tok = req[r].tok
        /\ p.err = req[r].err /\ p.ctxDone = req[r].ctxDone
    BY <1>1, <1>2, <1>3 DEF CallRecords
  <2> HIDE DEF p
  <2>2. /\ StepsOf(t) = {"release", "markSuccess"} \union WithBreaker("recordSuccess")
        /\ Reporting(t) <=> HasBreaker
    BY <1>4 DEF Reporting, ReportSteps, WithBreaker
  <2>3. FitsItsCause(p)
    BY <1>1, <2>1, <2>2 DEF InOrder,
        FitsItsCause, Transient, FailureSteps, KeySteps, WithBreaker
  <2>4. InOrder(p)
    BY <1>1, <1>2, <1>3, <2>1, <2>2, <2>3, HeldInOrder DEF WithBreaker
  <2> QED
    BY <1>2, <1>3, <2>1, <2>4 DEF p
<1> QED
  BY <1>5, <1>6, AnswerStep

LEMMA FailsBeforeDataStep ==
    ASSUME PoolInv, NEW r \in Requests, FailsBeforeData(r)
    PROVE  PoolInv'
<1> PICK e \in Errors(r) :
       Answer(r, {"complete", "stream"}, [req[r] EXCEPT !.err = e, !.todo = <<"classify">>])
  BY DEF FailsBeforeData
<1> DEFINE q == [req[r] EXCEPT !.err = e, !.todo = <<"classify">>]
<1>1. /\ req[r] \in CallRecords /\ InOrder(req[r])
      /\ req[r].rc # NoClient /\ req[r].kind # "peek"
      /\ req[r].admitted <=> HasBreaker
      /\ ~req[r].admitted => req[r].tok = 0
  BY CallingFacts DEF Answer
<1>2. e \in {"retryable", "auth", "fatal", "expired"} /\ (e = "expired" => req[r].ctxDone)
  BY ErrorsFacts
<1>3. /\ q \in CallRecords /\ q.todo = <<"classify">> /\ q.rc = req[r].rc
      /\ q.name = req[r].name /\ q.kind = req[r].kind /\ q.admitted = req[r].admitted
      /\ q.tok = req[r].tok /\ q.err = e /\ q.ctxDone = req[r].ctxDone
  <2>1. <<"classify">> \in Plans
    BY DEF Plans
  <2> QED
    BY <1>1, <1>2, <2>1 DEF CallRecords
<1>4. /\ StepsOf(<<"classify">>) = {"classify"} /\ Holding(<<"classify">>)
      /\ ~Reporting(<<"classify">>) /\ ~Rotating(<<"classify">>)
  BY SinglePlans DEF HoldingSteps, ReportSteps
<1>5. Answer(r, {"complete", "stream"}, q)
  OBVIOUS
<1> HIDE DEF q
<1>6. InOrder(q)
  BY <1>1, <1>2, <1>3, <1>4
  DEF InOrder, HoldsWhilePlanned, AdmittedWhilePlanned, NeedsToken,
      FitsItsCause, Transient, FailureSteps, KeySteps
<1> QED
  BY <1>3, <1>4, <1>5, <1>6, AnswerStep

(* A call whose token no plan needs any more forgets it. *)
LEMMA ForgetFacts ==
    ASSUME NEW q \in CallRecords
    PROVE  /\ Forget(q) \in CallRecords
           /\ Forget(q).admitted = FALSE /\ Forget(q).tok = 0
           /\ Forget(q).todo = q.todo /\ Forget(q).rc = q.rc /\ Forget(q).name = q.name
           /\ Forget(q).kind = q.kind /\ Forget(q).err = q.err
           /\ Forget(q).ctxDone = q.ctxDone
<1>1. 0 \in Tokens
  BY AnyProbeAssumption DEF Tokens
<1> QED
  BY <1>1 DEF Forget, CallRecords

LEMMA PlanUpdate ==
    ASSUME NEW q \in CallRecords, NEW t \in Plans
    PROVE  LET p == [q EXCEPT !.todo = t]
           IN  /\ p \in CallRecords /\ p.todo = t /\ p.rc = q.rc /\ p.name = q.name
               /\ p.kind = q.kind /\ p.err = q.err /\ p.ctxDone = q.ctxDone
               /\ p.admitted = q.admitted /\ p.tok = q.tok
BY DEF CallRecords

(* The plans a failure leads to. *)
LEMMA FailurePlans ==
    /\ OnBreaker("releaseProbe") \o <<"release">> \in Plans
    /\ StepsOf(OnBreaker("releaseProbe") \o <<"release">>) =
          {"release"} \union WithBreaker("releaseProbe")
    /\ <<"markFailed">> \o OnBreaker("recordFailure") \o <<"release">> \in Plans
    /\ StepsOf(<<"markFailed">> \o OnBreaker("recordFailure") \o <<"release">>) =
          {"markFailed", "release"} \union WithBreaker("recordFailure")
    /\ <<"markFailed", "release">> \in Plans
    /\ StepsOf(<<"markFailed", "release">>) = {"markFailed", "release"}
    /\ OnBreaker("releaseProbe") \in Plans
    /\ StepsOf(OnBreaker("releaseProbe")) = WithBreaker("releaseProbe")
    /\ OnBreaker("recordFailure") \o <<"markFailed", "rotate">> \in Plans
    /\ StepsOf(OnBreaker("recordFailure") \o <<"markFailed", "rotate">>) =
          {"markFailed", "rotate"} \union WithBreaker("recordFailure")
    /\ <<"markFailed", "rotate">> \in Plans
    /\ StepsOf(<<"markFailed", "rotate">>) = {"markFailed", "rotate"}
<1>1. /\ OnBreaker("releaseProbe") \o <<"release">>
            \in {<<"releaseProbe", "release">>, <<"release">>}
      /\ <<"markFailed">> \o OnBreaker("recordFailure") \o <<"release">>
            \in {<<"markFailed", "recordFailure", "release">>, <<"markFailed", "release">>}
      /\ OnBreaker("releaseProbe") \in {<<"releaseProbe">>, <<>>}
      /\ OnBreaker("recordFailure") \o <<"markFailed", "rotate">>
            \in {<<"recordFailure", "markFailed", "rotate">>, <<"markFailed", "rotate">>}
  <2>1. OnBreaker("releaseProbe") \in {<<"releaseProbe">>, <<>>}
    BY NoneOrOne
  <2>2. OnBreaker("releaseProbe") \o <<"release">>
            \in {<<"releaseProbe", "release">>, <<"release">>}
    BY BreakerFirst
  <2>3. <<"markFailed">> \o OnBreaker("recordFailure") \o <<"release">>
            \in {<<"markFailed", "recordFailure", "release">>, <<"markFailed", "release">>}
    BY BreakerBetween
  <2>4. OnBreaker("recordFailure") \o <<"markFailed", "rotate">>
            \in {<<"recordFailure", "markFailed", "rotate">>, <<"markFailed", "rotate">>}
    BY BreakerBeforeTwo
  <2> QED
    BY <2>1, <2>2, <2>3, <2>4
<1>2. /\ OnBreaker("releaseProbe") \o <<"release">> \in Plans
      /\ <<"markFailed">> \o OnBreaker("recordFailure") \o <<"release">> \in Plans
      /\ OnBreaker("releaseProbe") \in Plans
      /\ OnBreaker("recordFailure") \o <<"markFailed", "rotate">> \in Plans
      /\ <<"markFailed", "release">> \in Plans /\ <<"markFailed", "rotate">> \in Plans
  BY <1>1 DEF Plans
<1> QED
  BY <1>2, ReportedPlans, StepsOfShort

(* A plan that takes some of these steps is none of the short ones.         *)
LEMMA PlansApart ==
    ASSUME NEW t, StepsOf(t) \intersect (FailureSteps \ {"classify", "swap", "drop"}) # {}
                  \/ t = <<>>
    PROVE  /\ t \notin {<<"acquire">>, <<"call">>, <<"classify">>}
           /\ t \notin {<<"swap">>, <<"drop">>}
<1>1. \A s : StepsOf(<<s>>) = {s} /\ <<s>> # <<>>
  BY StepsOfShort
<1> QED
  BY <1>1 DEF FailureSteps

(* What is passed on to the consumer goes on with the client, and reports    *)
(* what its error says of the endpoint.                                     *)
LEMMA PassedOnFacts ==
    ASSUME NEW q \in CallRecords, q.rc # NoClient, q.kind # "peek",
           q.admitted <=> HasBreaker, ~q.admitted => q.tok = 0,
           q.err = "expired" => q.ctxDone
    PROVE  /\ PassedOn(q) \in CallRecords /\ InOrder(PassedOn(q))
           /\ ~Rotating(PassedOn(q).todo)
           /\ PassedOn(q).rc = q.rc /\ PassedOn(q).name = q.name
<1>1. CASE q.ctxDone \/ ~(IsRetryable(q.err) \/ IsAuthError(q.err))
  <2> DEFINE t == OnBreaker("releaseProbe") \o <<"release">>
             p == [q EXCEPT !.todo = t]
  <2>1. t \in Plans /\ StepsOf(t) = {"release"} \union WithBreaker("releaseProbe")
    BY FailurePlans
  <2>2. PassedOn(q) = p
    BY <1>1 DEF PassedOn
  <2> HIDE DEF t
  <2>3. /\ p \in CallRecords /\ p.todo = t /\ p.rc = q.rc /\ p.name = q.name
        /\ p.kind = q.kind /\ p.err = q.err /\ p.ctxDone = q.ctxDone
        /\ p.admitted = q.admitted /\ p.tok = q.tok
    BY <2>1, PlanUpdate
  <2> HIDE DEF p
  <2>4. Reporting(t) <=> HasBreaker
    BY <2>1 DEF Reporting, ReportSteps, WithBreaker
  <2>5. FitsItsCause(p)
    BY <1>1, <2>1, <2>3 DEF
        FitsItsCause, Transient, FailureSteps, KeySteps, WithBreaker, IsRetryable
  <2>6. ~Rotating(t) /\ t \notin {<<"acquire">>, <<"call">>, <<"classify">>}
    BY <2>1, PlansApart DEF Rotating, FailureSteps
  <2>7. InOrder(p)
    BY <2>1, <2>3, <2>4, <2>5, <2>6, HeldInOrder DEF WithBreaker
  <2> QED
    BY <2>2, <2>3, <2>6, <2>7
<1>2. CASE ~q.ctxDone /\ ~IsAuthError(q.err) /\ IsRetryable(q.err)
  <2> DEFINE t == <<"markFailed">> \o OnBreaker("recordFailure") \o <<"release">>
             p == [q EXCEPT !.todo = t]
  <2>1. t \in Plans /\ StepsOf(t) = {"markFailed", "release"} \union WithBreaker("recordFailure")
    BY FailurePlans
  <2>2. PassedOn(q) = p
    BY <1>2 DEF PassedOn
  <2> HIDE DEF t
  <2>3. /\ p \in CallRecords /\ p.todo = t /\ p.rc = q.rc /\ p.name = q.name
        /\ p.kind = q.kind /\ p.err = q.err /\ p.ctxDone = q.ctxDone
        /\ p.admitted = q.admitted /\ p.tok = q.tok
    BY <2>1, PlanUpdate
  <2> HIDE DEF p
  <2>4. Reporting(t) <=> HasBreaker
    BY <2>1 DEF Reporting, ReportSteps, WithBreaker
  <2>5. FitsItsCause(p)
    BY <1>2, <2>1, <2>3 DEF FitsItsCause, Transient, FailureSteps, KeySteps, WithBreaker,
                                IsRetryable
  <2>6. ~Rotating(t) /\ t \notin {<<"acquire">>, <<"call">>, <<"classify">>}
    BY <2>1, PlansApart DEF Rotating, FailureSteps
  <2>7. InOrder(p)
    BY <2>1, <2>3, <2>4, <2>5, <2>6, HeldInOrder DEF WithBreaker
  <2> QED
    BY <2>2, <2>3, <2>6, <2>7
<1>3. CASE ~q.ctxDone /\ IsAuthError(q.err)
  <2> DEFINE t == <<"markFailed", "release">>
             p == [Forget(q) EXCEPT !.todo = t]
  <2>1. t \in Plans /\ StepsOf(t) = {"markFailed", "release"}
    BY FailurePlans
  <2>2. PassedOn(q) = p
    BY <1>3 DEF PassedOn
  <2> HIDE DEF t
  <2>3. /\ p \in CallRecords /\ p.todo = t /\ p.rc = q.rc /\ p.name = q.name
        /\ p.kind = q.kind /\ p.err = q.err /\ p.ctxDone = q.ctxDone
        /\ p.admitted = FALSE /\ p.tok = 0
    <3> DEFINE f == Forget(q)
    <3>1. /\ f \in CallRecords /\ f.admitted = FALSE /\ f.tok = 0 /\ f.rc = q.rc
          /\ f.name = q.name /\ f.kind = q.kind /\ f.err = q.err /\ f.ctxDone = q.ctxDone
      BY ForgetFacts
    <3> HIDE DEF f
    <3>2. LET u == [f EXCEPT !.todo = t]
          IN  /\ u \in CallRecords /\ u.todo = t /\ u.rc = f.rc /\ u.name = f.name
              /\ u.kind = f.kind /\ u.err = f.err /\ u.ctxDone = f.ctxDone
              /\ u.admitted = f.admitted /\ u.tok = f.tok
      BY <2>1, <3>1, PlanUpdate
    <3> QED
      BY <3>1, <3>2 DEF f
  <2> HIDE DEF p
  <2>4. ~Reporting(t)
    BY <2>1 DEF Reporting, ReportSteps
  <2>5. FitsItsCause(p)
    BY <1>3, <2>1, <2>3 DEF FitsItsCause, Transient, FailureSteps, KeySteps, IsAuthError
  <2>6. ~Rotating(t) /\ t \notin {<<"acquire">>, <<"call">>, <<"classify">>}
    BY <2>1, PlansApart DEF Rotating, FailureSteps
  <2>7. InOrder(p)
    BY <2>1, <2>3, <2>4, <2>5, <2>6, HeldInOrder
  <2> QED
    BY <2>2, <2>3, <2>6, <2>7
<1> QED
  BY <1>1, <1>2, <1>3

LEMMA FailsMidStreamStep ==
    ASSUME PoolInv, NEW r \in Requests, FailsMidStream(r)
    PROVE  PoolInv'
<1> PICK e \in Errors(r) : Answer(r, {"stream"}, PassedOn([req[r] EXCEPT !.err = e]))
  BY DEF FailsMidStream
<1> DEFINE q == [req[r] EXCEPT !.err = e]
<1>1. /\ req[r] \in CallRecords
      /\ req[r].rc # NoClient /\ req[r].kind # "peek"
      /\ req[r].admitted <=> HasBreaker
      /\ ~req[r].admitted => req[r].tok = 0
  BY CallingFacts DEF Answer
<1>2. e \in {"retryable", "auth", "fatal", "expired"} /\ (e = "expired" => req[r].ctxDone)
  BY ErrorsFacts
<1>3. /\ q \in CallRecords /\ q.rc = req[r].rc
      /\ q.name = req[r].name /\ q.kind = req[r].kind /\ q.admitted = req[r].admitted
      /\ q.tok = req[r].tok /\ q.err = e /\ q.ctxDone = req[r].ctxDone
  BY <1>1, <1>2 DEF CallRecords
<1>4. Answer(r, {"stream"}, PassedOn(q))
  OBVIOUS
<1> HIDE DEF q
<1> QED
  BY <1>1, <1>2, <1>3, <1>4, PassedOnFacts, AnswerStep

(* The reports. *)

LEMMA ReportToPoolStep ==
    ASSUME PoolInv, NEW r \in Requests, ReportToPool(r)
    PROVE  PoolInv'
<1> DEFINE t == req[r].todo
           q == [req[r] EXCEPT !.todo = Tail(t)]
<1>1. PICK h \in {"markSuccess", "markFailed"} : At(r, h)
  BY DEF ReportToPool
<1>2. /\ req[r] \in CallRecords /\ InOrder(req[r])
      /\ t \in Plans /\ t # <<>> /\ Head(t) = h
  BY <1>1, AtFacts
<1>3. Become(r, q)
  BY DEF ReportToPool, Proceed
<1> HIDE DEF t
<1>4. /\ Tail(t) \in Plans /\ StepsOf(t) = {h} \union StepsOf(Tail(t))
      /\ Tail(t) \notin {<<"call">>, <<"classify">>, <<"acquire">>}
      /\ ~Rotating(Tail(t))
  BY <1>2, PlanFacts DEF Rotating
<1>5. ~Rotating(t) /\ t \notin {<<"call">>, <<"classify">>, <<"acquire">>}
  BY <1>2, ShortSequences DEF Rotating
<1>6. /\ q \in CallRecords /\ q.todo = Tail(t) /\ q.rc = req[r].rc
      /\ q.name = req[r].name /\ q.kind = req[r].kind /\ q.err = req[r].err
      /\ q.ctxDone = req[r].ctxDone /\ q.admitted = req[r].admitted /\ q.tok = req[r].tok
  BY <1>2, <1>4, PlanUpdate
<1> HIDE DEF q
<1>7. /\ Holding(Tail(t)) <=> Holding(t)
      /\ Reporting(Tail(t)) <=> Reporting(t)
  BY <1>4 DEF Holding, HoldingSteps, Reporting, ReportSteps
<1>8. InOrder(q)
  BY <1>2, <1>4, <1>5, <1>6, <1>7
  DEF t, InOrder, HoldsWhilePlanned, AdmittedWhilePlanned, NeedsToken,
      FitsItsCause, Transient, FailureSteps, KeySteps
<1>9. pool' \in Pools
  BY MarkFacts DEF ReportToPool, PoolInv, Types
<1> QED
  BY <1>3, <1>4, <1>5, <1>6, <1>8, <1>9, LocalStep DEF t, ReportToPool, PoolInv, Types

(* What a call that is about to report to the breaker is like. *)
LEMMA ReportingFacts ==
    ASSUME PoolInv, NEW r \in Requests, NEW h \in ReportSteps, At(r, h)
    PROVE  req[r].admitted /\ req[r].tok \in Tokens /\ HasBreaker
<1>1. /\ req[r] \in CallRecords /\ InOrder(req[r])
      /\ h \in StepsOf(req[r].todo)
  BY AtFacts, PlanFacts
<1> QED
  BY <1>1 DEF InOrder, AdmittedWhilePlanned, NeedsToken, Reporting, CallRecords

LEMMA ReportToBreakerStep ==
    ASSUME PoolInv, NEW r \in Requests, ReportToBreaker(r)
    PROVE  PoolInv'
<1> DEFINE t == req[r].todo
           f == Forget(req[r])
           q == [f EXCEPT !.todo = Tail(t)]
<1>1. PICK h \in ReportSteps : At(r, h)
  BY DEF ReportToBreaker, Report, ReportSteps
<1>2. /\ req[r] \in CallRecords /\ InOrder(req[r])
      /\ t \in Plans /\ t # <<>> /\ Head(t) = h
  BY <1>1, AtFacts
<1>3. /\ f \in CallRecords /\ f.admitted = FALSE /\ f.tok = 0 /\ f.todo = t
      /\ f.rc = req[r].rc /\ f.name = req[r].name /\ f.kind = req[r].kind
      /\ f.err = req[r].err /\ f.ctxDone = req[r].ctxDone
  BY <1>2, ForgetFacts
<1>4. Become(r, q)
  <2>1. Become(r, [Forget(req[r]) EXCEPT !.todo = Tail(@)])
    BY DEF ReportToBreaker, Report
  <2> HIDE DEF f, t
  <2>2. [f EXCEPT !.todo = Tail(@)] = [f EXCEPT !.todo = Tail(t)]
    BY <1>3
  <2> QED
    BY <2>1, <2>2 DEF f
<1> HIDE DEF t, f
<1>5. /\ Tail(t) \in Plans /\ StepsOf(t) = {h} \union StepsOf(Tail(t))
      /\ Tail(t) \notin {<<"call">>, <<"classify">>, <<"acquire">>}
      /\ ~Rotating(Tail(t)) /\ ~Reporting(Tail(t))
  BY <1>2, PlanFacts DEF Rotating, ReportSteps
<1>6. ~Rotating(t)
  BY <1>2, ShortSequences DEF Rotating, ReportSteps
<1>7. /\ q \in CallRecords /\ q.todo = Tail(t) /\ q.rc = req[r].rc
      /\ q.name = req[r].name /\ q.kind = req[r].kind /\ q.err = req[r].err
      /\ q.ctxDone = req[r].ctxDone /\ q.admitted = FALSE /\ q.tok = 0
  BY <1>3, <1>5, PlanUpdate
<1> HIDE DEF q
<1>8. Holding(Tail(t)) <=> Holding(t)
  BY <1>5 DEF Holding, HoldingSteps, ReportSteps
<1>9. InOrder(q)
  BY <1>2, <1>5, <1>7, <1>8
  DEF t, InOrder, HoldsWhilePlanned, AdmittedWhilePlanned, NeedsToken,
      FitsItsCause, Transient, FailureSteps, KeySteps
<1>10. breaker' \in Breakers
  <2>1. breaker \in Breakers /\ req[r].tok \in Tokens
    BY <1>1, ReportingFacts DEF PoolInv, Types
  <2> QED
    BY <2>1, SuccessFacts, FailureFacts, ReleaseFacts DEF ReportToBreaker, Report
<1>11. pool' = pool /\ UNCHANGED <<clients, handle, rotation, closing>>
  BY DEF ReportToBreaker, Report
<1> QED
  BY <1>4, <1>5, <1>6, <1>7, <1>9, <1>10, <1>11, LocalStep DEF t, PoolInv, Types

(* The next attempt. *)

(* A call that is done with an attempt has neither a client nor a token.     *)
LEMMA BetweenAttempts ==
    ASSUME PoolInv, NEW r \in Requests, NEW s \in {"rotate", "sleep", "drop", "swap"}, At(r, s)
    PROVE  /\ req[r] \in CallRecords /\ InOrder(req[r]) /\ req[r].todo = <<s>>
           /\ req[r].rc = NoClient /\ req[r].kind # "peek"
           /\ ~req[r].admitted /\ req[r].tok = 0
<1>1. /\ req[r] \in CallRecords /\ InOrder(req[r]) /\ req[r].todo = <<s>>
  BY AtFacts, PlanFacts
<1>2. /\ ~Holding(<<s>>) /\ ~Reporting(<<s>>) /\ StepsOf(<<s>>) = {s}
      /\ <<s>> \notin {<<"acquire">>, <<"call">>, <<"classify">>}
  BY SinglePlans DEF HoldingSteps, ReportSteps
<1>3. ~NeedsToken(req[r])
  BY <1>1, <1>2 DEF NeedsToken
<1> QED
  BY <1>1, <1>2, <1>3 DEF InOrder, HoldsWhilePlanned, AdmittedWhilePlanned

(* What a call is when it tries again: waiting for the gate or for a client. *)
LEMMA NextAttemptFacts ==
    ASSUME PoolInv, NEW r \in Requests, NEW s \in {"rotate", "sleep", "drop", "swap"}, At(r, s),
           NextAttempt(r)
    PROVE  \E q \in CallRecords : /\ Become(r, q) /\ InOrder(q)
                                   /\ q.rc = NoClient /\ ~Rotating(q.todo)
<1> DEFINE t == OnBreaker("gate") \o <<"acquire">>
           q == [req[r] EXCEPT !.attempt = req[r].attempt + 1, !.todo = t,
                               !.name = 0, !.err = "none"]
<1>1. /\ req[r] \in CallRecords
      /\ req[r].rc = NoClient /\ req[r].kind # "peek"
      /\ ~req[r].admitted /\ req[r].tok = 0
  BY BetweenAttempts
<1>2. t = IF HasBreaker THEN <<"gate", "acquire">> ELSE <<"acquire">>
  BY BreakerFirst
<1>3. Become(r, q)
  BY DEF NextAttempt
<1> HIDE DEF t
<1>4. t \in Plans
  BY <1>2 DEF Plans
<1>5. /\ q \in CallRecords /\ q.todo = t /\ q.rc = NoClient /\ q.err = "none"
      /\ q.kind # "peek" /\ ~q.admitted /\ q.tok = 0
  <2>1. req[r].attempt + 1 \in Nat /\ 0 \in 0 .. NumKeys
    BY <1>1, NumKeysAssumption DEF CallRecords
  <2> QED
    BY <1>1, <1>4, <2>1 DEF CallRecords
<1> HIDE DEF q
<1>6. ~Holding(t) /\ ~Reporting(t) /\ ~Rotating(t)
  BY <1>2, EntryPlans
<1>7. ~(HasBreaker /\ NeedsToken(q)) /\ (~HasBreaker => StepsOf(t) = {"acquire"})
  BY <1>2, <1>5, <1>6, EntryPlans DEF NeedsToken
<1>8. InOrder(q)
  BY <1>5, <1>6, <1>7 DEF InOrder, HoldsWhilePlanned, AdmittedWhilePlanned,
      FitsItsCause, Transient, FailureSteps, KeySteps
<1> QED
  BY <1>3, <1>5, <1>6, <1>8

LEMMA TryAgainFacts ==
    ASSUME PoolInv, NEW r \in Requests, NEW s \in {"rotate", "sleep", "drop", "swap"}, At(r, s),
           TryAgain(r)
    PROVE  \E q \in CallRecords : /\ Become(r, q) /\ InOrder(q)
                                   /\ q.rc = NoClient /\ ~Rotating(q.todo)
<1>1. ~Rotating(Idle.todo)
  BY DEF Idle, Rotating
<1> QED
  BY <1>1, IdleFacts, NextAttemptFacts DEF TryAgain, Returns

LEMMA WaitingSteps ==
    ASSUME PoolInv, NEW r \in Requests, FindsRotated(r) \/ RotationFails(r) \/ WakeUp(r)
    PROVE  PoolInv'
<1>1. PICK s \in {"rotate", "sleep"} : At(r, s)
  BY DEF FindsRotated, RotationFails, MayRotate, WakeUp
<1>2. /\ req[r] \in CallRecords /\ InOrder(req[r]) /\ req[r].todo = <<s>>
      /\ req[r].rc = NoClient /\ req[r].kind # "peek"
      /\ ~req[r].admitted /\ req[r].tok = 0
  BY <1>1, BetweenAttempts
<1>3. ~Rotating(req[r].todo)
  BY <1>2, SinglePlans
<1>4. \/ TryAgain(r)
      \/ RotationFails(r) /\ BackOff(r)
  BY DEF FindsRotated, RotationFails, WakeUp, TryAgain
<1>5. \E q \in CallRecords : /\ Become(r, q) /\ InOrder(q)
                              /\ q.rc = NoClient /\ ~Rotating(q.todo)
  <2>1. CASE TryAgain(r)
    BY <1>1, <2>1, TryAgainFacts
  <2>2. CASE Returns(r)
    <3>1. ~Rotating(Idle.todo)
      BY DEF Idle, Rotating
    <3> QED
      BY <2>2, <3>1, IdleFacts DEF Returns
  <2>3. CASE /\ RotationFails(r) /\ ~IsAuthError(req[r].err)
             /\ Become(r, [req[r] EXCEPT !.todo = <<"sleep">>, !.name = 0])
    <3> DEFINE q == [req[r] EXCEPT !.todo = <<"sleep">>, !.name = 0]
    <3>1. <<"sleep">> \in Plans /\ 0 \in 0 .. NumKeys
      BY NumKeysAssumption DEF Plans
    <3>2. /\ q \in CallRecords /\ q.todo = <<"sleep">> /\ q.rc = NoClient
          /\ q.err = req[r].err /\ q.kind = req[r].kind /\ q.ctxDone = req[r].ctxDone
          /\ ~q.admitted /\ q.tok = 0
      BY <1>2, <3>1 DEF CallRecords
    <3> HIDE DEF q
    <3>3. /\ StepsOf(<<"sleep">>) = {"sleep"} /\ ~Holding(<<"sleep">>)
          /\ ~Reporting(<<"sleep">>) /\ ~Rotating(<<"sleep">>)
          /\ <<"sleep">> \notin {<<"acquire">>, <<"call">>, <<"classify">>}
          /\ StepsOf(<<"rotate">>) = {"rotate"}
      BY SinglePlans DEF HoldingSteps, ReportSteps
    <3>4. q.err # "expired"
      <4>1. At(r, "rotate")
        BY <2>3 DEF RotationFails, MayRotate
      <4>2. req[r].todo = <<"rotate">>
        BY <4>1, BetweenAttempts
      <4> QED
        BY <1>2, <3>2, <3>3, <4>2 DEF InOrder,
            FitsItsCause, Transient, FailureSteps, KeySteps
    <3>5. InOrder(q)
      BY <1>2, <3>2, <3>3, <3>4
      DEF InOrder, HoldsWhilePlanned, AdmittedWhilePlanned, NeedsToken,
          FitsItsCause, Transient, FailureSteps, KeySteps
    <3>6. Become(r, q)
      BY <2>3 DEF q
    <3> QED
      BY <3>2, <3>3, <3>5, <3>6
  <2> QED
    BY <1>4, <2>1, <2>2, <2>3 DEF BackOff
<1>6. pool' \in Pools /\ breaker' \in Breakers /\ UNCHANGED <<clients, handle, rotation, closing>>
  <2>1. pool \in Pools /\ breaker \in Breakers
    BY DEF PoolInv, Types
  <2>2. pool' \in Pools
    BY <2>1, GetAvailableFacts DEF FindsRotated, RotationFails, WakeUp
  <2>3. breaker' = breaker /\ UNCHANGED <<clients, handle, rotation, closing>>
    BY DEF FindsRotated, RotationFails, WakeUp
  <2> QED
    BY <2>1, <2>2, <2>3
<1> QED
  BY <1>2, <1>3, <1>5, <1>6, LocalStep

------------------------------------------------------------------------------
(* Steps that move references. *)

LEMMA UsersCount ==
    ASSUME NEW f, NEW c
    PROVE  LET users == {r \in Requests : f[r].rc = c}
           IN  /\ Cardinality(users) \in Nat
               /\ \A r \in Requests : f[r].rc = c => Cardinality(users) > 0
<1> DEFINE users == {r \in Requests : f[r].rc = c}
<1>1. IsFiniteSet(users)
  BY RequestsAssumption, FS_Subset
<1>2. Cardinality(users) \in Nat /\ (Cardinality(users) = 0 <=> users = {})
  BY <1>1, FS_CardinalityType, FS_EmptySet
<1>3. ASSUME NEW r \in Requests, f[r].rc = c PROVE users # {}
  BY <1>3
<1> HIDE DEF users
<1>4. \A r \in Requests : f[r].rc = c => Cardinality(users) > 0
  BY <1>2, <1>3
<1> QED
  BY <1>2, <1>4 DEF users

One(p) == IF p THEN 1 ELSE 0

(* The references to a client, with the panicking consumer's: those of the   *)
(* calls, and those of the pool.                                            *)
LEMMA CountFacts ==
    ASSUME NEW c
    PROVE  /\ Cardinality(Users(c)) \in Nat /\ Count(c) \in Nat
           /\ Count(c) = Cardinality(Users(c)) + One(rc = c) + One(swapped = c)
                            + One(closing = c) + One(abandoned = c)
           /\ rc = c \/ swapped = c \/ closing = c \/ abandoned = c => Count(c) > 0
           /\ \A r \in Requests : req[r].rc = c => Count(c) > 0
<1>1. /\ Cardinality(Users(c)) \in Nat
      /\ \A r \in Requests : req[r].rc = c => Cardinality(Users(c)) > 0
  BY UsersCount DEF Users
<1>2. Count(c) = Cardinality(Users(c)) + One(rc = c) + One(swapped = c)
                   + One(closing = c) + One(abandoned = c)
  BY <1>1 DEF Count, References, Users, One
<1> QED
  BY <1>1, <1>2 DEF One

LEMMA CountFactsNext ==
    ASSUME NEW c
    PROVE  /\ Cardinality(Users(c)') \in Nat /\ Count(c)' \in Nat
           /\ Count(c)' = Cardinality(Users(c)') + One(rc' = c) + One(swapped' = c)
                             + One(closing' = c) + One(abandoned' = c)
           /\ rc' = c \/ swapped' = c \/ closing' = c \/ abandoned' = c => Count(c)' > 0
           /\ \A r \in Requests : req'[r].rc = c => Count(c)' > 0
<1>1. /\ Cardinality(Users(c)') \in Nat
      /\ \A r \in Requests : req'[r].rc = c => Cardinality(Users(c)') > 0
  BY UsersCount DEF Users
<1>2. Count(c)' = Cardinality(Users(c)') + One(rc' = c) + One(swapped' = c)
                    + One(closing' = c) + One(abandoned' = c)
  BY <1>1 DEF Count, References, Users, One
<1> QED
  BY <1>1, <1>2 DEF One

(* A client that loses one of its references loses its last one exactly when *)
(* nothing refers to it any more.                                           *)
LEMMA ReferenceDropped ==
    ASSUME PoolInv, NEW c \in Clients, DropReference(c), Count(c) > 0, fresh' = fresh,
           Count(c)' = Count(c) - 1, \A d \in Clients : d # c => Count(d)' = Count(d)
    PROVE  /\ clients' \in [Clients -> [key : 0 .. NumKeys, refs : Nat]]
           /\ fresh' # NoClient => Count(fresh)' = 0
           /\ \A d \in Clients :
                 /\ Exists(d)' => clients'[d].refs = Count(d)' /\ clients'[d].key = clients[d].key
                 /\ Exists(d)' <=> Count(d)' > 0 \/ fresh' = d
<1>1. clients \in [Clients -> [key : 0 .. NumKeys, refs : Nat]]
  BY DEF PoolInv, Types
<1>2. /\ Exists(c) /\ clients[c].refs = Count(c) /\ fresh # c /\ Count(c) \in Nat
  <2>1. Count(c) \in Nat
    BY CountFacts
  <2>2. Exists(c) /\ clients[c].refs = Count(c)
    BY DEF PoolInv, CountsTell
  <2>3. ASSUME fresh = c PROVE FALSE
    BY <2>3 DEF PoolInv, CountsTell, Clients, NoClient
  <2> QED
    BY <2>1, <2>2, <2>3
<1>3. CASE clients[c].refs = 1
  <2>1. clients' = [clients EXCEPT ![c] = Closed]
    BY <1>3 DEF DropReference
  <2>2. Closed \in [key : 0 .. NumKeys, refs : Nat] /\ Closed.key = 0
    BY NumKeysAssumption DEF Closed
  <2>3. /\ clients' \in [Clients -> [key : 0 .. NumKeys, refs : Nat]]
        /\ clients'[c].key = 0 /\ \A d \in Clients : d # c => clients'[d] = clients[d]
    BY <1>1, <2>1, <2>2
  <2> QED
    BY <1>2, <1>3, <2>3 DEF PoolInv, Types, CountsTell, Exists, Clients, NoClient
<1>4. CASE clients[c].refs # 1
  <2> DEFINE less == [key |-> clients[c].key, refs |-> clients[c].refs - 1]
  <2>1. clients' = [clients EXCEPT ![c] = less]
    BY <1>4 DEF DropReference
  <2>2. /\ less \in [key : 0 .. NumKeys, refs : Nat] /\ less.key = clients[c].key
        /\ less.refs = clients[c].refs - 1
    BY <1>1, <1>2
  <2> HIDE DEF less
  <2>3. /\ clients' \in [Clients -> [key : 0 .. NumKeys, refs : Nat]]
        /\ clients'[c] = less /\ \A d \in Clients : d # c => clients'[d] = clients[d]
    BY <1>1, <2>1, <2>2
  <2> QED
    BY <1>2, <1>4, <2>2, <2>3 DEF PoolInv, Types, CountsTell, Exists, Clients, NoClient
<1> QED
  BY <1>3, <1>4

(* How the count of every client moves with one call and the pool's own.     *)
LEMMA CountsMove ==
    ASSUME Types, req' \in [Requests -> CallRecords], NEW r \in Requests,
           \A s \in Requests : s # r => req'[s] = req[s],
           NEW c
    PROVE  Count(c)' + One(req[r].rc = c) + One(rc = c) + One(swapped = c)
                     + One(closing = c) + One(abandoned = c)
             = Count(c) + One(req'[r].rc = c) + One(rc' = c) + One(swapped' = c)
                        + One(closing' = c) + One(abandoned' = c)
<1>1. Cardinality(Users(c)') + One(req[r].rc = c) = Cardinality(Users(c)) + One(req'[r].rc = c)
  BY UsersMove DEF Types, One
<1> QED
  BY <1>1, CountFacts, CountFactsNext DEF One

(* A client that is still referred to keeps its key, and so the names that   *)
(* calls have read stay true.                                               *)
LEMMA NamesKept ==
    ASSUME PoolInv, Types',
           \A d \in Clients : Count(d)' > 0 => clients'[d].key = clients[d].key,
           rc' # NoClient => rc' = rc /\ activeName' = activeName,
           \A s \in Requests : req'[s].rc # NoClient =>
               req'[s].rc = req[s].rc /\ req'[s].name = req[s].name
    PROVE  NamesTell'
<1>1. ASSUME rc' # NoClient PROVE clients'[rc'].key = activeName'
  <2>1. PICK d \in Clients : d = rc'
    BY <1>1 DEF Types, Clients, NoClient
  <2>2. Count(d)' > 0
    BY <2>1, CountFactsNext
  <2> QED
    BY <1>1, <2>1, <2>2 DEF PoolInv, NamesTell
<1>2. ASSUME NEW s \in Requests, req'[s].rc # NoClient
      PROVE  clients'[req'[s].rc].key = req'[s].name
  <2>1. PICK d \in Clients : d = req'[s].rc
    BY <1>2 DEF Types, CallRecords, Clients, NoClient
  <2>2. Count(d)' > 0
    BY <2>1, CountFactsNext
  <2> QED
    BY <1>2, <2>1, <2>2 DEF PoolInv, NamesTell
<1> QED
  BY <1>1, <1>2 DEF NamesTell

(* A call outside the rotation does not disturb it. *)
LEMMA RotationKept ==
    ASSUME PoolInv, NEW r \in Requests, \A s \in Requests : s # r => req'[s] = req[s],
           ~Rotating(req[r].todo), ~Rotating(req'[r].todo), UNCHANGED rotation
    PROVE  RotatesAlone'
BY RequestsAssumption DEF PoolInv, Types, RotatesAlone, Rotating, rotation

(* A call that gives up its client, outside the rotation. *)
LEMMA GivesUpClient ==
    ASSUME PoolInv, NEW r \in Requests, NEW q \in CallRecords, InOrder(q), Become(r, q),
           q.rc = NoClient, req[r].rc # NoClient, DropReference(req[r].rc),
           ~Rotating(req[r].todo), ~Rotating(q.todo),
           breaker' \in Breakers, pool' \in Pools, UNCHANGED <<handle, rotation, closing>>
    PROVE  PoolInv'
<1> USE DEF handle, surroundings
<1> DEFINE c == req[r].rc
<1>1. /\ req' \in [Requests -> CallRecords]
      /\ CallsInOrder'
      /\ \A s \in Requests : s # r => req'[s] = req[s]
      /\ req'[r].rc = NoClient /\ req'[r].todo = q.todo
  BY BecomeFacts DEF PoolInv
<1>2. c \in Clients
  BY DEF PoolInv, Types, CallRecords, Clients, NoClient
<1>3. Count(c) > 0 /\ \A d \in Clients : Count(d) \in Nat /\ Count(d)' \in Nat
  BY CountFacts, CountFactsNext
<1>4. \A d \in Clients : Count(d)' = IF d = c THEN Count(d) - 1 ELSE Count(d)
  <2> SUFFICES ASSUME NEW d \in Clients
               PROVE  Count(d)' = IF d = c THEN Count(d) - 1 ELSE Count(d)
    OBVIOUS
  <2>1. Count(d)' + One(req[r].rc = d) + One(rc = d) + One(swapped = d)
                  + One(closing = d) + One(abandoned = d)
          = Count(d) + One(req'[r].rc = d) + One(rc' = d) + One(swapped' = d)
                     + One(closing' = d) + One(abandoned' = d)
    BY <1>1, CountsMove DEF PoolInv
  <2>2. UNCHANGED <<rc, swapped, closing, abandoned>>
    BY DEF rotation
  <2> QED
    BY <1>1, <1>3, <2>1, <2>2 DEF One, Clients, NoClient
<1>5. /\ clients' \in [Clients -> [key : 0 .. NumKeys, refs : Nat]]
      /\ fresh' # NoClient => Count(fresh)' = 0
      /\ \A d \in Clients :
            /\ Exists(d)' => clients'[d].refs = Count(d)' /\ clients'[d].key = clients[d].key
            /\ Exists(d)' <=> Count(d)' > 0 \/ fresh' = d
  <2>1. DropReference(c) /\ fresh' = fresh
    BY DEF rotation
  <2> HIDE DEF c
  <2> QED
    BY <1>2, <1>3, <1>4, <2>1, ReferenceDropped
<1>6. Types'
  BY <1>1, <1>5 DEF PoolInv, Types, rotation
<1>7. RotatesAlone'
  BY <1>1, RotationKept
<1>8. CountsTell'
  BY <1>5 DEF PoolInv, CountsTell
<1>9. NamesTell'
  <2>1. \A d \in Clients : Count(d)' > 0 => clients'[d].key = clients[d].key
    BY <1>5
  <2> QED
    BY <1>1, <1>6, <2>1, NamesKept
<1> QED
  BY <1>1, <1>6, <1>7, <1>8, <1>9 DEF PoolInv

LEMMA ReleaseStep ==
    ASSUME PoolInv, NEW r \in Requests, Release(r)
    PROVE  PoolInv'
<1> DEFINE t == req[r].todo
           q == [req[r] EXCEPT !.rc = NoClient, !.todo = Tail(t)]
<1>1. /\ req[r] \in CallRecords /\ InOrder(req[r])
      /\ t \in Plans /\ t # <<>> /\ Head(t) = "release"
  BY AtFacts DEF Release
<1>2. Become(r, q)
  BY DEF Release
<1> HIDE DEF t
<1>3. /\ Tail(t) \in Plans /\ StepsOf(t) = {"release"} \union StepsOf(Tail(t))
      /\ Tail(t) \notin {<<"call">>, <<"classify">>, <<"acquire">>}
      /\ ~Rotating(Tail(t)) /\ ~Holding(Tail(t))
  BY <1>1, PlanFacts DEF Rotating, HoldingSteps
<1>4. ~Rotating(t) /\ t \notin {<<"call">>, <<"classify">>, <<"acquire">>}
  BY <1>1, ShortSequences DEF Rotating
<1>5. /\ q \in CallRecords /\ q.todo = Tail(t) /\ q.rc = NoClient
      /\ q.name = req[r].name /\ q.kind = req[r].kind /\ q.err = req[r].err
      /\ q.ctxDone = req[r].ctxDone /\ q.admitted = req[r].admitted /\ q.tok = req[r].tok
  <2>1. NoClient \in 0 .. NumClients
    BY NumClientsAssumption DEF NoClient
  <2> QED
    BY <1>1, <1>3, <2>1 DEF CallRecords
<1> HIDE DEF q
<1>6. InOrder(q)
  <2>1. Reporting(Tail(t)) <=> Reporting(t)
    BY <1>3 DEF Reporting, ReportSteps
  <2> QED
    BY <1>1, <1>3, <1>4, <1>5, <2>1
    DEF t, InOrder, HoldsWhilePlanned, AdmittedWhilePlanned, NeedsToken,
        FitsItsCause, Transient, FailureSteps, KeySteps
<1>7. req[r].rc # NoClient
  <2>1. Holding(t)
    BY <1>3 DEF Holding, HoldingSteps
  <2> QED
    BY <1>1, <2>1 DEF t, InOrder, HoldsWhilePlanned
<1> QED
  BY <1>2, <1>3, <1>4, <1>5, <1>6, <1>7, GivesUpClient DEF t, Release, PoolInv, Types

(* A failed call that has released its client reports what its error says of *)
(* the endpoint, and tries for another key only if that may help.           *)
LEMMA FreeInOrder ==
    ASSUME NEW q \in CallRecords, q.rc = NoClient, q.kind # "peek",
           q.todo \notin {<<"acquire">>, <<"call">>, <<"classify">>},
           ~Holding(q.todo), "gate" \notin StepsOf(q.todo),
           q.admitted <=> Reporting(q.todo), ~HasBreaker => ~Reporting(q.todo),
           ~q.admitted => q.tok = 0, FitsItsCause(q)
    PROVE  InOrder(q)
BY DEF InOrder, HoldsWhilePlanned, AdmittedWhilePlanned, NeedsToken

LEMMA ClassifiedFacts ==
    ASSUME NEW q \in CallRecords, q.rc = NoClient, q.kind # "peek",
           q.admitted <=> HasBreaker, ~q.admitted => q.tok = 0,
           q.err = "expired" => q.ctxDone
    PROVE  /\ Classified(q) \in CallRecords /\ InOrder(Classified(q))
           /\ ~Rotating(Classified(q).todo) /\ Classified(q).rc = NoClient
<1>1. CASE q.ctxDone \/ DisableRetries \/ ~(IsRetryable(q.err) \/ IsAuthError(q.err))
  <2> DEFINE t == OnBreaker("releaseProbe")
             p == [q EXCEPT !.todo = t]
  <2>1. t \in Plans /\ StepsOf(t) = WithBreaker("releaseProbe")
    BY FailurePlans
  <2>2. Classified(q) = p
    BY <1>1 DEF Classified
  <2>3. t = <<>> \/ StepsOf(t) = {"releaseProbe"}
    BY <2>1, NoneOrOne DEF WithBreaker
  <2> HIDE DEF t
  <2>4. /\ p \in CallRecords /\ p.todo = t /\ p.rc = q.rc /\ p.name = q.name
        /\ p.kind = q.kind /\ p.err = q.err /\ p.ctxDone = q.ctxDone
        /\ p.admitted = q.admitted /\ p.tok = q.tok
    BY <2>1, PlanUpdate
  <2> HIDE DEF p
  <2>5. (Reporting(t) <=> HasBreaker) /\ ~Holding(t)
    BY <2>1 DEF Reporting, ReportSteps, Holding, HoldingSteps, WithBreaker
  <2>6. FitsItsCause(p)
    BY <1>1, <2>1, <2>4 DEF
        FitsItsCause, Transient, FailureSteps, KeySteps, WithBreaker, IsRetryable
  <2>7. ~Rotating(t) /\ t \notin {<<"acquire">>, <<"call">>, <<"classify">>}
    BY <2>3, PlansApart DEF Rotating, FailureSteps
  <2>8. InOrder(p)
    BY <2>1, <2>4, <2>5, <2>6, <2>7, FreeInOrder DEF WithBreaker
  <2> QED
    BY <2>2, <2>4, <2>7, <2>8
<1>2. CASE ~q.ctxDone /\ ~DisableRetries /\ ~IsAuthError(q.err) /\ IsRetryable(q.err)
  <2> DEFINE t == OnBreaker("recordFailure") \o <<"markFailed", "rotate">>
             p == [q EXCEPT !.todo = t]
  <2>1. t \in Plans /\ StepsOf(t) = {"markFailed", "rotate"} \union WithBreaker("recordFailure")
    BY FailurePlans
  <2>2. Classified(q) = p
    BY <1>2 DEF Classified
  <2> HIDE DEF t
  <2>4. /\ p \in CallRecords /\ p.todo = t /\ p.rc = q.rc /\ p.name = q.name
        /\ p.kind = q.kind /\ p.err = q.err /\ p.ctxDone = q.ctxDone
        /\ p.admitted = q.admitted /\ p.tok = q.tok
    BY <2>1, PlanUpdate
  <2> HIDE DEF p
  <2>5. (Reporting(t) <=> HasBreaker) /\ ~Holding(t)
    BY <2>1 DEF Reporting, ReportSteps, Holding, HoldingSteps, WithBreaker
  <2>6. FitsItsCause(p)
    BY <1>2, <2>1, <2>4 DEF FitsItsCause, Transient, FailureSteps, KeySteps, WithBreaker,
                                IsRetryable
  <2>7. ~Rotating(t) /\ t \notin {<<"acquire">>, <<"call">>, <<"classify">>}
    BY <2>1, PlansApart DEF Rotating, FailureSteps
  <2>8. InOrder(p)
    BY <2>1, <2>4, <2>5, <2>6, <2>7, FreeInOrder DEF WithBreaker
  <2> QED
    BY <2>2, <2>4, <2>7, <2>8
<1>3. CASE ~q.ctxDone /\ ~DisableRetries /\ IsAuthError(q.err)
  <2> DEFINE t == <<"markFailed", "rotate">>
             f == Forget(q)
             p == [f EXCEPT !.todo = t]
  <2>1. t \in Plans /\ StepsOf(t) = {"markFailed", "rotate"}
    BY FailurePlans
  <2>2. Classified(q) = p
    BY <1>3 DEF Classified
  <2>3. /\ f \in CallRecords /\ f.admitted = FALSE /\ f.tok = 0 /\ f.rc = q.rc
        /\ f.name = q.name /\ f.kind = q.kind /\ f.err = q.err /\ f.ctxDone = q.ctxDone
    BY ForgetFacts
  <2> HIDE DEF t, f
  <2>4. /\ p \in CallRecords /\ p.todo = t /\ p.rc = f.rc /\ p.name = f.name
        /\ p.kind = f.kind /\ p.err = f.err /\ p.ctxDone = f.ctxDone
        /\ p.admitted = f.admitted /\ p.tok = f.tok
    BY <2>1, <2>3, PlanUpdate
  <2> HIDE DEF p
  <2>5. ~Reporting(t) /\ ~Holding(t)
    BY <2>1 DEF Reporting, ReportSteps, Holding, HoldingSteps
  <2>6. FitsItsCause(p)
    BY <1>3, <2>1, <2>3, <2>4 DEF
        FitsItsCause, Transient, FailureSteps, KeySteps, IsAuthError
  <2>7. ~Rotating(t) /\ t \notin {<<"acquire">>, <<"call">>, <<"classify">>}
    BY <2>1, PlansApart DEF Rotating, FailureSteps
  <2>8. InOrder(p)
    BY <2>1, <2>3, <2>4, <2>5, <2>6, <2>7, FreeInOrder
  <2> QED
    BY <2>2, <2>3, <2>4, <2>7, <2>8
<1> QED
  BY <1>1, <1>2, <1>3

LEMMA ClassifyStep ==
    ASSUME PoolInv, NEW r \in Requests, Classify(r)
    PROVE  PoolInv'
<1> DEFINE q == [req[r] EXCEPT !.rc = NoClient]
<1>1. /\ req[r] \in CallRecords /\ InOrder(req[r]) /\ req[r].todo = <<"classify">>
  BY AtFacts, PlanFacts DEF Classify
<1>2. /\ Holding(<<"classify">>) /\ StepsOf(<<"classify">>) = {"classify"}
      /\ ~Rotating(<<"classify">>)
  BY SinglePlans DEF HoldingSteps
<1>3. /\ req[r].rc # NoClient /\ req[r].kind # "peek"
  BY <1>1, <1>2 DEF InOrder, HoldsWhilePlanned, AdmittedWhilePlanned
<1>4. /\ req[r].admitted <=> HasBreaker
      /\ ~req[r].admitted => req[r].tok = 0
      /\ req[r].err = "expired" => req[r].ctxDone
  BY <1>1, <1>3 DEF InOrder, AdmittedWhilePlanned, NeedsToken,
      FitsItsCause, Transient, FailureSteps, KeySteps
<1>5. /\ q \in CallRecords /\ q.rc = NoClient /\ q.kind = req[r].kind
      /\ q.err = req[r].err /\ q.ctxDone = req[r].ctxDone
      /\ q.admitted = req[r].admitted /\ q.tok = req[r].tok
  <2>1. NoClient \in 0 .. NumClients
    BY NumClientsAssumption DEF NoClient
  <2> QED
    BY <1>1, <2>1 DEF CallRecords
<1>6. Become(r, Classified(q))
  BY DEF Classify
<1> HIDE DEF q
<1>7. /\ Classified(q) \in CallRecords /\ InOrder(Classified(q))
      /\ ~Rotating(Classified(q).todo) /\ Classified(q).rc = NoClient
  BY <1>3, <1>4, <1>5, ClassifiedFacts
<1> QED
  BY <1>1, <1>2, <1>3, <1>6, <1>7, GivesUpClient DEF Classify, PoolInv, Types

LEMMA AcquireStep ==
    ASSUME PoolInv, NEW r \in Requests, Acquire(r)
    PROVE  PoolInv'
<1> DEFINE t == IF req[r].kind = "peek" THEN <<"release">> ELSE <<"call">>
           q == [req[r] EXCEPT !.rc = rc, !.name = activeName, !.todo = t]
<1>1. /\ req[r] \in CallRecords /\ InOrder(req[r]) /\ req[r].todo = <<"acquire">>
  BY AtFacts, PlanFacts DEF Acquire
<1>2. /\ ~Holding(<<"acquire">>) /\ StepsOf(<<"acquire">>) = {"acquire"}
      /\ ~Rotating(<<"acquire">>)
  BY EntryPlans
<1>3. /\ \A s \in {"release", "call"} :
            /\ Holding(<<s>>) /\ StepsOf(<<s>>) = {s} /\ ~Rotating(<<s>>) /\ ~Reporting(<<s>>)
            /\ <<s>> \in {<<"acquire">>, <<"call">>, <<"classify">>} <=> s = "call"
  BY SinglePlans DEF HoldingSteps, ReportSteps
<1>4. /\ t \in Plans /\ Holding(t) /\ ~Rotating(t) /\ ~Reporting(t)
      /\ t \in {<<"acquire">>, <<"call">>, <<"classify">>} <=> req[r].kind # "peek"
      /\ StepsOf(t) = {IF req[r].kind = "peek" THEN "release" ELSE "call"}
  BY <1>3 DEF Plans
<1>5. rc \in Clients /\ rc \in 0 .. NumClients /\ activeName \in 0 .. NumKeys
  BY DEF Acquire, PoolInv, Types, Clients, NoClient, Keys
<1>6. Become(r, q)
  BY DEF Acquire
<1> HIDE DEF t
<1>7. /\ q \in CallRecords /\ q.todo = t /\ q.rc = rc /\ q.name = activeName
      /\ q.kind = req[r].kind /\ q.err = req[r].err /\ q.ctxDone = req[r].ctxDone
      /\ q.admitted = req[r].admitted /\ q.tok = req[r].tok
  BY <1>1, <1>4, <1>5 DEF CallRecords
<1> HIDE DEF q
<1>8. req[r].rc = NoClient /\ rc # NoClient
  BY <1>1, <1>2 DEF InOrder, HoldsWhilePlanned, Acquire
<1>9. InOrder(q)
  <2>1. HasBreaker /\ NeedsToken(q) <=> q.admitted
    <3>1. ~Reporting(<<"acquire">>)
      BY EntryPlans
    <3> QED
      BY <1>1, <1>4, <1>7, <3>1 DEF InOrder, AdmittedWhilePlanned, NeedsToken
  <2> QED
    BY <1>1, <1>2, <1>4, <1>7, <1>8, <2>1
    DEF InOrder, HoldsWhilePlanned, AdmittedWhilePlanned,
        FitsItsCause, Transient, FailureSteps, KeySteps
<1>10. /\ req' \in [Requests -> CallRecords]
       /\ CallsInOrder'
       /\ \A s \in Requests : s # r => req'[s] = req[s]
       /\ req'[r] = q
  BY <1>6, <1>7, <1>8, <1>9, BecomeFacts DEF PoolInv
<1>11. /\ UNCHANGED <<breaker, pool, rc, activeName, abandoned, load>>
       /\ UNCHANGED <<rotator, fresh, swapped, closing>> /\ UNCHANGED rotation
  BY DEF Acquire, handle, surroundings, rotation
<1>12. \A d \in Clients : Count(d) \in Nat /\ Count(d)' = IF d = rc THEN Count(d) + 1 ELSE Count(d)
  <2> SUFFICES ASSUME NEW d \in Clients
               PROVE  Count(d) \in Nat /\ Count(d)' = IF d = rc THEN Count(d) + 1 ELSE Count(d)
    OBVIOUS
  <2>1. Count(d)' + One(req[r].rc = d) + One(rc = d) + One(swapped = d)
                  + One(closing = d) + One(abandoned = d)
          = Count(d) + One(req'[r].rc = d) + One(rc' = d) + One(swapped' = d)
                     + One(closing' = d) + One(abandoned' = d)
    BY <1>10, CountsMove DEF PoolInv
  <2>2. Count(d) \in Nat /\ Count(d)' \in Nat
    BY CountFacts, CountFactsNext
  <2> QED
    BY <1>7, <1>8, <1>10, <1>11, <2>1, <2>2 DEF One, Clients, NoClient
<1>13. Count(rc) > 0 /\ Exists(rc) /\ clients[rc].refs = Count(rc) /\ rc # fresh
  BY <1>5, CountFacts DEF PoolInv, CountsTell, Clients, NoClient
<1>14. /\ clients' \in [Clients -> [key : 0 .. NumKeys, refs : Nat]]
       /\ \A d \in Clients : /\ clients'[d].key = clients[d].key
                             /\ clients'[d].refs = IF d = rc THEN clients[d].refs + 1
                                                    ELSE clients[d].refs
  <2>1. clients \in [Clients -> [key : 0 .. NumKeys, refs : Nat]]
    BY DEF PoolInv, Types
  <2>2. clients' = [clients EXCEPT ![rc].refs = clients[rc].refs + 1]
    BY DEF Acquire
  <2> QED
    BY <1>5, <2>1, <2>2
<1>15. Types'
  BY <1>10, <1>11, <1>14 DEF PoolInv, Types
<1>16. RotatesAlone'
  BY <1>1, <1>2, <1>4, <1>7, <1>10, <1>11, RotationKept
<1>17. CountsTell'
  <2>1. closing' # NoClient => rc' = NoClient
    BY <1>11 DEF PoolInv, CountsTell
  <2>2. fresh' # NoClient => Count(fresh)' = 0
    BY <1>11, <1>12, <1>13 DEF PoolInv, CountsTell, Types, Clients, NoClient
  <2>3. ASSUME NEW d \in Clients
        PROVE  /\ Exists(d)' => clients'[d].refs = Count(d)'
               /\ Exists(d)' <=> Count(d)' > 0 \/ fresh' = d
    BY <1>11, <1>12, <1>13, <1>14 DEF PoolInv, CountsTell, Exists
  <2> QED
    BY <2>1, <2>2, <2>3 DEF CountsTell
<1>18. NamesTell'
  <2>1. clients[rc].key = activeName
    BY <1>8 DEF PoolInv, NamesTell
  <2>2. ASSUME NEW s \in Requests, req'[s].rc # NoClient
        PROVE  clients'[req'[s].rc].key = req'[s].name
    <3>1. CASE s = r
      BY <1>5, <1>7, <1>10, <1>14, <2>1, <3>1
    <3>2. CASE s # r
      <4>1. req'[s] = req[s] /\ req[s].rc \in Clients
        BY <1>10, <2>2, <3>2 DEF PoolInv, Types, CallRecords, Clients, NoClient
      <4> QED
        BY <1>14, <2>2, <4>1 DEF PoolInv, NamesTell
    <3> QED
      BY <3>1, <3>2
  <2> QED
    BY <1>5, <1>11, <1>14, <2>1, <2>2 DEF NamesTell
<1> QED
  BY <1>10, <1>15, <1>16, <1>17, <1>18 DEF PoolInv

(* A reference that changes hands changes no count. *)
LEMMA CountsKept ==
    ASSUME PoolInv, Types', \A d \in Clients : Count(d)' = Count(d),
           clients' = clients, fresh' = fresh, closing' # NoClient => rc' = NoClient
    PROVE  CountsTell'
BY DEF PoolInv, CountsTell, Exists, Types, Clients, NoClient

LEMMA ConsumerPanicsStep ==
    ASSUME PoolInv, NEW r \in Requests, ConsumerPanics(r)
    PROVE  PoolInv'
<1>1. /\ req[r] \in CallRecords /\ req[r].todo = <<"call">> /\ req[r].rc # NoClient
  BY CallingFacts DEF ConsumerPanics
<1>2. ~Rotating(<<"call">>) /\ ~Rotating(<<>>)
  BY SinglePlans DEF Rotating
<1>3. Idle.todo = <<>> /\ Idle.rc = NoClient
  BY DEF Idle
<1>4. /\ req' \in [Requests -> CallRecords]
      /\ CallsInOrder'
      /\ \A s \in Requests : s # r => req'[s] = req[s]
      /\ req'[r].rc = NoClient /\ req'[r].todo = <<>>
  BY <1>3, IdleFacts, BecomeFacts DEF PoolInv, ConsumerPanics, Returns
<1>5. /\ UNCHANGED <<breaker, pool, clients, rc, activeName, load, closing>>
      /\ UNCHANGED <<rotator, fresh, swapped>> /\ UNCHANGED rotation
      /\ abandoned = NoClient /\ abandoned' = req[r].rc
  BY DEF ConsumerPanics, rotation
<1>6. Types'
  BY <1>1, <1>4, <1>5 DEF PoolInv, Types, CallRecords
<1>7. \A d \in Clients : Count(d)' = Count(d)
  <2> SUFFICES ASSUME NEW d \in Clients PROVE Count(d)' = Count(d)
    OBVIOUS
  <2>1. Count(d)' + One(req[r].rc = d) + One(rc = d) + One(swapped = d)
                  + One(closing = d) + One(abandoned = d)
          = Count(d) + One(req'[r].rc = d) + One(rc' = d) + One(swapped' = d)
                     + One(closing' = d) + One(abandoned' = d)
    BY <1>4, CountsMove DEF PoolInv
  <2>2. Count(d) \in Nat /\ Count(d)' \in Nat
    BY CountFacts, CountFactsNext
  <2> QED
    BY <1>4, <1>5, <2>1, <2>2 DEF One, Clients, NoClient
<1>8. CountsTell'
  BY <1>5, <1>6, <1>7, CountsKept DEF PoolInv, CountsTell
<1>9. RotatesAlone'
  BY <1>1, <1>2, <1>4, <1>5, RotationKept
<1>10. NamesTell'
  BY <1>4, <1>5, <1>6, NamesKept
<1> QED
  BY <1>4, <1>6, <1>8, <1>9, <1>10 DEF PoolInv

LEMMA CloseStep ==
    ASSUME PoolInv, Close
    PROVE  PoolInv'
<1>1. /\ UNCHANGED <<breaker, pool, clients, activeName, abandoned, load, req>>
      /\ UNCHANGED <<rotator, fresh, swapped>> /\ rc # NoClient
      /\ closing' = rc /\ rc' = NoClient
  BY DEF Close, surroundings, rotation
<1>2. closing = NoClient
  BY <1>1 DEF PoolInv, CountsTell
<1>3. Types'
  BY <1>1, NumClientsAssumption DEF PoolInv, Types, NoClient
<1>4. CallsInOrder' /\ RotatesAlone'
  BY <1>1 DEF PoolInv, CallsInOrder, RotatesAlone, HoldsWhilePlanned,
              AdmittedWhilePlanned, FitsItsCause, Transient, FailureSteps, KeySteps
<1>5. \A d \in Clients : Count(d)' = Count(d)
  <2> SUFFICES ASSUME NEW d \in Clients PROVE Count(d)' = Count(d)
    OBVIOUS
  <2>1. Users(d)' = Users(d)
    BY <1>1 DEF Users
  <2> QED
    BY <1>1, <1>2, <2>1, CountFacts, CountFactsNext DEF One, Clients, NoClient
<1>6. CountsTell'
  BY <1>1, <1>3, <1>5, CountsKept
<1>7. NamesTell'
  BY <1>1, <1>3, NamesKept
<1> QED
  BY <1>3, <1>4, <1>6, <1>7 DEF PoolInv

LEMMA CloseReleasesStep ==
    ASSUME PoolInv, CloseReleases
    PROVE  PoolInv'
<1>1. /\ UNCHANGED <<breaker, pool, rc, activeName, abandoned, load, req>>
      /\ UNCHANGED <<rotator, fresh, swapped>>
      /\ closing # NoClient /\ closing' = NoClient
  BY DEF CloseReleases, handle, surroundings, rotation
<1>2. PICK c \in Clients : c = closing
  BY <1>1 DEF PoolInv, Types, Clients, NoClient
<1>3. ASSUME NEW d \in Clients
      PROVE  /\ Count(d)' = IF d = c THEN Count(d) - 1 ELSE Count(d)
             /\ Count(d) \in Nat
  <2>1. Users(d)' = Users(d)
    BY <1>1 DEF Users
  <2> QED
    BY <1>1, <1>2, <2>1, CountFacts, CountFactsNext DEF One, Clients, NoClient
<1>4. Count(c) > 0
  BY <1>2, CountFacts
<1>5. /\ clients' \in [Clients -> [key : 0 .. NumKeys, refs : Nat]]
      /\ fresh' # NoClient => Count(fresh)' = 0
      /\ \A d \in Clients :
            /\ Exists(d)' => clients'[d].refs = Count(d)' /\ clients'[d].key = clients[d].key
            /\ Exists(d)' <=> Count(d)' > 0 \/ fresh' = d
  <2>1. DropReference(c) /\ fresh' = fresh
    BY <1>1, <1>2 DEF CloseReleases
  <2>2. Count(c)' = Count(c) - 1 /\ \A d \in Clients : d # c => Count(d)' = Count(d)
    BY <1>3
  <2> QED
    BY <1>4, <2>1, <2>2, ReferenceDropped
<1>6. Types'
  BY <1>1, <1>5, NumClientsAssumption DEF PoolInv, Types, NoClient
<1>7. CallsInOrder' /\ RotatesAlone'
  BY <1>1 DEF PoolInv, CallsInOrder, RotatesAlone, HoldsWhilePlanned,
              AdmittedWhilePlanned, FitsItsCause, Transient, FailureSteps, KeySteps
<1>8. CountsTell'
  BY <1>1, <1>5 DEF CountsTell
<1>9. NamesTell'
  <2>1. \A d \in Clients : Count(d)' > 0 => clients'[d].key = clients[d].key
    BY <1>5
  <2> QED
    BY <1>1, <1>6, <2>1, NamesKept
<1> QED
  BY <1>6, <1>7, <1>8, <1>9 DEF PoolInv

------------------------------------------------------------------------------
(* The rotation, one request at a time. *)

(* What is known of the call that holds rotateMu. *)
LEMMA RotatorFacts ==
    ASSUME PoolInv, NEW r \in Requests, NEW s \in {"swap", "drop"}, At(r, s)
    PROVE  /\ req[r].todo = <<s>> /\ req[r].rc = NoClient /\ rotator = r
           /\ rotator # NoRequest
           /\ s = "swap" => fresh \in Clients /\ swapped = NoClient
           /\ s = "drop" => fresh = NoClient /\ swapped \in Clients
           /\ \A o \in Requests : o # r => ~Rotating(req[o].todo)
<1>1. req[r].todo = <<s>> /\ req[r].rc = NoClient
  BY BetweenAttempts
<1>2. <<"swap">> # <<"drop">>
  OBVIOUS
<1>3. rotator = r /\ rotator # NoRequest
  BY <1>1, RequestsAssumption DEF PoolInv, RotatesAlone
<1>4. /\ s = "swap" => fresh # NoClient /\ swapped = NoClient
      /\ s = "drop" => fresh = NoClient /\ swapped # NoClient
  BY <1>1, <1>2, <1>3 DEF PoolInv, RotatesAlone
<1>5. \A o \in Requests : o # r => ~Rotating(req[o].todo)
  BY <1>3 DEF PoolInv, RotatesAlone, Rotating
<1>6. /\ fresh # NoClient => fresh \in Clients
      /\ swapped # NoClient => swapped \in Clients
  BY DEF PoolInv, Types, Clients, NoClient
<1> QED
  BY <1>1, <1>3, <1>4, <1>5, <1>6

(* When rotateMu is free, nobody rotates. *)
LEMMA NobodyRotates ==
    ASSUME \A r \in Requests : ~Rotating(req'[r].todo),
           rotator' = NoRequest, fresh' = NoClient, swapped' = NoClient
    PROVE  RotatesAlone'
BY DEF RotatesAlone, Rotating

LEMMA DropSwappedStep ==
    ASSUME PoolInv, NEW r \in Requests, DropSwapped(r)
    PROVE  PoolInv'
<1>1. /\ req[r].todo = <<"drop">> /\ req[r].rc = NoClient
      /\ fresh = NoClient /\ swapped \in Clients
      /\ \A o \in Requests : o # r => ~Rotating(req[o].todo)
  BY RotatorFacts DEF DropSwapped
<1>2. PICK q \in CallRecords : Become(r, q) /\ InOrder(q)
                                /\ q.rc = NoClient /\ ~Rotating(q.todo)
  BY TryAgainFacts DEF DropSwapped
<1>3. /\ req' \in [Requests -> CallRecords]
      /\ CallsInOrder'
      /\ \A s \in Requests : s # r => req'[s] = req[s]
      /\ req'[r].rc = NoClient /\ req'[r].todo = q.todo
  BY <1>2, BecomeFacts DEF PoolInv
<1>4. /\ UNCHANGED <<breaker, pool, rc, activeName, abandoned, load, fresh, closing>>
      /\ swapped' = NoClient /\ rotator' = NoRequest
  BY DEF DropSwapped, handle, surroundings
<1>5. PICK c \in Clients : c = swapped
  BY <1>1
<1>6. ASSUME NEW d \in Clients
      PROVE  /\ Count(d)' = IF d = c THEN Count(d) - 1 ELSE Count(d)
             /\ Count(d) \in Nat
  <2>1. Count(d)' + One(req[r].rc = d) + One(rc = d) + One(swapped = d)
                  + One(closing = d) + One(abandoned = d)
          = Count(d) + One(req'[r].rc = d) + One(rc' = d) + One(swapped' = d)
                     + One(closing' = d) + One(abandoned' = d)
    BY <1>3, CountsMove DEF PoolInv
  <2>2. Count(d) \in Nat /\ Count(d)' \in Nat
    BY CountFacts, CountFactsNext
  <2> QED
    BY <1>1, <1>3, <1>4, <1>5, <2>1, <2>2 DEF One, Clients, NoClient
<1>7. Count(c) > 0
  BY <1>5, CountFacts
<1>8. /\ clients' \in [Clients -> [key : 0 .. NumKeys, refs : Nat]]
      /\ fresh' # NoClient => Count(fresh)' = 0
      /\ \A d \in Clients :
            /\ Exists(d)' => clients'[d].refs = Count(d)' /\ clients'[d].key = clients[d].key
            /\ Exists(d)' <=> Count(d)' > 0 \/ fresh' = d
  <2>1. DropReference(c) /\ fresh' = fresh
    BY <1>4, <1>5 DEF DropSwapped
  <2>2. Count(c)' = Count(c) - 1 /\ \A d \in Clients : d # c => Count(d)' = Count(d)
    BY <1>6
  <2> QED
    BY <1>7, <2>1, <2>2, ReferenceDropped
<1>9. Types'
  BY <1>3, <1>4, <1>8, NumClientsAssumption DEF PoolInv, Types, NoClient
<1>10. RotatesAlone'
  <2>1. \A o \in Requests : ~Rotating(req'[o].todo)
    BY <1>1, <1>2, <1>3
  <2> QED
    BY <1>1, <1>4, <2>1, NobodyRotates
<1>11. CountsTell'
  BY <1>4, <1>8 DEF PoolInv, CountsTell
<1>12. NamesTell'
  <2>1. \A d \in Clients : Count(d)' > 0 => clients'[d].key = clients[d].key
    BY <1>8
  <2> QED
    BY <1>3, <1>4, <1>9, <2>1, NamesKept
<1> QED
  BY <1>3, <1>9, <1>10, <1>11, <1>12 DEF PoolInv

LEMMA RotationFindsClosedStep ==
    ASSUME PoolInv, NEW r \in Requests, RotationFindsClosed(r)
    PROVE  PoolInv'
<1>1. /\ req[r].todo = <<"swap">> /\ req[r].rc = NoClient
      /\ fresh \in Clients /\ swapped = NoClient
      /\ \A o \in Requests : o # r => ~Rotating(req[o].todo)
  BY RotatorFacts DEF RotationFindsClosed
<1>2. Idle.todo = <<>> /\ Idle.rc = NoClient
  BY DEF Idle
<1>3. /\ req' \in [Requests -> CallRecords]
      /\ CallsInOrder'
      /\ \A s \in Requests : s # r => req'[s] = req[s]
      /\ req'[r].rc = NoClient /\ req'[r].todo = <<>>
  BY <1>2, IdleFacts, BecomeFacts DEF PoolInv, RotationFindsClosed, Returns
<1>4. /\ UNCHANGED <<breaker, pool, rc, activeName, abandoned, load, swapped, closing>>
      /\ fresh' = NoClient /\ rotator' = NoRequest /\ rc = NoClient
      /\ clients' = [clients EXCEPT ![fresh] = Closed]
  BY DEF RotationFindsClosed, handle, surroundings
<1>5. ASSUME NEW d \in Clients PROVE Count(d)' = Count(d)
  <2>1. Count(d)' + One(req[r].rc = d) + One(rc = d) + One(swapped = d)
                  + One(closing = d) + One(abandoned = d)
          = Count(d) + One(req'[r].rc = d) + One(rc' = d) + One(swapped' = d)
                     + One(closing' = d) + One(abandoned' = d)
    BY <1>3, CountsMove DEF PoolInv
  <2>2. Count(d) \in Nat /\ Count(d)' \in Nat
    BY CountFacts, CountFactsNext
  <2> QED
    BY <1>1, <1>3, <1>4, <2>1, <2>2 DEF One
<1>6. Count(fresh) = 0
  BY <1>1 DEF PoolInv, CountsTell, Clients, NoClient
<1>7. /\ clients' \in [Clients -> [key : 0 .. NumKeys, refs : Nat]]
      /\ clients'[fresh].key = 0
      /\ \A d \in Clients : d # fresh => clients'[d] = clients[d]
  <2>1. clients \in [Clients -> [key : 0 .. NumKeys, refs : Nat]]
    BY DEF PoolInv, Types
  <2>2. Closed \in [key : 0 .. NumKeys, refs : Nat] /\ Closed.key = 0
    BY NumKeysAssumption DEF Closed
  <2> QED
    BY <1>1, <1>4, <2>1, <2>2
<1>8. Types'
  BY <1>3, <1>4, <1>7, NumClientsAssumption DEF PoolInv, Types, NoClient
<1>9. RotatesAlone'
  <2>1. ~Rotating(<<>>)
    BY DEF Rotating
  <2>2. \A o \in Requests : ~Rotating(req'[o].todo)
    BY <1>1, <1>3, <2>1
  <2> QED
    BY <1>1, <1>4, <2>2, NobodyRotates
<1>10. CountsTell'
  <2>1. ASSUME NEW d \in Clients
        PROVE  /\ Exists(d)' => clients'[d].refs = Count(d)'
               /\ Exists(d)' <=> Count(d)' > 0 \/ fresh' = d
    BY <1>1, <1>4, <1>5, <1>6, <1>7
    DEF PoolInv, CountsTell, Exists, Clients, NoClient
  <2> QED
    BY <1>4, <2>1 DEF PoolInv, CountsTell
<1>11. NamesTell'
  <2>1. \A d \in Clients : Count(d)' > 0 => clients'[d].key = clients[d].key
    BY <1>5, <1>6, <1>7
  <2> QED
    BY <1>3, <1>4, <1>8, <2>1, NamesKept
<1> QED
  BY <1>3, <1>8, <1>9, <1>10, <1>11 DEF PoolInv

LEMMA InstallClientStep ==
    ASSUME PoolInv, NEW r \in Requests, InstallClient(r)
    PROVE  PoolInv'
<1> DEFINE q == [req[r] EXCEPT !.todo = <<"drop">>]
<1>1. /\ req[r].todo = <<"swap">> /\ req[r].rc = NoClient
      /\ rotator = r /\ rotator # NoRequest
      /\ fresh \in Clients /\ swapped = NoClient
      /\ \A o \in Requests : o # r => ~Rotating(req[o].todo)
  BY RotatorFacts DEF InstallClient
<1>2. /\ req[r] \in CallRecords /\ InOrder(req[r])
      /\ req[r].kind # "peek" /\ ~req[r].admitted
  BY BetweenAttempts DEF InstallClient
<1>3. /\ q \in CallRecords /\ q.todo = <<"drop">> /\ q.rc = NoClient
      /\ q.err = req[r].err /\ q.kind = req[r].kind /\ q.ctxDone = req[r].ctxDone
      /\ q.admitted = req[r].admitted /\ q.tok = req[r].tok
  <2>1. <<"drop">> \in Plans
    BY DEF Plans
  <2> QED
    BY <1>1, <1>2, <2>1, PlanUpdate
<1>4. Become(r, q)
  BY DEF InstallClient
<1> HIDE DEF q
<1>5. InOrder(q)
  <2>1. \A s \in {"swap", "drop"} :
           /\ StepsOf(<<s>>) = {s} /\ ~Holding(<<s>>) /\ ~Reporting(<<s>>)
           /\ <<s>> \notin {<<"acquire">>, <<"call">>, <<"classify">>}
    BY SinglePlans DEF HoldingSteps, ReportSteps
  <2> QED
    BY <1>1, <1>2, <1>3, <2>1
    DEF InOrder, HoldsWhilePlanned, AdmittedWhilePlanned, NeedsToken,
        FitsItsCause, Transient, FailureSteps, KeySteps
<1>6. /\ req' \in [Requests -> CallRecords]
      /\ CallsInOrder'
      /\ \A s \in Requests : s # r => req'[s] = req[s]
      /\ req'[r].rc = NoClient /\ req'[r].todo = <<"drop">>
  BY <1>3, <1>4, <1>5, BecomeFacts DEF PoolInv
<1>7. /\ UNCHANGED <<breaker, pool, abandoned, load, closing, rotator>>
      /\ rc # NoClient /\ swapped' = rc /\ rc' = fresh /\ fresh' = NoClient
      /\ activeName' = clients[fresh].key
  BY DEF InstallClient, surroundings
<1>8. closing = NoClient /\ rc \in Clients
  BY <1>7 DEF PoolInv, Types, CountsTell, Clients, NoClient
<1>9. Count(fresh) = 0 /\ Exists(fresh)
  BY <1>1 DEF PoolInv, CountsTell, Clients, NoClient
<1>10. /\ clients \in [Clients -> [key : 0 .. NumKeys, refs : Nat]]
       /\ clients' \in [Clients -> [key : 0 .. NumKeys, refs : Nat]]
       /\ clients'[fresh].refs = 1 /\ clients'[fresh].key = clients[fresh].key
       /\ \A d \in Clients : d # fresh => clients'[d] = clients[d]
  <2>1. clients \in [Clients -> [key : 0 .. NumKeys, refs : Nat]]
    BY DEF PoolInv, Types
  <2>2. clients' = [clients EXCEPT ![fresh].refs = 1]
    BY DEF InstallClient
  <2> QED
    BY <1>1, <2>1, <2>2
<1>11. ASSUME NEW d \in Clients
       PROVE  Count(d) \in Nat /\ Count(d)' = IF d = fresh THEN 1 ELSE Count(d)
  <2>1. Count(d)' + One(req[r].rc = d) + One(rc = d) + One(swapped = d)
                  + One(closing = d) + One(abandoned = d)
          = Count(d) + One(req'[r].rc = d) + One(rc' = d) + One(swapped' = d)
                     + One(closing' = d) + One(abandoned' = d)
    BY <1>6, CountsMove DEF PoolInv
  <2>2. Count(d) \in Nat /\ Count(d)' \in Nat
    BY CountFacts, CountFactsNext
  <2> QED
    BY <1>1, <1>6, <1>7, <1>9, <2>1, <2>2 DEF One, Clients, NoClient
<1>12. activeName' \in Keys
  BY <1>1, <1>7, <1>9, <1>10 DEF Exists, Keys
<1>13. Types'
  BY <1>1, <1>6, <1>7, <1>8, <1>10, <1>12, NumClientsAssumption
  DEF PoolInv, Types, Clients, NoClient
<1>14. RotatesAlone'
  BY <1>1, <1>6, <1>7, RequestsAssumption DEF RotatesAlone, Rotating
<1>15. CountsTell'
  <2>1. ASSUME NEW d \in Clients
        PROVE  /\ Exists(d)' => clients'[d].refs = Count(d)'
               /\ Exists(d)' <=> Count(d)' > 0 \/ fresh' = d
    BY <1>1, <1>7, <1>9, <1>10, <1>11
    DEF PoolInv, CountsTell, Exists, Clients, NoClient
  <2> QED
    BY <1>7, <1>8, <2>1 DEF CountsTell
<1>16. NamesTell'
  <2>1. ASSUME NEW s \in Requests, req'[s].rc # NoClient
        PROVE  clients'[req'[s].rc].key = req'[s].name
    <3>1. req'[s] = req[s] /\ req[s].rc \in Clients
      <4>1. req'[s] = req[s]
        BY <1>6, <2>1
      <4>2. req[s] \in CallRecords /\ req[s].rc # NoClient
        BY <2>1, <4>1 DEF PoolInv, Types
      <4> QED
        BY <4>1, <4>2 DEF CallRecords, Clients, NoClient
    <3>2. clients[req[s].rc].key = req[s].name
      BY <2>1, <3>1 DEF PoolInv, NamesTell
    <3>3. \A d \in Clients : clients'[d].key = clients[d].key
      BY <1>10
    <3> QED
      BY <3>1, <3>2, <3>3
  <2> QED
    BY <1>7, <1>10, <2>1 DEF NamesTell
<1> QED
  BY <1>6, <1>13, <1>14, <1>15, <1>16 DEF PoolInv

LEMMA MakeClientStep ==
    ASSUME PoolInv, NEW r \in Requests, MakeClient(r)
    PROVE  PoolInv'
<1> DEFINE q == [req[r] EXCEPT !.todo = <<"swap">>, !.name = 0]
<1>1. /\ req[r] \in CallRecords /\ InOrder(req[r]) /\ req[r].todo = <<"rotate">>
      /\ req[r].rc = NoClient /\ req[r].kind # "peek"
      /\ ~req[r].admitted /\ req[r].tok = 0
  BY BetweenAttempts DEF MakeClient, MayRotate
<1>2. rotator = NoRequest /\ fresh = NoClient /\ swapped = NoClient
  BY DEF MakeClient, MayRotate, PoolInv, RotatesAlone
<1>3. \A o \in Requests : ~Rotating(req[o].todo)
  BY <1>2, RequestsAssumption DEF PoolInv, RotatesAlone, Rotating
<1>4. /\ q \in CallRecords /\ q.todo = <<"swap">> /\ q.rc = NoClient
      /\ q.err = req[r].err /\ q.kind = req[r].kind /\ q.ctxDone = req[r].ctxDone
      /\ q.admitted = req[r].admitted /\ q.tok = req[r].tok
  <2>1. <<"swap">> \in Plans /\ 0 \in 0 .. NumKeys
    BY NumKeysAssumption DEF Plans
  <2> QED
    BY <1>1, <2>1 DEF CallRecords
<1>5. Become(r, q)
  BY DEF MakeClient
<1> HIDE DEF q
<1>6. InOrder(q)
  <2>1. \A s \in {"rotate", "swap"} :
           /\ StepsOf(<<s>>) = {s} /\ ~Holding(<<s>>) /\ ~Reporting(<<s>>)
           /\ <<s>> \notin {<<"acquire">>, <<"call">>, <<"classify">>}
    BY SinglePlans DEF HoldingSteps, ReportSteps
  <2> QED
    BY <1>1, <1>4, <2>1
    DEF InOrder, HoldsWhilePlanned, AdmittedWhilePlanned, NeedsToken,
        FitsItsCause, Transient, FailureSteps, KeySteps
<1>7. /\ req' \in [Requests -> CallRecords]
      /\ CallsInOrder'
      /\ \A s \in Requests : s # r => req'[s] = req[s]
      /\ req'[r].rc = NoClient /\ req'[r].todo = <<"swap">>
  BY <1>4, <1>5, <1>6, BecomeFacts DEF PoolInv
<1>8. /\ UNCHANGED <<breaker, rc, activeName, abandoned, load, swapped, closing>>
      /\ rotator' = r /\ fresh' = Least(Unused) /\ pool' = GetAvailable(pool)
  BY DEF MakeClient, handle, surroundings
<1>9. PICK f \in Clients : f = fresh'
  <2>1. Unused \in SUBSET Nat /\ Unused # {} /\ Unused \subseteq Clients
    BY NumClientsAssumption DEF MakeClient, Unused, Clients
  <2> QED
    BY <1>8, <2>1, LeastFacts
<1>10. ~Exists(f) /\ \A o \in Requests : req[o].rc # f
  <2>1. Unused \in SUBSET Nat /\ Unused # {}
    BY NumClientsAssumption DEF MakeClient, Unused, Clients
  <2>2. f \in Unused
    BY <1>8, <1>9, <2>1, LeastFacts
  <2> QED
    BY <2>2 DEF Unused
<1>11. pool' \in Pools /\ pool'.current \in Keys
  BY <1>8, GetAvailableFacts DEF MakeClient, PoolInv, Types
<1>12. /\ clients' \in [Clients -> [key : 0 .. NumKeys, refs : Nat]]
       /\ clients'[f].key \in Keys /\ clients'[f].refs = 0
       /\ \A d \in Clients : d # f => clients'[d] = clients[d]
  <2> DEFINE made == [key |-> pool'.current, refs |-> 0]
  <2>1. clients \in [Clients -> [key : 0 .. NumKeys, refs : Nat]]
    BY DEF PoolInv, Types
  <2>2. clients' = [clients EXCEPT ![f] = made]
    BY <1>9 DEF MakeClient
  <2>3. made \in [key : 0 .. NumKeys, refs : Nat] /\ made.key \in Keys /\ made.refs = 0
    BY <1>11 DEF Keys
  <2> HIDE DEF made
  <2> QED
    BY <1>9, <2>1, <2>2, <2>3
<1>13. ASSUME NEW d \in Clients PROVE Count(d)' = Count(d) /\ Count(d) \in Nat
  <2>1. Count(d)' + One(req[r].rc = d) + One(rc = d) + One(swapped = d)
                  + One(closing = d) + One(abandoned = d)
          = Count(d) + One(req'[r].rc = d) + One(rc' = d) + One(swapped' = d)
                     + One(closing' = d) + One(abandoned' = d)
    BY <1>7, CountsMove DEF PoolInv
  <2>2. Count(d) \in Nat /\ Count(d)' \in Nat
    BY CountFacts, CountFactsNext
  <2> QED
    BY <1>1, <1>7, <1>8, <2>1, <2>2 DEF One
<1>14. Count(f) = 0
  BY <1>9, <1>10, <1>13 DEF PoolInv, CountsTell
<1>15. Types'
  BY <1>7, <1>8, <1>9, <1>11, <1>12 DEF PoolInv, Types, Clients
<1>16. RotatesAlone'
  BY <1>2, <1>3, <1>7, <1>8, <1>9, RequestsAssumption
  DEF RotatesAlone, Rotating, Clients, NoClient
<1>17. CountsTell'
  <2>1. fresh' # NoClient => Count(fresh)' = 0
    BY <1>9, <1>13, <1>14
  <2>2. ASSUME NEW d \in Clients
        PROVE  /\ Exists(d)' => clients'[d].refs = Count(d)'
               /\ Exists(d)' <=> Count(d)' > 0 \/ fresh' = d
    <3>1. CASE d = f
      BY <1>9, <1>12, <1>13, <1>14, <3>1 DEF Exists, Keys
    <3>2. CASE d # f
      BY <1>2, <1>9, <1>12, <1>13, <3>2
      DEF PoolInv, CountsTell, Exists, Clients, NoClient
    <3> QED
      BY <3>1, <3>2
  <2> QED
    BY <1>8, <2>1, <2>2 DEF PoolInv, CountsTell
<1>18. NamesTell'
  <2>1. \A d \in Clients : Count(d)' > 0 => clients'[d].key = clients[d].key
    BY <1>12, <1>13, <1>14
  <2> QED
    BY <1>7, <1>8, <1>15, <2>1, NamesKept
<1> QED
  BY <1>7, <1>15, <1>16, <1>17, <1>18 DEF PoolInv

------------------------------------------------------------------------------
(* The invariant. *)

LEMMA PoolInit == Init => PoolInv
<1> SUFFICES ASSUME Init PROVE PoolInv
  OBVIOUS
<1>1. NumClients \in Nat /\ NumClients >= 2
  <2>1. Cardinality(Requests) \in Nat
    BY RequestsAssumption, FS_CardinalityType
  <2> QED
    BY <2>1, NumClientsAssumption
<1>2. 1 \in Clients /\ 1 \in Keys
  BY <1>1, NumKeysAssumption DEF Clients, Keys
<1>3. Idle \in CallRecords /\ InOrder(Idle) /\ Idle.rc = NoClient /\ Idle.todo = <<>>
  BY IdleFacts DEF Idle
<1>4. /\ clients \in [Clients -> [key : 0 .. NumKeys, refs : Nat]]
      /\ clients[1].key = 1 /\ clients[1].refs = 1
      /\ \A c \in Clients : c # 1 => clients[c].key = 0
  <2> DEFINE first == [key |-> 1, refs |-> 1]
  <2>1. /\ first \in [key : 0 .. NumKeys, refs : Nat] /\ first.key = 1 /\ first.refs = 1
        /\ Closed \in [key : 0 .. NumKeys, refs : Nat] /\ Closed.key = 0
    BY NumKeysAssumption DEF Closed
  <2>2. clients = [c \in Clients |-> IF c = 1 THEN first ELSE Closed]
    BY DEF Init
  <2> HIDE DEF first
  <2> QED
    BY <1>2, <2>1, <2>2
<1>5. req \in [Requests -> CallRecords] /\ \A r \in Requests : req[r] = Idle
  BY <1>3 DEF Init
<1>6. /\ rc = 1 /\ activeName = 1 /\ rotator = NoRequest /\ fresh = NoClient
      /\ swapped = NoClient /\ closing = NoClient /\ abandoned = NoClient
      /\ load \in Workloads
  BY DEF Init
<1>7. breaker \in Breakers
  BY AnyProbeAssumption, ThresholdAssumption
  DEF Init, NewCircuitBreaker, Breakers, States, Stamps
<1>8. pool \in Pools
  BY <1>2 DEF Init, NewAuthPool, Pools
<1>9. Types
  BY <1>1, <1>2, <1>4, <1>5, <1>6, <1>7, <1>8 DEF Types, NoClient
<1>10. CallsInOrder
  BY <1>3, <1>5 DEF CallsInOrder, InOrder
<1>11. RotatesAlone
  <2>1. <<>> \notin {<<"swap">>, <<"drop">>}
    OBVIOUS
  <2> QED
    BY <1>3, <1>5, <1>6, <2>1 DEF RotatesAlone
<1>12. ASSUME NEW c \in Clients PROVE Count(c) = One(c = 1)
  <2>1. Users(c) = {}
    BY <1>3, <1>5 DEF Users, Clients, NoClient
  <2>2. Cardinality(Users(c)) = 0
    BY <2>1, FS_EmptySet
  <2>3. Count(c) = Cardinality(Users(c)) + One(rc = c) + One(swapped = c)
                     + One(closing = c) + One(abandoned = c)
    BY CountFacts
  <2> QED
    BY <1>6, <2>2, <2>3 DEF One, Clients, NoClient
<1>13. CountsTell
  BY <1>4, <1>6, <1>12 DEF CountsTell, Exists, One, Clients, NoClient
<1>14. NamesTell
  BY <1>3, <1>4, <1>5, <1>6 DEF NamesTell
<1> QED
  BY <1>9, <1>10, <1>11, <1>13, <1>14 DEF PoolInv

LEMMA TimePasses ==
    ASSUME PoolInv, BreakerAges \/ \E k \in Keys : CooldownEnds(k)
    PROVE  PoolInv'
<1>1. breaker \in Breakers /\ pool \in Pools
  BY DEF PoolInv, Types
<1>2. CASE BreakerAges
  <2>1. PICK stamp \in Stamps : \/ breaker' = [breaker EXCEPT !.openedAt = stamp]
                                \/ breaker' = [breaker EXCEPT !.probeStarted = stamp]
    BY <1>1, <1>2 DEF BreakerAges, Breakers, Age, Stamps
  <2>2. breaker' \in Breakers
    BY <1>1, <2>1 DEF Breakers
  <2> QED
    BY <1>1, <1>2, <2>2, QuietStep DEF BreakerAges
<1>3. CASE \E k \in Keys : CooldownEnds(k)
  <2>1. PICK k \in Keys : CooldownEnds(k)
    BY <1>3
  <2>2. pool' = [pool EXCEPT !.cooling[k] = FALSE] /\ breaker' = breaker
    BY <2>1 DEF CooldownEnds
  <2>3. pool' \in Pools
    BY <1>1, <2>2 DEF Pools
  <2> QED
    BY <1>1, <2>1, <2>2, <2>3, QuietStep DEF CooldownEnds
<1> QED
  BY <1>2, <1>3

LEMMA PoolStep ==
    ASSUME PoolInv, [Next]_vars
    PROVE  PoolInv'
<1>1. CASE UNCHANGED vars
  <2>1. UNCHANGED <<breaker, pool>> /\ UNCHANGED <<clients, handle, rotation, closing, req>>
    BY <1>1 DEF vars, handle, rotation, surroundings
  <2> QED
    BY <2>1, QuietStep DEF PoolInv, Types
<1>2. ASSUME NEW r \in Requests, Call(r) \/ Cancel(r) \/ Event(r)
      PROVE  PoolInv'
  BY <1>2, CallStep, CancelStep, EventStep
<1>3. ASSUME NEW r \in Requests, Answers(r)
      PROVE  PoolInv'
  BY <1>3, SucceedsStep, FailsBeforeDataStep, FailsMidStreamStep, ConsumerPanicsStep
  DEF Answers
<1>4. ASSUME NEW r \in Requests, Rotate(r)
      PROVE  PoolInv'
  BY <1>4, WaitingSteps, MakeClientStep DEF Rotate
<1>5. ASSUME NEW r \in Requests, Step(r)
      PROVE  PoolInv'
  BY <1>5, GateStep, AcquireStep, ClassifyStep, ReleaseStep, ReportToPoolStep,
     ReportToBreakerStep, InstallClientStep, RotationFindsClosedStep, DropSwappedStep,
     WaitingSteps
  DEF Step
<1>6. CASE Close \/ CloseReleases
  BY <1>6, CloseStep, CloseReleasesStep
<1>7. CASE BreakerAges \/ \E k \in Keys : CooldownEnds(k)
  BY <1>7, TimePasses
<1> QED
  BY <1>1, <1>2, <1>3, <1>4, <1>5, <1>6, <1>7 DEF Next

(* Types, the order of every call's steps, the exclusiveness of a rotation,  *)
(* the counts and the names hold at every interleaving.                     *)
THEOREM PoolInvariant == Spec => []PoolInv
<1>1. Init => PoolInv
  BY PoolInit
<1>2. PoolInv /\ [Next]_vars => PoolInv'
  BY PoolStep
<1> QED
  BY <1>1, <1>2, PTL DEF Spec

(* The reference count of a client is the number of calls and of places of   *)
(* the pool that refer to it, and of consumers that panicked out of Stream:  *)
(* retain and release are balanced in Complete, Stream, rotateClient and     *)
(* Close on every path.                                                     *)
THEOREM CountsReferences == Spec => []ReferencesCounted
<1>1. PoolInv => ReferencesCounted
  BY DEF PoolInv, CountsTell, Count, ReferencesCounted
<1> QED
  BY <1>1, PoolInvariant, PTL

(* A client is closed by the release of its last reference, neither before   *)
(* it nor never.                                                            *)
THEOREM ClosesWithLastUser == Spec => []ClosedWithItsLastUser
<1>1. ASSUME PoolInv, NEW c \in Clients
      PROVE  /\ References(c) > 0 \/ fresh = c => Exists(c)
             /\ Exists(c) => References(c) > 0 \/ c \in {fresh, abandoned}
  <2>1. Exists(c) <=> Count(c) > 0 \/ fresh = c
    BY <1>1 DEF PoolInv, CountsTell
  <2>2. References(c) \in Nat
    <3>1. Cardinality(Users(c)) \in Nat
      BY CountFacts
    <3> QED
      BY <3>1 DEF References, Users
  <2>3. Count(c) = References(c) + One(abandoned = c)
    BY DEF Count, One
  <2> QED
    BY <2>1, <2>2, <2>3 DEF One
<1>2. PoolInv => ClosedWithItsLastUser
  BY <1>1 DEF ClosedWithItsLastUser
<1> QED
  BY <1>2, PoolInvariant, PTL

(* Whatever rotations go on around a call, the key it reports to the pool is *)
(* that of the client its request was sent with.                            *)
THEOREM BlamesOwnKey == Spec => []BlamesItsOwnKey
<1>1. PoolInv => BlamesItsOwnKey
  BY DEF PoolInv, NamesTell, BlamesItsOwnKey
<1> QED
  BY <1>1, PoolInvariant, PTL

------------------------------------------------------------------------------
(* The tokens of the breaker: who draws one, and how each is given up.       *)

OthersKeep(r) ==
    \A s \in Requests :
        s # r => req'[s].admitted = req[s].admitted /\ req'[s].tok = req[s].tok

TokensKept ==
    \A s \in Requests : req'[s].admitted = req[s].admitted /\ req'[s].tok = req[s].tok

TokenDrawn(r) ==
    /\ ~req[r].admitted /\ Admits(breaker) /\ NoLap
    /\ breaker' = Allow(breaker)
    /\ req'[r].admitted = TRUE /\ req'[r].tok = ProbeToken(breaker)
    /\ OthersKeep(r)

TokenForgotten(r) ==
    /\ req[r].admitted
    /\ req'[r].admitted = FALSE /\ req'[r].tok = 0
    /\ OthersKeep(r)

TokenReported(r) ==
    /\ TokenForgotten(r)
    /\ breaker' \in {RecordSuccess(breaker, req[r].tok), RecordFailure(breaker, req[r].tok),
                     ReleaseProbe(breaker, req[r].tok)}

(* A call gives up its token unreported when the pool has been closed, when  *)
(* its consumer panics, and after an authentication failure.                *)
Excused == rc' = NoClient \/ load.panics \/ "auth" \in load.failures

Explained == \A r \in Requests : req[r].err = "auth" => "auth" \in load.failures

(* A call that goes on as a record with the token it had. *)
LEMMA KeepsToken ==
    ASSUME PoolInv, Explained, NEW r \in Requests, NEW q, Become(r, q), load' = load,
           q.admitted = req[r].admitted, q.tok = req[r].tok,
           q.todo # <<>> \/ ~req[r].admitted, q.err = "auth" => "auth" \in load.failures
    PROVE  TokensKept /\ Explained'
<1>1. req \in [Requests -> CallRecords]
  BY DEF PoolInv, Types
<1>2. /\ req'[r] = IF q.todo = <<>> THEN Idle ELSE q
      /\ \A s \in Requests : s # r => req'[s] = req[s]
  BY <1>1 DEF Become
<1>3. Idle.admitted = FALSE /\ Idle.tok = 0 /\ Idle.err # "auth"
  BY DEF Idle
<1>4. /\ req[r].admitted \in BOOLEAN
      /\ ~req[r].admitted => req[r].tok = 0
  BY <1>1 DEF CallRecords, PoolInv, CallsInOrder, AdmittedWhilePlanned
<1>5. req'[r].admitted = req[r].admitted /\ req'[r].tok = req[r].tok
  BY <1>2, <1>3, <1>4
<1>6. req'[r].err = "auth" => "auth" \in load.failures
  BY <1>2, <1>3
<1>7. TokensKept
  BY <1>2, <1>5 DEF TokensKept
<1>8. Explained'
  BY <1>2, <1>6 DEF Explained
<1> QED
  BY <1>7, <1>8

(* A call that goes on as a record without a token, or returns. *)
LEMMA LosesToken ==
    ASSUME PoolInv, Explained, NEW r \in Requests, NEW q, Become(r, q), load' = load,
           q.admitted = FALSE, q.tok = 0, q.err = "auth" => "auth" \in load.failures
    PROVE  /\ TokensKept \/ TokenForgotten(r)
           /\ ~req[r].admitted => TokensKept
           /\ req[r].admitted => TokenForgotten(r)
           /\ Explained'
<1>1. req \in [Requests -> CallRecords]
  BY DEF PoolInv, Types
<1>2. /\ req'[r] = IF q.todo = <<>> THEN Idle ELSE q
      /\ \A s \in Requests : s # r => req'[s] = req[s]
  BY <1>1 DEF Become
<1>3. Idle.admitted = FALSE /\ Idle.tok = 0 /\ Idle.err # "auth"
  BY DEF Idle
<1>4. /\ req[r].admitted \in BOOLEAN
      /\ ~req[r].admitted => req[r].tok = 0
  BY <1>1 DEF CallRecords, PoolInv, CallsInOrder, AdmittedWhilePlanned
<1>5. req'[r].admitted = FALSE /\ req'[r].tok = 0
  BY <1>2, <1>3
<1>6. req'[r].err = "auth" => "auth" \in load.failures
  BY <1>2, <1>3
<1>7. ~req[r].admitted => TokensKept
  BY <1>2, <1>4, <1>5 DEF TokensKept
<1>8. req[r].admitted => TokenForgotten(r)
  BY <1>2, <1>5 DEF TokenForgotten, OthersKeep
<1>9. Explained'
  BY <1>2, <1>6 DEF Explained
<1> QED
  BY <1>7, <1>8, <1>9

(* What the breaker and the tokens see of a step of one call.               *)
Harmless == breaker' = breaker /\ TokensKept /\ Explained'

LEMMA EntryTokens ==
    ASSUME PoolInv, Explained, NEW r \in Requests, Call(r) \/ Cancel(r) \/ Event(r)
    PROVE  Harmless
<1>1. req \in [Requests -> CallRecords] /\ breaker' = breaker /\ load' = load
  BY DEF PoolInv, Types, Call, Cancel, Event, handle, surroundings
<1>2. CASE Call(r)
  <2> PICK k \in load.kinds :
       Become(r, [Idle EXCEPT !.kind = k,
                    !.cap = IF k = "peek" THEN 0 ELSE MaxRetries,
                    !.todo = IF k = "peek" THEN <<"acquire">>
                             ELSE OnBreaker("gate") \o <<"acquire">>])
    BY <1>2 DEF Call
  <2> DEFINE q == [Idle EXCEPT !.kind = k,
                    !.cap = IF k = "peek" THEN 0 ELSE MaxRetries,
                    !.todo = IF k = "peek" THEN <<"acquire">>
                             ELSE OnBreaker("gate") \o <<"acquire">>]
  <2>1. q.admitted = FALSE /\ q.tok = 0 /\ q.err = "none"
    BY DEF Idle
  <2>2. Become(r, q)
    OBVIOUS
  <2> HIDE DEF q
  <2>3. ~req[r].admitted
    <3>1. req[r].todo = <<>>
      BY <1>2 DEF Call, Running
    <3>2. ~Reporting(<<>>) /\ <<>> \notin {<<"acquire">>, <<"call">>, <<"classify">>}
      BY StepsOfShort DEF Reporting
    <3> QED
      BY <3>1, <3>2 DEF PoolInv, CallsInOrder, AdmittedWhilePlanned, NeedsToken
  <2> QED
    BY <1>1, <2>1, <2>2, <2>3, LosesToken DEF Harmless
<1>3. CASE Cancel(r) \/ Event(r)
  <2>1. /\ \A s \in Requests : s # r => req'[s] = req[s]
        /\ req'[r].admitted = req[r].admitted /\ req'[r].tok = req[r].tok
        /\ req'[r].err = req[r].err
    BY <1>1, <1>3 DEF Cancel, Event, CallRecords
  <2> QED
    BY <1>1, <2>1 DEF Harmless, TokensKept, Explained
<1> QED
  BY <1>2, <1>3

(* The plans that an answer leads to are not empty. *)
LEMMA AnswerPlans ==
    /\ <<"release", "markSuccess">> \o OnBreaker("recordSuccess") # <<>>
    /\ <<"markSuccess">> \o OnBreaker("recordSuccess") \o <<"release">> # <<>>
    /\ OnBreaker("releaseProbe") \o <<"release">> # <<>>
    /\ <<"markFailed">> \o OnBreaker("recordFailure") \o <<"release">> # <<>>
<1>1. StepsOf(<<>>) = {}
  BY StepsOfShort
<1> QED
  BY <1>1, ReportedPlans

LEMMA AnswerTokens ==
    ASSUME PoolInv, Explained, NEW r \in Requests, Answers(r)
    PROVE  Harmless \/ (breaker' = breaker /\ Explained' /\ TokenForgotten(r) /\ Excused)
<1>1. At(r, "call")
  BY DEF Answers, Succeeds, FailsBeforeData, ConsumerBreaks, FailsMidStream, Answer,
         ConsumerPanics
<1>2. /\ req[r] \in CallRecords /\ req[r].admitted \in BOOLEAN
      /\ req[r].err = "auth" => "auth" \in load.failures
  BY <1>1, CallingFacts DEF CallRecords, Explained
<1>3. breaker' = breaker /\ load' = load
  BY DEF Answers, Succeeds, FailsBeforeData, ConsumerBreaks, FailsMidStream, Answer,
         ConsumerPanics, handle, surroundings
<1>4. ASSUME NEW t, t # <<>>, NEW kinds, Answer(r, kinds, [req[r] EXCEPT !.todo = t])
      PROVE  Harmless
  <2> DEFINE q == [[req[r] EXCEPT !.todo = t] EXCEPT !.started = FALSE]
  <2>1. Become(r, q)
    BY <1>4 DEF Answer
  <2>2. /\ q.admitted = req[r].admitted /\ q.tok = req[r].tok /\ q.todo = t
        /\ q.err = req[r].err
    BY <1>2 DEF CallRecords
  <2> HIDE DEF q
  <2> QED
    BY <1>2, <1>3, <1>4, <2>1, <2>2, KeepsToken DEF Harmless
<1>5. CASE Succeeds(r) \/ ConsumerBreaks(r)
  BY <1>4, <1>5, AnswerPlans DEF Succeeds, ConsumerBreaks
<1>6. CASE FailsBeforeData(r)
  <2> PICK e \in Errors(r) :
       Answer(r, {"complete", "stream"}, [req[r] EXCEPT !.err = e, !.todo = <<"classify">>])
    BY <1>6 DEF FailsBeforeData
  <2> DEFINE q == [[req[r] EXCEPT !.err = e, !.todo = <<"classify">>] EXCEPT !.started = FALSE]
  <2>1. Become(r, q)
    BY DEF Answer
  <2>2. /\ q.admitted = req[r].admitted /\ q.tok = req[r].tok /\ q.todo = <<"classify">>
        /\ q.err = e
    BY <1>2 DEF CallRecords
  <2> HIDE DEF q
  <2>3. e = "auth" => "auth" \in load.failures
    BY DEF Errors
  <2>4. <<"classify">> # <<>>
    OBVIOUS
  <2> QED
    BY <1>3, <2>1, <2>2, <2>3, <2>4, KeepsToken DEF Harmless
<1>7. CASE FailsMidStream(r)
  <2> PICK e \in Errors(r) : Answer(r, {"stream"}, PassedOn([req[r] EXCEPT !.err = e]))
    BY <1>7 DEF FailsMidStream
  <2> DEFINE f == [req[r] EXCEPT !.err = e]
             q == [PassedOn(f) EXCEPT !.started = FALSE]
  <2>1. Become(r, q)
    BY DEF Answer
  <2>2. /\ f \in CallRecords /\ f.admitted = req[r].admitted /\ f.tok = req[r].tok
        /\ f.err = e
    BY <1>2, ErrorsFacts DEF CallRecords
  <2>3. e = "auth" => "auth" \in load.failures
    BY DEF Errors
  <2> HIDE DEF f
  <2>4. CASE f.ctxDone \/ ~(IsRetryable(f.err) \/ IsAuthError(f.err))
    <3> DEFINE t == OnBreaker("releaseProbe") \o <<"release">>
    <3>1. q = [[f EXCEPT !.todo = t] EXCEPT !.started = FALSE] /\ t # <<>>
      BY <2>4, AnswerPlans DEF PassedOn
    <3> HIDE DEF t
    <3>2. /\ q.admitted = req[r].admitted /\ q.tok = req[r].tok /\ q.todo # <<>>
          /\ q.err = e
      BY <2>2, <3>1 DEF CallRecords
    <3> HIDE DEF q
    <3> QED
      BY <1>3, <2>1, <2>3, <3>2, KeepsToken DEF Harmless
  <2>5. CASE ~f.ctxDone /\ ~IsAuthError(f.err) /\ IsRetryable(f.err)
    <3> DEFINE t == <<"markFailed">> \o OnBreaker("recordFailure") \o <<"release">>
    <3>1. q = [[f EXCEPT !.todo = t] EXCEPT !.started = FALSE] /\ t # <<>>
      BY <2>5, AnswerPlans DEF PassedOn
    <3> HIDE DEF t
    <3>2. /\ q.admitted = req[r].admitted /\ q.tok = req[r].tok /\ q.todo # <<>>
          /\ q.err = e
      BY <2>2, <3>1 DEF CallRecords
    <3> HIDE DEF q
    <3> QED
      BY <1>3, <2>1, <2>3, <3>2, KeepsToken DEF Harmless
  <2>6. CASE ~f.ctxDone /\ IsAuthError(f.err)
    <3> DEFINE g == Forget(f)
    <3>1. q = [[g EXCEPT !.todo = <<"markFailed", "release">>] EXCEPT !.started = FALSE]
      BY <2>6 DEF PassedOn
    <3>2. g \in CallRecords /\ g.admitted = FALSE /\ g.tok = 0 /\ g.err = e
      BY <2>2, ForgetFacts
    <3> HIDE DEF g
    <3>3. q.admitted = FALSE /\ q.tok = 0 /\ q.err = e
      BY <3>1, <3>2 DEF CallRecords
    <3>4. "auth" \in load.failures
      BY <2>2, <2>3, <2>6 DEF IsAuthError
    <3> HIDE DEF q
    <3> QED
      BY <1>3, <2>1, <2>3, <3>3, <3>4, LosesToken DEF Harmless, Excused
  <2> QED
    BY <2>4, <2>5, <2>6
<1>8. CASE ConsumerPanics(r)
  <2>1. Idle.admitted = FALSE /\ Idle.tok = 0 /\ Idle.err # "auth"
    BY DEF Idle
  <2>2. Become(r, Idle) /\ load.panics
    BY <1>8 DEF ConsumerPanics, Returns
  <2> QED
    BY <1>3, <2>1, <2>2, LosesToken DEF Harmless, Excused
<1> QED
  BY <1>5, <1>6, <1>7, <1>8 DEF Answers

(* A call between two attempts has no token, and draws none before its gate. *)
LEMMA IdleTokens ==
    ASSUME PoolInv, Explained, NEW r \in Requests, NEW s \in {"rotate", "sleep", "drop", "swap"},
           At(r, s), breaker' = breaker, load' = load, NEW q, Become(r, q),
           q.admitted = FALSE, q.tok = 0, q.err = "auth" => "auth" \in load.failures
    PROVE  Harmless
BY BetweenAttempts, LosesToken DEF Harmless

LEMMA AttemptTokens ==
    ASSUME PoolInv, Explained, NEW r \in Requests, NEW s \in {"rotate", "sleep", "drop", "swap"},
           At(r, s), breaker' = breaker, load' = load, TryAgain(r) \/ BackOff(r)
    PROVE  Harmless
<1>1. /\ req[r] \in CallRecords /\ req[r].admitted = FALSE /\ req[r].tok = 0
      /\ req[r].err = "auth" => "auth" \in load.failures
  <2>1. req[r] \in CallRecords /\ ~req[r].admitted /\ req[r].tok = 0
    BY BetweenAttempts
  <2> QED
    BY <2>1 DEF CallRecords, Explained
<1>2. CASE Returns(r)
  <2>1. Idle.admitted = FALSE /\ Idle.tok = 0 /\ Idle.err # "auth"
    BY DEF Idle
  <2> QED
    BY <1>2, <2>1, IdleTokens DEF Returns
<1>3. CASE NextAttempt(r)
  <2> DEFINE t == OnBreaker("gate") \o <<"acquire">>
             q == [req[r] EXCEPT !.attempt = req[r].attempt + 1, !.todo = t,
                                 !.name = 0, !.err = "none"]
  <2>1. Become(r, q)
    BY <1>3 DEF NextAttempt
  <2> HIDE DEF t
  <2>2. q.admitted = FALSE /\ q.tok = 0 /\ q.err = "none"
    BY <1>1 DEF CallRecords
  <2> HIDE DEF q
  <2> QED
    BY <2>1, <2>2, IdleTokens
<1>4. CASE Become(r, [req[r] EXCEPT !.todo = <<"sleep">>, !.name = 0])
  <2> DEFINE q == [req[r] EXCEPT !.todo = <<"sleep">>, !.name = 0]
  <2>1. Become(r, q)
    BY <1>4
  <2>2. q.admitted = FALSE /\ q.tok = 0 /\ q.err = req[r].err
    BY <1>1 DEF CallRecords
  <2> HIDE DEF q
  <2> QED
    BY <1>1, <2>1, <2>2, IdleTokens
<1> QED
  BY <1>2, <1>3, <1>4 DEF TryAgain, BackOff

LEMMA RotationTokens ==
    ASSUME PoolInv, Explained, NEW r \in Requests,
           Rotate(r) \/ InstallClient(r) \/ RotationFindsClosed(r) \/ DropSwapped(r) \/ WakeUp(r)
    PROVE  Harmless
<1>1. breaker' = breaker /\ load' = load
  BY DEF Rotate, FindsRotated, RotationFails, MakeClient, InstallClient, RotationFindsClosed,
         DropSwapped, WakeUp, handle, surroundings
<1>2. PICK s \in {"rotate", "sleep", "drop", "swap"} : At(r, s)
  BY DEF Rotate, FindsRotated, RotationFails, MakeClient, MayRotate, InstallClient,
         RotationFindsClosed, DropSwapped, WakeUp
<1>3. /\ req[r] \in CallRecords /\ req[r].admitted = FALSE /\ req[r].tok = 0
      /\ req[r].err = "auth" => "auth" \in load.failures
  <2>1. req[r] \in CallRecords /\ ~req[r].admitted /\ req[r].tok = 0
    BY <1>2, BetweenAttempts
  <2> QED
    BY <2>1 DEF CallRecords, Explained
<1>4. CASE FindsRotated(r) \/ RotationFails(r) \/ DropSwapped(r) \/ WakeUp(r)
           \/ RotationFindsClosed(r)
  <2>1. TryAgain(r) \/ BackOff(r)
    BY <1>4 DEF FindsRotated, RotationFails, DropSwapped, WakeUp, RotationFindsClosed,
                TryAgain
  <2> QED
    BY <1>1, <1>2, <2>1, AttemptTokens
<1>5. CASE MakeClient(r)
  <2> DEFINE q == [req[r] EXCEPT !.todo = <<"swap">>, !.name = 0]
  <2>1. Become(r, q)
    BY <1>5 DEF MakeClient
  <2>2. q.admitted = FALSE /\ q.tok = 0 /\ q.err = req[r].err
    BY <1>3 DEF CallRecords
  <2> HIDE DEF q
  <2> QED
    BY <1>1, <1>2, <1>3, <2>1, <2>2, IdleTokens
<1>6. CASE InstallClient(r)
  <2> DEFINE q == [req[r] EXCEPT !.todo = <<"drop">>]
  <2>1. Become(r, q)
    BY <1>6 DEF InstallClient
  <2>2. q.admitted = FALSE /\ q.tok = 0 /\ q.err = req[r].err
    BY <1>3 DEF CallRecords
  <2> HIDE DEF q
  <2> QED
    BY <1>1, <1>2, <1>3, <2>1, <2>2, IdleTokens
<1> QED
  BY <1>4, <1>5, <1>6 DEF Rotate

LEMMA GateTokens ==
    ASSUME PoolInv, Explained, NEW r \in Requests,
           GateAdmits(r) \/ GateRejects(r) \/ FindsClosed(r) \/ Acquire(r)
    PROVE  \/ Harmless
           \/ TokenDrawn(r) /\ Explained'
           \/ breaker' = breaker /\ Explained' /\ TokenForgotten(r) /\ Excused
<1>1. load' = load
  BY DEF GateAdmits, GateRejects, FindsClosed, Acquire, handle, surroundings
<1>2. /\ req[r] \in CallRecords /\ req[r].todo \in {<<"gate", "acquire">>, <<"acquire">>}
      /\ InOrder(req[r]) /\ (At(r, "gate") => req[r].todo = <<"gate", "acquire">>)
  BY AtFacts, PlanFacts DEF GateAdmits, GateRejects, FindsClosed, Acquire
<1>3. req[r].err = "auth" => "auth" \in load.failures
  BY DEF Explained
<1>4. At(r, "gate") => ~req[r].admitted
  <2>1. ASSUME req[r].todo = <<"gate", "acquire">> PROVE ~NeedsToken(req[r])
    BY <2>1, EntryPlans DEF NeedsToken
  <2> QED
    BY <1>2, <2>1 DEF InOrder, AdmittedWhilePlanned
<1>5. Idle.admitted = FALSE /\ Idle.tok = 0 /\ Idle.err # "auth"
  BY DEF Idle
<1>6. CASE GateAdmits(r)
  <2> DEFINE q == [req[r] EXCEPT !.admitted = TRUE, !.tok = ProbeToken(breaker),
                                 !.todo = Tail(req[r].todo)]
  <2>1. Become(r, q)
    BY <1>6 DEF GateAdmits
  <2>2. Tail(req[r].todo) = <<"acquire">>
    BY <1>2, <1>6, ShortSequences DEF GateAdmits
  <2>3. q.admitted = TRUE /\ q.tok = ProbeToken(breaker) /\ q.err = req[r].err
        /\ q.todo = <<"acquire">>
    BY <1>2, <2>2 DEF CallRecords
  <2> HIDE DEF q
  <2>4. <<"acquire">> # <<>>
    OBVIOUS
  <2>5. req'[r] = q /\ \A s \in Requests : s # r => req'[s] = req[s]
    BY <2>1, <2>3, <2>4 DEF Become, PoolInv, Types
  <2>6. Explained'
    BY <1>1, <1>3, <2>3, <2>5 DEF Explained
  <2>7. TokenDrawn(r)
    BY <1>4, <1>6, <2>3, <2>5 DEF TokenDrawn, OthersKeep, GateAdmits
  <2> QED
    BY <2>6, <2>7
<1>7. CASE GateRejects(r)
  BY <1>1, <1>4, <1>5, <1>7, LosesToken DEF GateRejects, Returns, Harmless
<1>8. CASE FindsClosed(r)
  <2>1. breaker' = breaker /\ Excused /\ Become(r, Idle)
    BY <1>8 DEF FindsClosed, Returns, Excused, handle
  <2> QED
    BY <1>1, <1>5, <2>1, LosesToken DEF Harmless
<1>9. CASE Acquire(r)
  <2> DEFINE t == IF req[r].kind = "peek" THEN <<"release">> ELSE <<"call">>
             q == [req[r] EXCEPT !.rc = rc, !.name = activeName, !.todo = t]
  <2>1. Become(r, q) /\ breaker' = breaker
    BY <1>9 DEF Acquire
  <2>2. t # <<>>
    OBVIOUS
  <2> HIDE DEF t
  <2>3. /\ q.admitted = req[r].admitted /\ q.tok = req[r].tok /\ q.err = req[r].err
        /\ q.todo = t
    BY <1>2 DEF CallRecords
  <2> HIDE DEF q
  <2> QED
    BY <1>1, <1>3, <2>1, <2>2, <2>3, KeepsToken DEF Harmless
<1> QED
  BY <1>6, <1>7, <1>8, <1>9

(* A plan that ends with a release or a report to the pool needs no token.   *)
LEMMA LastStepTokens ==
    ASSUME PoolInv, NEW r \in Requests, NEW h \in {"release", "markSuccess", "markFailed"},
           At(r, h), Tail(req[r].todo) = <<>>
    PROVE  ~req[r].admitted
<1>1. /\ InOrder(req[r]) /\ req[r].todo \in Plans /\ req[r].todo # <<>>
      /\ Head(req[r].todo) = h
  BY AtFacts
<1>2. StepsOf(req[r].todo) = {h}
  BY <1>1, PlanFacts, StepsOfShort
<1>3. req[r].todo \notin {<<"acquire">>, <<"call">>, <<"classify">>}
  BY <1>1, ShortSequences
<1> QED
  BY <1>1, <1>2, <1>3
  DEF InOrder, AdmittedWhilePlanned, NeedsToken, Reporting, ReportSteps

LEMMA ReleaseTokens ==
    ASSUME PoolInv, Explained, NEW r \in Requests, Release(r) \/ ReportToPool(r)
    PROVE  Harmless
<1> DEFINE t == Tail(req[r].todo)
<1>1. breaker' = breaker /\ load' = load
  BY DEF Release, ReportToPool, handle, surroundings
<1>2. PICK h \in {"release", "markSuccess", "markFailed"} : At(r, h)
  BY DEF Release, ReportToPool
<1>3. t # <<>> \/ ~req[r].admitted
  BY <1>2, LastStepTokens
<1>4. req[r] \in CallRecords
  BY <1>2, AtFacts
<1>5. req[r].err = "auth" => "auth" \in load.failures
  BY DEF Explained
<1>6. CASE Release(r)
  <2> DEFINE q == [req[r] EXCEPT !.rc = NoClient, !.todo = t]
  <2>1. Become(r, q)
    BY <1>6 DEF Release
  <2> HIDE DEF t
  <2>2. /\ q.admitted = req[r].admitted /\ q.tok = req[r].tok /\ q.err = req[r].err
        /\ q.todo = t
    BY <1>4 DEF CallRecords
  <2> HIDE DEF q
  <2> QED
    BY <1>1, <1>3, <1>5, <2>1, <2>2, KeepsToken DEF Harmless
<1>7. CASE ReportToPool(r)
  <2> DEFINE q == [req[r] EXCEPT !.todo = t]
  <2>1. Become(r, q)
    BY <1>7 DEF ReportToPool, Proceed
  <2> HIDE DEF t
  <2>2. /\ q.admitted = req[r].admitted /\ q.tok = req[r].tok /\ q.err = req[r].err
        /\ q.todo = t
    BY <1>4 DEF CallRecords
  <2> HIDE DEF q
  <2> QED
    BY <1>1, <1>3, <1>5, <2>1, <2>2, KeepsToken DEF Harmless
<1> QED
  BY <1>6, <1>7

LEMMA ClassifyTokens ==
    ASSUME PoolInv, Explained, NEW r \in Requests, Classify(r)
    PROVE  Harmless \/ (breaker' = breaker /\ Explained' /\ TokenForgotten(r) /\ Excused)
<1> DEFINE f == [req[r] EXCEPT !.rc = NoClient]
<1>1. breaker' = breaker /\ load' = load
  BY DEF Classify, handle, surroundings
<1>2. /\ req[r] \in CallRecords /\ InOrder(req[r]) /\ req[r].todo = <<"classify">>
  BY AtFacts, PlanFacts DEF Classify
<1>3. req[r].admitted => HasBreaker
  BY <1>2 DEF InOrder, AdmittedWhilePlanned
<1>4. /\ f \in CallRecords /\ f.admitted = req[r].admitted /\ f.tok = req[r].tok
      /\ f.err = req[r].err
  <2>1. NoClient \in 0 .. NumClients
    BY NumClientsAssumption DEF NoClient
  <2> QED
    BY <1>2, <2>1 DEF CallRecords
<1>5. Become(r, Classified(f))
  BY DEF Classify
<1>6. req[r].err = "auth" => "auth" \in load.failures
  BY DEF Explained
<1> HIDE DEF f
<1>7. CASE f.ctxDone \/ DisableRetries \/ ~(IsRetryable(f.err) \/ IsAuthError(f.err))
  <2> DEFINE t == OnBreaker("releaseProbe")
             q == [f EXCEPT !.todo = t]
  <2>1. Classified(f) = q
    BY <1>7 DEF Classified
  <2>2. HasBreaker => t # <<>>
    BY NoneOrOne
  <2> HIDE DEF t
  <2>3. q.admitted = req[r].admitted /\ q.tok = req[r].tok /\ q.todo = t /\ q.err = req[r].err
    BY <1>4 DEF CallRecords
  <2> HIDE DEF q
  <2> QED
    BY <1>1, <1>3, <1>5, <1>6, <2>1, <2>2, <2>3, KeepsToken DEF Harmless
<1>8. CASE ~f.ctxDone /\ ~DisableRetries /\ ~IsAuthError(f.err) /\ IsRetryable(f.err)
  <2> DEFINE t == OnBreaker("recordFailure") \o <<"markFailed", "rotate">>
             q == [f EXCEPT !.todo = t]
  <2>1. Classified(f) = q
    BY <1>8 DEF Classified
  <2>2. t # <<>>
    BY BreakerBeforeTwo
  <2> HIDE DEF t
  <2>3. q.admitted = req[r].admitted /\ q.tok = req[r].tok /\ q.todo = t /\ q.err = req[r].err
    BY <1>4 DEF CallRecords
  <2> HIDE DEF q
  <2> QED
    BY <1>1, <1>5, <1>6, <2>1, <2>2, <2>3, KeepsToken DEF Harmless
<1>9. CASE ~f.ctxDone /\ ~DisableRetries /\ IsAuthError(f.err)
  <2> DEFINE g == Forget(f)
             q == [g EXCEPT !.todo = <<"markFailed", "rotate">>]
  <2>1. Classified(f) = q
    BY <1>9 DEF Classified
  <2>2. g \in CallRecords /\ g.admitted = FALSE /\ g.tok = 0 /\ g.err = req[r].err
    BY <1>4, ForgetFacts
  <2> HIDE DEF g
  <2>3. q.admitted = FALSE /\ q.tok = 0 /\ q.err = req[r].err
    BY <2>2 DEF CallRecords
  <2> HIDE DEF q
  <2>4. "auth" \in load.failures
    BY <1>4, <1>6, <1>9 DEF IsAuthError
  <2> QED
    BY <1>1, <1>5, <2>1, <2>3, <2>4, LosesToken DEF Harmless, Excused
<1> QED
  BY <1>7, <1>8, <1>9

LEMMA ReportTokens ==
    ASSUME PoolInv, Explained, NEW r \in Requests, ReportToBreaker(r)
    PROVE  TokenReported(r) /\ Explained'
<1> DEFINE f == Forget(req[r])
           t == Tail(req[r].todo)
           q == [f EXCEPT !.todo = t]
<1>1. load' = load
  BY DEF ReportToBreaker, Report, handle, surroundings
<1>2. PICK h \in ReportSteps : At(r, h)
  BY DEF ReportToBreaker, Report, ReportSteps
<1>3. req[r] \in CallRecords /\ req[r].admitted
  BY <1>2, AtFacts, ReportingFacts
<1>4. f \in CallRecords /\ f.admitted = FALSE /\ f.tok = 0 /\ f.err = req[r].err
      /\ f.todo = req[r].todo
  BY <1>3, ForgetFacts
<1>5. Become(r, q)
  <2>1. Become(r, [Forget(req[r]) EXCEPT !.todo = Tail(@)])
    BY DEF ReportToBreaker, Report
  <2> HIDE DEF f
  <2>2. [f EXCEPT !.todo = Tail(@)] = q
    BY <1>4
  <2> QED
    BY <2>1, <2>2 DEF f
<1> HIDE DEF f, t
<1>6. q.admitted = FALSE /\ q.tok = 0 /\ q.err = req[r].err
  BY <1>4 DEF CallRecords
<1> HIDE DEF q
<1>7. req[r].err = "auth" => "auth" \in load.failures
  BY DEF Explained
<1>8. TokenForgotten(r) /\ Explained'
  BY <1>1, <1>3, <1>5, <1>6, <1>7, LosesToken
<1> QED
  BY <1>8 DEF TokenReported, ReportToBreaker, Report

(* Every step draws a token, reports with one, forgets one with an excuse,   *)
(* lets the breaker age, or touches neither; a closed pool stays closed.    *)
LEMMA BreakerMoves ==
    ASSUME PoolInv, Explained, [Next]_vars
    PROVE  /\ Explained'
           /\ rc = NoClient => rc' = NoClient
           /\ \/ Harmless
              \/ \E r \in Requests :
                    \/ TokenDrawn(r)
                    \/ TokenReported(r)
                    \/ breaker' = breaker /\ TokenForgotten(r) /\ Excused
              \/ BreakerAges
<1>1. rc = NoClient => rc' = NoClient
  BY DEF Next, Call, Cancel, Event, Answers, Succeeds, FailsBeforeData, ConsumerBreaks,
     FailsMidStream, Answer, ConsumerPanics, Rotate, FindsRotated, RotationFails, MakeClient,
     Step, GateAdmits, GateRejects, Acquire, FindsClosed, Classify, Release, ReportToPool,
     ReportToBreaker, Report, InstallClient, RotationFindsClosed, DropSwapped, WakeUp,
     Close, CloseReleases, CooldownEnds, BreakerAges, vars, handle
<1>2. CASE BreakerAges
  <2>1. UNCHANGED <<load, req>>
    BY <1>2 DEF BreakerAges, handle, surroundings
  <2> QED
    BY <1>1, <1>2, <2>1 DEF Explained
<1>3. CASE Close \/ CloseReleases \/ UNCHANGED vars \/ \E k \in Keys : CooldownEnds(k)
  <2>1. breaker' = breaker /\ req' = req /\ load' = load
    BY <1>3 DEF Close, CloseReleases, CooldownEnds, vars, handle, surroundings
  <2> QED
    BY <1>1, <2>1 DEF Harmless, TokensKept, Explained
<1>4. ASSUME NEW r \in Requests,
             Call(r) \/ Cancel(r) \/ Event(r) \/ Answers(r) \/ Rotate(r) \/ Step(r)
      PROVE  \/ Harmless
             \/ TokenDrawn(r) /\ Explained'
             \/ TokenReported(r) /\ Explained'
             \/ breaker' = breaker /\ Explained' /\ TokenForgotten(r) /\ Excused
  BY <1>4, EntryTokens, AnswerTokens, RotationTokens, GateTokens, ClassifyTokens,
     ReleaseTokens, ReportTokens
  DEF Step
<1> QED
  BY <1>1, <1>2, <1>3, <1>4 DEF Next, Harmless

------------------------------------------------------------------------------
(* What a failure is charged to. *)

(* An admission whose request failed for a transient reason stays, and is to *)
(* be charged, or the caller's context has ended.                           *)
Owed(r) ==
    ~DisableRetries /\ req[r].admitted /\ (Transient(req[r]) \/ Transient(req'[r])) =>
        req'[r].admitted /\ (Transient(req'[r]) \/ req'[r].ctxDone)

LEMMA StaysOwed ==
    ASSUME NEW r, req'[r].admitted = req[r].admitted, req'[r].err = req[r].err,
           req'[r].ctxDone = req[r].ctxDone
    PROVE  Owed(r)
BY DEF Owed, Transient

LEMMA EntryOwed ==
    ASSUME PoolInv, NEW r \in Requests, Call(r) \/ Cancel(r) \/ Event(r)
    PROVE  Owed(r)
<1>1. CASE Call(r)
  <2>1. req[r].todo = <<>>
    BY <1>1 DEF Call, Running
  <2>2. ~Reporting(<<>>) /\ <<>> \notin {<<"acquire">>, <<"call">>, <<"classify">>}
    BY StepsOfShort DEF Reporting
  <2>3. ~req[r].admitted
    BY <2>1, <2>2 DEF PoolInv, CallsInOrder, AdmittedWhilePlanned, NeedsToken
  <2> QED
    BY <2>3 DEF Owed
<1>2. CASE Cancel(r) \/ Event(r)
  <2>1. req \in [Requests -> CallRecords]
    BY DEF PoolInv, Types
  <2>2. /\ req'[r].admitted = req[r].admitted /\ req'[r].err = req[r].err
        /\ req'[r].ctxDone = req[r].ctxDone \/ req'[r].ctxDone
    BY <1>2, <2>1 DEF Cancel, Event, CallRecords
  <2> QED
    BY <2>2 DEF Owed, Transient
<1> QED
  BY <1>1, <1>2

(* At the gate a call has no token, and before its request no error.        *)
LEMMA GateOwed ==
    ASSUME PoolInv, NEW r \in Requests,
           GateAdmits(r) \/ GateRejects(r) \/ FindsClosed(r) \/ Acquire(r)
    PROVE  Owed(r) /\ req[r].err = "none"
<1>1. /\ req[r] \in CallRecords /\ req[r].todo \in {<<"gate", "acquire">>, <<"acquire">>}
      /\ InOrder(req[r]) /\ (At(r, "gate") => req[r].todo = <<"gate", "acquire">>)
  BY AtFacts, PlanFacts DEF GateAdmits, GateRejects, FindsClosed, Acquire
<1>2. req[r].err = "none"
  BY <1>1, EntryPlans DEF InOrder, FitsItsCause, FailureSteps
<1>3. At(r, "gate") => ~req[r].admitted
  <2>1. ASSUME req[r].todo = <<"gate", "acquire">> PROVE ~NeedsToken(req[r])
    BY <2>1, EntryPlans DEF NeedsToken
  <2> QED
    BY <1>1, <2>1 DEF InOrder, AdmittedWhilePlanned
<1>4. CASE GateAdmits(r) \/ GateRejects(r)
  BY <1>2, <1>3, <1>4 DEF GateAdmits, GateRejects, Owed
<1>5. req \in [Requests -> CallRecords] /\ Idle.err = "none"
  BY DEF PoolInv, Types, Idle
<1>6. CASE FindsClosed(r) \/ Acquire(r)
  <2> DEFINE t == IF req[r].kind = "peek" THEN <<"release">> ELSE <<"call">>
             q == [req[r] EXCEPT !.rc = rc, !.name = activeName, !.todo = t]
  <2>1. Become(r, Idle) \/ Become(r, q)
    BY <1>6 DEF FindsClosed, Acquire, Returns
  <2> HIDE DEF t
  <2>2. q.err = "none"
    BY <1>1, <1>2 DEF CallRecords
  <2> HIDE DEF q
  <2>3. req'[r].err = "none"
    BY <1>5, <2>1, <2>2 DEF Become
  <2> QED
    BY <1>2, <2>3 DEF Owed, Transient
<1> QED
  BY <1>2, <1>4, <1>6

LEMMA AnswerOwed ==
    ASSUME PoolInv, NEW r \in Requests, Answers(r)
    PROVE  Owed(r)
<1>1. At(r, "call")
  BY DEF Answers, Succeeds, FailsBeforeData, ConsumerBreaks, FailsMidStream, Answer,
         ConsumerPanics
<1>2. /\ req[r] \in CallRecords /\ req[r].err = "none"
      /\ req \in [Requests -> CallRecords]
  BY <1>1, CallingFacts DEF PoolInv, Types
<1>3. Idle.err = "none"
  BY DEF Idle
<1>4. ASSUME NEW t, NEW kinds, Answer(r, kinds, [req[r] EXCEPT !.todo = t])
      PROVE  Owed(r)
  <2>1. req'[r].err = "none"
    BY <1>2, <1>3, <1>4 DEF Answer, Become, CallRecords
  <2> QED
    BY <1>2, <2>1 DEF Owed, Transient
<1>5. CASE Succeeds(r) \/ ConsumerBreaks(r)
  BY <1>4, <1>5 DEF Succeeds, ConsumerBreaks
<1>6. CASE ConsumerPanics(r)
  <2>1. req'[r] = Idle
    BY <1>2, <1>6 DEF ConsumerPanics, Returns, Become
  <2> QED
    BY <1>2, <1>3, <2>1 DEF Owed, Transient
<1>7. CASE FailsBeforeData(r)
  <2> PICK e \in Errors(r) :
       Answer(r, {"complete", "stream"}, [req[r] EXCEPT !.err = e, !.todo = <<"classify">>])
    BY <1>7 DEF FailsBeforeData
  <2> DEFINE q == [[req[r] EXCEPT !.err = e, !.todo = <<"classify">>] EXCEPT !.started = FALSE]
  <2>1. q.admitted = req[r].admitted /\ q.todo = <<"classify">>
    BY <1>2 DEF CallRecords
  <2>2. Become(r, q)
    BY DEF Answer
  <2> HIDE DEF q
  <2>3. req'[r] = q
    BY <1>2, <2>1, <2>2 DEF Become
  <2> QED
    BY <1>2, <2>1, <2>3 DEF Owed, Transient
<1>8. CASE FailsMidStream(r)
  <2> PICK e \in Errors(r) : Answer(r, {"stream"}, PassedOn([req[r] EXCEPT !.err = e]))
    BY <1>8 DEF FailsMidStream
  <2> DEFINE f == [req[r] EXCEPT !.err = e]
             q == [PassedOn(f) EXCEPT !.started = FALSE]
  <2>1. Become(r, q)
    BY DEF Answer
  <2>2. f \in CallRecords /\ f.admitted = req[r].admitted /\ f.err = e
    BY <1>1, <1>2, ErrorsFacts DEF CallRecords
  <2> HIDE DEF f
  <2>3. SUFFICES q.todo # <<>> /\ (Transient(q) => q.admitted = req[r].admitted)
    BY <1>2, <2>1 DEF Owed, Transient, Become
  <2>4. CASE f.ctxDone \/ ~(IsRetryable(f.err) \/ IsAuthError(f.err))
    <3> DEFINE t == OnBreaker("releaseProbe") \o <<"release">>
    <3>1. q = [[f EXCEPT !.todo = t] EXCEPT !.started = FALSE] /\ t # <<>>
      BY <2>4, AnswerPlans DEF PassedOn
    <3> HIDE DEF t
    <3>2. q.todo = t /\ q.err = f.err /\ q.ctxDone = f.ctxDone
      BY <2>2, <3>1 DEF CallRecords
    <3> HIDE DEF q
    <3> QED
      BY <2>4, <3>1, <3>2 DEF Transient, IsRetryable
  <2>5. CASE ~f.ctxDone /\ ~IsAuthError(f.err) /\ IsRetryable(f.err)
    <3> DEFINE t == <<"markFailed">> \o OnBreaker("recordFailure") \o <<"release">>
    <3>1. q = [[f EXCEPT !.todo = t] EXCEPT !.started = FALSE] /\ t # <<>>
      BY <2>5, AnswerPlans DEF PassedOn
    <3> HIDE DEF t
    <3>2. q.todo = t /\ q.admitted = req[r].admitted
      BY <2>2, <3>1 DEF CallRecords
    <3> QED
      BY <3>1, <3>2
  <2>6. CASE ~f.ctxDone /\ IsAuthError(f.err)
    <3> DEFINE g == Forget(f)
    <3>1. q = [[g EXCEPT !.todo = <<"markFailed", "release">>] EXCEPT !.started = FALSE]
      BY <2>6 DEF PassedOn
    <3>2. g \in CallRecords /\ g.err = f.err
      BY <2>2, ForgetFacts
    <3> HIDE DEF g
    <3>3. q.todo = <<"markFailed", "release">> /\ q.err = "auth"
      BY <2>6, <3>1, <3>2 DEF CallRecords, IsAuthError
    <3> HIDE DEF q
    <3> QED
      BY <3>3 DEF Transient
  <2> QED
    BY <2>4, <2>5, <2>6
<1> QED
  BY <1>5, <1>6, <1>7, <1>8 DEF Answers

LEMMA ClassifyOwed ==
    ASSUME PoolInv, NEW r \in Requests, Classify(r)
    PROVE  Owed(r)
<1> DEFINE f == [req[r] EXCEPT !.rc = NoClient]
<1>1. req \in [Requests -> CallRecords] /\ Idle.err = "none"
  BY DEF PoolInv, Types, Idle
<1>2. /\ f.admitted = req[r].admitted /\ f.err = req[r].err /\ f.ctxDone = req[r].ctxDone
      /\ f \in CallRecords
  <2>1. NoClient \in 0 .. NumClients
    BY NumClientsAssumption DEF NoClient
  <2> QED
    BY <1>1, <2>1 DEF CallRecords
<1>3. Become(r, Classified(f))
  BY DEF Classify
<1> HIDE DEF f
<1>4. CASE f.ctxDone \/ DisableRetries \/ ~(IsRetryable(f.err) \/ IsAuthError(f.err))
  <2> DEFINE t == OnBreaker("releaseProbe")
             q == [f EXCEPT !.todo = t]
  <2>1. Classified(f) = q
    BY <1>4 DEF Classified
  <2> HIDE DEF t
  <2>2. q.err = f.err /\ q.ctxDone = f.ctxDone
    BY <1>2 DEF CallRecords
  <2> HIDE DEF q
  <2>3. req'[r] = Idle \/ req'[r] = q
    BY <1>1, <1>3, <2>1 DEF Become
  <2> QED
    BY <1>1, <1>2, <1>4, <2>2, <2>3 DEF Owed, Transient, IsRetryable
<1>5. CASE ~f.ctxDone /\ ~DisableRetries /\ ~IsAuthError(f.err) /\ IsRetryable(f.err)
  <2> DEFINE t == OnBreaker("recordFailure") \o <<"markFailed", "rotate">>
             q == [f EXCEPT !.todo = t]
  <2>1. Classified(f) = q
    BY <1>5 DEF Classified
  <2>2. t # <<>>
    BY BreakerBeforeTwo
  <2> HIDE DEF t
  <2>3. q.admitted = f.admitted /\ q.err = f.err /\ q.ctxDone = f.ctxDone /\ q.todo = t
    BY <1>2 DEF CallRecords
  <2> HIDE DEF q
  <2>4. req'[r] = q
    BY <1>1, <1>3, <2>1, <2>2, <2>3 DEF Become
  <2> QED
    BY <1>2, <2>3, <2>4, StaysOwed
<1>6. CASE ~f.ctxDone /\ ~DisableRetries /\ IsAuthError(f.err)
  <2> DEFINE g == Forget(f)
             q == [g EXCEPT !.todo = <<"markFailed", "rotate">>]
  <2>1. Classified(f) = q
    BY <1>6 DEF Classified
  <2>2. g \in CallRecords /\ g.err = f.err
    BY <1>2, ForgetFacts
  <2> HIDE DEF g
  <2>3. q.err = f.err
    BY <2>2 DEF CallRecords
  <2> HIDE DEF q
  <2>4. req'[r] = Idle \/ req'[r] = q
    BY <1>1, <1>3, <2>1 DEF Become
  <2> QED
    BY <1>1, <1>2, <1>6, <2>3, <2>4 DEF Owed, Transient, IsAuthError
<1> QED
  BY <1>4, <1>5, <1>6

LEMMA ReleaseOwed ==
    ASSUME PoolInv, NEW r \in Requests, Release(r) \/ ReportToPool(r)
    PROVE  Owed(r)
<1> DEFINE t == Tail(req[r].todo)
<1>1. PICK h \in {"release", "markSuccess", "markFailed"} : At(r, h)
  BY DEF Release, ReportToPool
<1>2. t # <<>> \/ ~req[r].admitted
  BY <1>1, LastStepTokens
<1>3. req \in [Requests -> CallRecords]
  BY DEF PoolInv, Types
<1>4. CASE t = <<>>
  BY <1>2, <1>4 DEF Owed
<1>5. CASE t # <<>> /\ Release(r)
  <2> DEFINE q == [req[r] EXCEPT !.rc = NoClient, !.todo = t]
  <2>1. Become(r, q)
    BY <1>5 DEF Release
  <2> HIDE DEF t
  <2>2. /\ q.admitted = req[r].admitted /\ q.err = req[r].err
        /\ q.ctxDone = req[r].ctxDone /\ q.todo = t
    BY <1>3 DEF CallRecords
  <2> HIDE DEF q
  <2>3. req'[r] = q
    BY <1>3, <1>5, <2>1, <2>2 DEF Become
  <2> QED
    BY <2>2, <2>3, StaysOwed
<1>6. CASE t # <<>> /\ ReportToPool(r)
  <2> DEFINE q == [req[r] EXCEPT !.todo = t]
  <2>1. Become(r, q)
    BY <1>6 DEF ReportToPool, Proceed
  <2> HIDE DEF t
  <2>2. /\ q.admitted = req[r].admitted /\ q.err = req[r].err
        /\ q.ctxDone = req[r].ctxDone /\ q.todo = t
    BY <1>3 DEF CallRecords
  <2> HIDE DEF q
  <2>3. req'[r] = q
    BY <1>3, <1>6, <2>1, <2>2 DEF Become
  <2> QED
    BY <2>2, <2>3, StaysOwed
<1> QED
  BY <1>4, <1>5, <1>6

(* A call that blames its key, rotates or has rotated has not met an error   *)
(* of its own context.                                                      *)
LEMMA KeyStepsFacts ==
    ASSUME PoolInv, NEW r \in Requests, NEW h \in KeySteps \union {"markSuccess"}, At(r, h)
    PROVE  req[r].err = "none" \/ ~req[r].ctxDone
<1>1. InOrder(req[r]) /\ h \in StepsOf(req[r].todo)
  BY AtFacts, PlanFacts
<1> QED
  BY <1>1 DEF InOrder, FitsItsCause, FailureSteps, KeySteps

(* A step of the call that leaves the breaker, the keys and rotateMu alone. *)
LEMMA QuietVerdict ==
    ASSUME PoolInv, NEW r \in Requests, Owed(r), UNCHANGED <<breaker, pool, rotator>>
    PROVE  VerdictFits(r)
<1>1. rotator = r => req[r].err = "none" \/ ~req[r].ctxDone
  <2> SUFFICES ASSUME rotator = r PROVE req[r].err = "none" \/ ~req[r].ctxDone
    OBVIOUS
  <2>1. req[r].todo \in {<<"swap">>, <<"drop">>} /\ InOrder(req[r])
    BY RequestsAssumption DEF PoolInv, RotatesAlone, CallsInOrder, InOrder
  <2>2. StepsOf(<<"swap">>) = {"swap"} /\ StepsOf(<<"drop">>) = {"drop"}
    BY StepsOfShort
  <2> QED
    BY <2>1, <2>2 DEF InOrder, FitsItsCause, KeySteps
<1> QED
  BY <1>1 DEF VerdictFits, Owed

LEMMA RotationVerdict ==
    ASSUME PoolInv, NEW r \in Requests,
           Rotate(r) \/ InstallClient(r) \/ RotationFindsClosed(r) \/ DropSwapped(r) \/ WakeUp(r)
    PROVE  VerdictFits(r)
<1>1. breaker' = breaker
  BY DEF Rotate, FindsRotated, RotationFails, MakeClient, InstallClient, RotationFindsClosed,
         DropSwapped, WakeUp
<1>2. PICK s \in {"rotate", "sleep", "drop", "swap"} : At(r, s)
  BY DEF Rotate, FindsRotated, RotationFails, MakeClient, MayRotate, InstallClient,
         RotationFindsClosed, DropSwapped, WakeUp
<1>3. Owed(r)
  BY <1>2, BetweenAttempts DEF Owed
<1>4. CASE WakeUp(r)
  BY <1>3, <1>4, QuietVerdict DEF WakeUp, rotation
<1>5. CASE ~WakeUp(r)
  <2>1. PICK h \in KeySteps : At(r, h)
    BY <1>5 DEF Rotate, FindsRotated, RotationFails, MakeClient, MayRotate, InstallClient,
                RotationFindsClosed, DropSwapped, KeySteps
  <2>2. req[r].err = "none" \/ ~req[r].ctxDone
    BY <2>1, KeyStepsFacts
  <2> QED
    BY <1>1, <1>3, <2>2 DEF VerdictFits, Owed
<1> QED
  BY <1>4, <1>5

LEMMA ReportVerdict ==
    ASSUME PoolInv, NEW r \in Requests, ReportToBreaker(r)
    PROVE  VerdictFits(r)
<1> DEFINE f == Forget(req[r])
           q == [f EXCEPT !.todo = Tail(f.todo)]
<1>1. PICK h \in ReportSteps : At(r, h)
  BY DEF ReportToBreaker, Report, ReportSteps
<1>2. /\ req[r] \in CallRecords /\ InOrder(req[r]) /\ h \in StepsOf(req[r].todo)
      /\ Head(req[r].todo) = h
  BY <1>1, AtFacts, PlanFacts
<1>3. \/ h = "recordSuccess" /\ breaker' = RecordSuccess(breaker, req[r].tok)
      \/ h = "recordFailure" /\ breaker' = RecordFailure(breaker, req[r].tok)
      \/ h = "releaseProbe" /\ breaker' = ReleaseProbe(breaker, req[r].tok)
  BY <1>1, <1>2 DEF ReportToBreaker, Report, At
<1>4. /\ req[r].err # "none" => h # "recordSuccess"
      /\ req[r].err # "none" /\ ~Transient(req[r]) => h # "recordFailure"
      /\ ~DisableRetries /\ Transient(req[r]) => h # "releaseProbe"
  BY <1>2 DEF InOrder, FitsItsCause, FailureSteps
<1>5. f \in CallRecords /\ f.err = req[r].err /\ f.ctxDone = req[r].ctxDone
  BY <1>2, ForgetFacts
<1>6. Become(r, q)
  <2>1. Become(r, [Forget(req[r]) EXCEPT !.todo = Tail(@)])
    BY DEF ReportToBreaker, Report
  <2> QED
    BY <2>1
<1> HIDE DEF f
<1>7. q.err = req[r].err /\ q.ctxDone = req[r].ctxDone
  BY <1>5 DEF CallRecords
<1> HIDE DEF q
<1>8. Transient(req'[r]) => Transient(req[r])
  <2>1. req \in [Requests -> CallRecords] /\ Idle.err = "none"
    BY DEF PoolInv, Types, Idle
  <2>2. req'[r] = Idle \/ req'[r] = q
    BY <1>6, <2>1 DEF Become
  <2> QED
    BY <1>7, <2>1, <2>2 DEF Transient
<1>9. ~DisableRetries /\ Transient(req[r]) => breaker' = RecordFailure(breaker, req[r].tok)
  BY <1>3, <1>4 DEF Transient
<1>10. req[r].err # "none" /\ ~Transient(req[r]) =>
          breaker' = ReleaseProbe(breaker, req[r].tok)
  BY <1>3, <1>4
<1>11. pool' = pool /\ (rotator' = r => rotator = r)
  BY DEF ReportToBreaker, Report, rotation
<1>12. rotator # r
  <2>1. req[r].todo \notin {<<"swap">>, <<"drop">>}
    BY <1>2, ShortSequences DEF ReportSteps
  <2> QED
    BY <2>1, RequestsAssumption DEF PoolInv, RotatesAlone
<1> QED
  BY <1>8, <1>9, <1>10, <1>11, <1>12 DEF VerdictFits

LEMMA OwnVerdict ==
    ASSUME PoolInv, NEW r \in Requests,
           Call(r) \/ Cancel(r) \/ Event(r) \/ Answers(r) \/ Rotate(r) \/ Step(r)
    PROVE  VerdictFits(r)
<1>1. CASE Call(r) \/ Cancel(r) \/ Event(r)
  <2>1. UNCHANGED <<breaker, pool, rotator>>
    BY <1>1 DEF Call, Cancel, Event, rotation
  <2> QED
    BY <1>1, <2>1, EntryOwed, QuietVerdict
<1>2. CASE Answers(r)
  <2>1. UNCHANGED <<breaker, pool, rotator>>
    BY <1>2 DEF Answers, Succeeds, FailsBeforeData, ConsumerBreaks, FailsMidStream, Answer,
                ConsumerPanics, rotation
  <2> QED
    BY <1>2, <2>1, AnswerOwed, QuietVerdict
<1>3. CASE GateAdmits(r) \/ GateRejects(r) \/ FindsClosed(r) \/ Acquire(r)
  BY <1>3, GateOwed DEF VerdictFits, Owed
<1>4. CASE Classify(r)
  <2>1. UNCHANGED <<breaker, pool, rotator>>
    BY <1>4 DEF Classify, rotation
  <2> QED
    BY <1>4, <2>1, ClassifyOwed, QuietVerdict
<1>5. CASE Release(r)
  <2>1. UNCHANGED <<breaker, pool, rotator>>
    BY <1>5 DEF Release, rotation
  <2> QED
    BY <1>5, <2>1, ReleaseOwed, QuietVerdict
<1>6. CASE ReportToPool(r)
  <2>1. breaker' = breaker
    BY <1>6 DEF ReportToPool
  <2>2. PICK h \in KeySteps \union {"markSuccess"} : At(r, h)
    BY <1>6 DEF ReportToPool, KeySteps
  <2>3. req[r].err = "none" \/ ~req[r].ctxDone
    BY <2>2, KeyStepsFacts
  <2> QED
    BY <1>6, <2>1, <2>3, ReleaseOwed DEF VerdictFits, Owed
<1> QED
  BY <1>1, <1>2, <1>3, <1>4, <1>5, <1>6, RotationVerdict, ReportVerdict DEF Step

(* A step of another call, or of none, leaves the record as it is.          *)
LEMMA UnmovedVerdict ==
    ASSUME NEW r \in Requests, req'[r] = req[r]
    PROVE  VerdictFits(r)
BY DEF VerdictFits, Transient

LEMMA MovesAlone ==
    ASSUME PoolInv, NEW s \in Requests, NEW r \in Requests, r # s,
           Call(s) \/ Cancel(s) \/ Event(s) \/ Answers(s) \/ Rotate(s) \/ Step(s)
    PROVE  req'[r] = req[r]
<1>1. req \in [Requests -> CallRecords]
  BY DEF PoolInv, Types
<1>2. CASE \E q : Become(s, q)
  BY <1>1, <1>2 DEF Become
<1>3. CASE Cancel(s) \/ Event(s)
  BY <1>1, <1>3 DEF Cancel, Event
<1>4. Call(s) \/ Answers(s) => \E q : Become(s, q)
  BY DEF Call, Answers, Succeeds, FailsBeforeData, ConsumerBreaks, FailsMidStream, Answer,
         ConsumerPanics, Returns
<1>5. Rotate(s) => \E q : Become(s, q)
  BY DEF Rotate, FindsRotated, RotationFails, MakeClient, TryAgain, BackOff, NextAttempt,
         Returns
<1>6. Step(s) => \E q : Become(s, q)
  BY DEF Step, GateAdmits, GateRejects, Acquire, FindsClosed, Classify, Release,
         ReportToPool, Proceed, ReportToBreaker, Report, InstallClient, RotationFindsClosed,
         DropSwapped, WakeUp, TryAgain, NextAttempt, Returns
<1> QED
  BY <1>2, <1>3, <1>4, <1>5, <1>6

(* A transient failure's admission ends in a recorded failure, unless the     *)
(* caller's context ended first; any other failure at most re-arms the       *)
(* call's own probe, and one met with a dead context costs no key anything. *)
THEOREM VerdictsFit == Spec => VerdictsFitTheirCause
<1>1. PoolInv /\ [Next]_vars => [\A r \in Requests : VerdictFits(r)]_vars
  <2> SUFFICES ASSUME PoolInv, Next, NEW r \in Requests
               PROVE  VerdictFits(r)
    OBVIOUS
  <2>1. ASSUME NEW s \in Requests,
               Call(s) \/ Cancel(s) \/ Event(s) \/ Answers(s) \/ Rotate(s) \/ Step(s)
        PROVE  VerdictFits(r)
    BY <2>1, OwnVerdict, MovesAlone, UnmovedVerdict
  <2>2. CASE Close \/ CloseReleases \/ (\E k \in Keys : CooldownEnds(k)) \/ BreakerAges
    <3>1. req' = req
      BY <2>2 DEF Close, CloseReleases, CooldownEnds, BreakerAges
    <3> QED
      BY <3>1, UnmovedVerdict
  <2> QED
    BY <2>1, <2>2 DEF Next
<1> QED
  BY <1>1, PoolInvariant, PTL DEF Spec, VerdictsFitTheirCause

------------------------------------------------------------------------------
(* The probe. *)

(* The generation of a half-open circuit is never the reserved 0. *)
Generated == breaker.state = "halfopen" => breaker.probeGen # 0

(* What a report does to a probe that is in flight and not re-armed.         *)
InFlight(b) == b.state = "halfopen" /\ b.probeStarted = "recent"

LEMMA ReportEndsProbe ==
    ASSUME NEW b \in Breakers, NEW tok \in Tokens, b.state = "halfopen" => b.probeGen # 0,
           NEW a \in {RecordSuccess(b, tok), RecordFailure(b, tok), ReleaseProbe(b, tok)}
    PROVE  /\ a \in Breakers /\ a.probeGen = b.probeGen
           /\ a.state = "halfopen" => b.state = "halfopen"
           /\ InFlight(a) => InFlight(b) /\ tok # b.probeGen
<1>1. CASE a = RecordSuccess(b, tok)
  <2>1. /\ a \in Breakers /\ a.probeGen = b.probeGen /\ a.probeStarted = b.probeStarted
        /\ a.state = "halfopen" => b.state = "halfopen"
    BY <1>1, SuccessFacts
  <2>2. b.state = "halfopen" /\ tok = b.probeGen => a.state = "closed"
    BY <1>1 DEF RecordSuccess, Ignores, Breakers
  <2> QED
    BY <2>1, <2>2 DEF InFlight
<1>2. CASE a = RecordFailure(b, tok)
  <2>1. /\ a \in Breakers /\ a.probeGen = b.probeGen /\ a.probeStarted = b.probeStarted
        /\ a.state = "halfopen" => b.state = "halfopen"
    BY <1>2, FailureFacts
  <2>2. b.state = "halfopen" /\ tok = b.probeGen => a.state = "open"
    BY <1>2 DEF RecordFailure, Ignores, FailureOpens, Breakers
  <2> QED
    BY <2>1, <2>2 DEF InFlight
<1>3. CASE a = ReleaseProbe(b, tok)
  <2>1. /\ a \in Breakers /\ a.probeGen = b.probeGen /\ a.state = b.state
        /\ a.probeStarted = b.probeStarted \/ a.probeStarted = "zero"
    BY <1>3, ReleaseFacts
  <2>2. b.state = "halfopen" /\ tok = b.probeGen => a.probeStarted = "zero"
    BY <1>3 DEF ReleaseProbe, Breakers
  <2> QED
    BY <2>1, <2>2 DEF InFlight
<1> QED
  BY <1>1, <1>2, <1>3

LEMMA GenerationKept ==
    ASSUME PoolInv, Explained, Generated, [Next]_vars
    PROVE  Generated'
<1>1. breaker \in Breakers
  BY DEF PoolInv, Types
<1>2. CASE breaker' = breaker
  BY <1>2 DEF Generated
<1>3. CASE BreakerAges
  BY <1>1, <1>3 DEF BreakerAges, Generated, Breakers
<1>4. ASSUME NEW r \in Requests, TokenDrawn(r) PROVE Generated'
  <2>1. breaker.probeGen \in 0 .. AnyProbe
    BY <1>1, AnyProbeAssumption DEF Breakers
  <2>2. BumpProbeGen(breaker.probeGen) # 0
    BY <2>1, BumpAvoidsReserved, AnyProbeAssumption
  <2> QED
    BY <1>1, <1>4, <2>2, AllowFacts DEF TokenDrawn, Generated
<1>5. ASSUME NEW r \in Requests, TokenReported(r) PROVE Generated'
  <2>1. req[r].tok \in Tokens
    BY DEF PoolInv, Types, CallRecords
  <2> QED
    BY <1>1, <1>5, <2>1, ReportEndsProbe DEF TokenReported, Generated
<1> QED
  BY <1>2, <1>3, <1>4, <1>5, BreakerMoves DEF Harmless

LEMMA BreakerInit == Init => Explained /\ Generated /\ ProbeNotStranded
BY DEF Init, Explained, Generated, ProbeNotStranded, Idle, NewCircuitBreaker

LEMMA ProbeKeepsHolder ==
    ASSUME \A w \in Workloads : ~w.panics /\ "auth" \notin w.failures,
           PoolInv, Explained, Generated, ProbeNotStranded, [Next]_vars
    PROVE  ProbeNotStranded'
<1> SUFFICES ASSUME rc' # NoClient, InFlight(breaker')
             PROVE  \E r \in Requests : req'[r].admitted /\ req'[r].tok = breaker'.probeGen
  BY DEF ProbeNotStranded, InFlight
<1>1. breaker \in Breakers /\ rc # NoClient /\ ~Excused
  BY BreakerMoves DEF PoolInv, Types, Excused
<1>2. ASSUME InFlight(breaker)
      PROVE  \E c \in Requests : req[c].admitted /\ req[c].tok = breaker.probeGen
  BY <1>1, <1>2 DEF ProbeNotStranded, InFlight
<1>3. CASE Harmless
  BY <1>2, <1>3 DEF Harmless, TokensKept
<1>4. CASE BreakerAges
  <2>1. req' = req
    BY <1>4 DEF BreakerAges
  <2>2. InFlight(breaker) /\ breaker'.probeGen = breaker.probeGen
    BY <1>1, <1>4 DEF BreakerAges, InFlight, Breakers, Age
  <2> QED
    BY <1>2, <2>1, <2>2
<1>5. ASSUME NEW r \in Requests, TokenDrawn(r)
      PROVE  \E c \in Requests : req'[c].admitted /\ req'[c].tok = breaker'.probeGen
  <2>1. Admits(breaker) /\ breaker' = Allow(breaker)
    BY <1>5 DEF TokenDrawn
  <2>2. CASE AdmitsProbe(breaker)
    <3>1. ProbeToken(breaker) = breaker'.probeGen
      BY <1>1, <2>1, <2>2, AllowFacts
    <3> QED
      BY <1>5, <3>1 DEF TokenDrawn
  <2>3. CASE ~AdmitsProbe(breaker)
    <3>1. breaker' = breaker
      BY <1>1, <2>1, <2>3, AllowFacts
    <3>2. PICK c \in Requests : req[c].admitted /\ req[c].tok = breaker.probeGen
      BY <1>2, <3>1
    <3> QED
      BY <1>5, <3>1, <3>2 DEF TokenDrawn, OthersKeep
  <2> QED
    BY <2>2, <2>3
<1>6. ASSUME NEW r \in Requests, TokenReported(r)
      PROVE  \E c \in Requests : req'[c].admitted /\ req'[c].tok = breaker'.probeGen
  <2>1. req[r].tok \in Tokens
    BY DEF PoolInv, Types, CallRecords
  <2>2. /\ breaker'.probeGen = breaker.probeGen /\ InFlight(breaker)
        /\ req[r].tok # breaker.probeGen
    BY <1>1, <1>6, <2>1, ReportEndsProbe DEF TokenReported, Generated
  <2>3. PICK c \in Requests : req[c].admitted /\ req[c].tok = breaker.probeGen
    BY <1>2, <2>2
  <2> QED
    BY <1>6, <2>2, <2>3 DEF TokenReported, TokenForgotten, OthersKeep
<1> QED
  BY <1>1, <1>3, <1>4, <1>5, <1>6, BreakerMoves

(* Without authentication failures and panicking consumers, an open pool     *)
(* never strands the probe of a half-open circuit: on every way out of       *)
(* Complete and Stream its holder reports, or has its probe released.       *)
THEOREM NoProbeStranded ==
    ASSUME \A w \in Workloads : ~w.panics /\ "auth" \notin w.failures
    PROVE  Spec => []ProbeNotStranded
<1>1. Init => Explained /\ Generated /\ ProbeNotStranded
  BY BreakerInit
<1>2. PoolInv /\ Explained /\ Generated /\ ProbeNotStranded /\ [Next]_vars
        => Explained' /\ Generated' /\ ProbeNotStranded'
  BY BreakerMoves, GenerationKept, ProbeKeepsHolder
<1> QED
  BY <1>1, <1>2, PoolInvariant, PTL DEF Spec

------------------------------------------------------------------------------
(* The pool drives the breaker as CircuitBreaker describes. *)

LEMMA SameBreaker ==
    /\ CB!NewCircuitBreaker = NewCircuitBreaker
    /\ \A b : CB!Admits(b) <=> Admits(b)
    /\ \A b : CB!Allow(b) = Allow(b) /\ CB!ProbeToken(b) = ProbeToken(b)
    /\ \A g : CB!BumpProbeGen(g) = BumpProbeGen(g)
    /\ \A b, t : /\ CB!RecordSuccess(b, t) = RecordSuccess(b, t)
                 /\ CB!RecordFailure(b, t) = RecordFailure(b, t)
                 /\ CB!ReleaseProbe(b, t) = ReleaseProbe(b, t)
    /\ \A s : CB!Age(s) = Age(s)
BY DEF CB!NewCircuitBreaker, NewCircuitBreaker, CB!Admits, Admits, CB!AdmitsProbe, AdmitsProbe,
   CB!CooldownElapsed, CooldownElapsed, CB!Allow, Allow, CB!ProbeToken, ProbeToken,
   CB!BumpProbeGen, BumpProbeGen, CB!RecordSuccess, RecordSuccess, CB!Ignores, Ignores,
   CB!RecordFailure, RecordFailure, CB!CountFailure, CountFailure, CB!FailureOpens,
   FailureOpens, CB!ReleaseProbe, ReleaseProbe, CB!Age, Age

Admitted == {r \in Requests : req[r].admitted}
TokenOf == [r \in Requests |-> req[r].tok]

LEMMA DrawnDrives ==
    ASSUME PoolInv, NEW r \in Requests, TokenDrawn(r)
    PROVE  CB!Admit(r)
<1>1. r \notin Admitted /\ Admitted' = Admitted \union {r}
  BY DEF TokenDrawn, OthersKeep, Admitted
<1>2. TokenOf' = [TokenOf EXCEPT ![r] = ProbeToken(breaker)]
  BY DEF TokenDrawn, OthersKeep, TokenOf
<1>3. \A c \in Admitted : TokenOf[c] # BumpProbeGen(breaker.probeGen)
  BY DEF TokenDrawn, NoLap, Admitted, TokenOf
<1>4. Admits(breaker) /\ breaker' = Allow(breaker)
  BY DEF TokenDrawn
<1> QED
  BY <1>1, <1>2, <1>3, <1>4, SameBreaker DEF CB!Admit, CB!NoLap, Admitted, TokenOf

LEMMA ForgottenDrives ==
    ASSUME PoolInv, NEW r \in Requests, TokenForgotten(r)
    PROVE  CB!Return(r)
<1>1. r \in Admitted /\ Admitted' = Admitted \ {r}
  BY DEF TokenForgotten, OthersKeep, Admitted
<1>2. TokenOf' = [TokenOf EXCEPT ![r] = 0]
  BY DEF TokenForgotten, OthersKeep, TokenOf
<1> QED
  BY <1>1, <1>2 DEF CB!Return, Admitted, TokenOf

LEMMA ReportedDrives ==
    ASSUME PoolInv, NEW r \in Requests, TokenReported(r)
    PROVE  CB!Succeed(r) \/ CB!Fail(r) \/ CB!Release(r)
<1>1. CB!Return(r)
  BY ForgottenDrives DEF TokenReported
<1>2. TokenOf[r] = req[r].tok
  BY DEF TokenOf
<1>3. breaker' \in {RecordSuccess(breaker, TokenOf[r]), RecordFailure(breaker, TokenOf[r]),
                    ReleaseProbe(breaker, TokenOf[r])}
  BY <1>2 DEF TokenReported
<1> QED
  BY <1>1, <1>3, SameBreaker DEF CB!Succeed, CB!Fail, CB!Release, TokenOf

LEMMA DrivesStep ==
    ASSUME PoolInv, Explained, [Next]_vars
    PROVE  [CB!Next]_(CB!vars)
<1>1. CASE Harmless
  <2>1. Admitted' = Admitted /\ TokenOf' = TokenOf /\ breaker' = breaker
    BY <1>1 DEF Harmless, TokensKept, Admitted, TokenOf
  <2> QED
    BY <2>1 DEF CB!vars, Admitted, TokenOf
<1>2. ASSUME NEW r \in Requests, TokenDrawn(r) PROVE CB!Next
  BY <1>2, DrawnDrives DEF CB!Next
<1>3. ASSUME NEW r \in Requests, TokenReported(r) PROVE CB!Next
  BY <1>3, ReportedDrives DEF CB!Next
<1>4. ASSUME NEW r \in Requests, breaker' = breaker, TokenForgotten(r) PROVE CB!Next
  BY <1>4, ForgottenDrives DEF CB!Next, CB!Abandon
<1>5. CASE BreakerAges
  <2>1. req' = req
    BY <1>5 DEF BreakerAges
  <2>2. CB!AgeOpened \/ CB!AgeProbe
    BY <1>5, <2>1, SameBreaker DEF BreakerAges, CB!AgeOpened, CB!AgeProbe
  <2> QED
    BY <2>2 DEF CB!Next
<1> QED
  BY <1>1, <1>2, <1>3, <1>4, <1>5, BreakerMoves

(* The pooled client implements the breaker's specification: it draws a      *)
(* token at its gate, reports with the token it drew, once, and otherwise    *)
(* leaves the breaker alone; so what is proved of CircuitBreaker for calls   *)
(* that may do anything holds of the calls of a pool.                       *)
THEOREM PoolDrivesBreaker == Spec => DrivesBreaker
<1>1. Init => CB!Init
  BY SameBreaker DEF Init, CB!Init, Idle
<1>2. PoolInv /\ Explained /\ [Next]_vars => [CB!Next]_(CB!vars)
  BY DrivesStep
<1>3. Init => Explained
  BY BreakerInit
<1>4. PoolInv /\ Explained /\ [Next]_vars => Explained'
  BY BreakerMoves
<1> QED
  BY <1>1, <1>2, <1>3, <1>4, PoolInvariant, PTL DEF Spec, DrivesBreaker, CB!Spec
==============================================================================
