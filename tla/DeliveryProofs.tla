--------------------------- MODULE DeliveryProofs ---------------------------
(* What is proved of the deliveries through the retry transport: the time   *)
(* retries keep, the jobs a recovery key makes, and what a chain of         *)
(* deployments charges and reports.                                         *)
EXTENDS Delivery, FiniteSetTheorems, WellFoundedInduction, TLAPS

-----------------------------------------------------------------------------
(* Induction and recursion over the naturals, with sets and functions in    *)
(* the place of predicates and operators.                                   *)
LEMMA SetInduction ==
  ASSUME NEW S \in SUBSET Nat, 0 \in S, \A n \in S : n + 1 \in S
  PROVE  S = Nat
<1> DEFINE R == OpToRel(<, Nat)
<1>1. IsWellFoundedOn(R, Nat)  BY NatLessThanWellFounded
<1>2. ASSUME Nat \ S # {} PROVE FALSE
  <2>1. Nat \ S \subseteq Nat  OBVIOUS
  <2> HIDE DEF R
  <2>2. PICK x \in Nat \ S : \A y \in Nat \ S : ~ (<<y, x>> \in R)  BY <1>1, <1>2, <2>1, WFMin
  <2>3. x # 0 /\ x - 1 \in Nat /\ x - 1 < x  OBVIOUS
  <2>4. <<x - 1, x>> \in R  BY <2>3 DEF R, OpToRel
  <2>5. x - 1 \in S  BY <2>2, <2>3, <2>4
  <2>6. (x - 1) + 1 \in S  BY <2>5
  <2> QED BY <2>3, <2>6
<1> QED BY <1>2

(* A value and a step on a set define a sequence of its elements.           *)
Iterates(h, S, first, step) ==
    h \in [Nat -> S] /\ h[0] = first /\ \A n \in Nat : h[n + 1] = step[h[n]]

LEMMA IterationExists ==
  ASSUME NEW S, NEW first \in S, NEW step \in [S -> S]
  PROVE  \E h : Iterates(h, S, first, step)
<1> DEFINE Begins(g, n) == /\ g \in [0..n -> S] /\ g[0] = first
                           /\ \A i \in 0..(n - 1) : g[i + 1] = step[g[i]]
           Reached == {n \in Nat : \E g : Begins(g, n)}
<1>1. 0 \in Reached
  <2> DEFINE g == [i \in 0..0 |-> first]
  <2>1. Begins(g, 0)  OBVIOUS
  <2> QED BY <2>1
<1>2. ASSUME NEW n \in Reached PROVE n + 1 \in Reached
  <2>1. PICK g : Begins(g, n)  OBVIOUS
  <2> DEFINE longer == [i \in 0..(n + 1) |-> IF i <= n THEN g[i] ELSE step[g[n]]]
  <2>2. n \in Nat /\ n \in 0..n /\ g[n] \in S  BY <2>1
  <2>3. longer \in [0..(n + 1) -> S]  BY <2>1, <2>2
  <2>4. /\ \A i \in 0..n : longer[i] = g[i]
        /\ longer[n + 1] = step[g[n]]
    BY <2>2
  <2> HIDE DEF longer
  <2>5. longer[0] = first  BY <2>1, <2>2, <2>4
  <2>6. ASSUME NEW i \in 0..((n + 1) - 1) PROVE longer[i + 1] = step[longer[i]]
    <3>1. CASE i = n  BY <2>2, <2>4, <3>1
    <3>2. CASE i # n
      <4>1. i \in 0..(n - 1) /\ i \in 0..n /\ i + 1 \in 0..n  BY <2>2, <3>2
      <4> QED BY <2>1, <2>4, <4>1
    <3> QED BY <3>1, <3>2
  <2>7. Begins(longer, n + 1)  BY <2>3, <2>5, <2>6
  <2> QED BY <2>2, <2>7
<1>3. Reached = Nat
  <2>1. Reached \in SUBSET Nat  OBVIOUS
  <2> HIDE DEF Reached
  <2> QED BY <1>1, <1>2, <2>1, SetInduction
<1> DEFINE upto(n) == CHOOSE g : Begins(g, n)
           h == [n \in Nat |-> upto(n)[n]]
<1>4. ASSUME NEW n \in Nat PROVE Begins(upto(n), n)
  <2>1. \E g : Begins(g, n)  BY <1>3
  <2> HIDE DEF Begins
  <2> QED BY <2>1
<1> HIDE DEF upto, Begins
<1>5. ASSUME NEW n \in Nat PROVE upto(n + 1)[n] = upto(n)[n]
  <2> DEFINE Agree == {i \in Nat : i <= n => upto(n + 1)[i] = upto(n)[i]}
  <2>1. Begins(upto(n), n) /\ Begins(upto(n + 1), n + 1)  BY <1>4
  <2>2. 0 \in Agree  BY <2>1 DEF Begins
  <2>3. ASSUME NEW i \in Agree PROVE i + 1 \in Agree
    <3>1. i \in Nat /\ (i + 1 <= n => i <= n /\ i \in 0..(n - 1) /\ i \in 0..((n + 1) - 1))  OBVIOUS
    <3> QED BY <2>1, <3>1 DEF Begins
  <2>4. Agree \in SUBSET Nat  OBVIOUS
  <2> HIDE DEF Agree
  <2>5. Agree = Nat  BY <2>2, <2>3, <2>4, SetInduction
  <2> QED BY <2>5 DEF Agree
<1>6. h \in [Nat -> S]
  <2>1. ASSUME NEW n \in Nat PROVE upto(n)[n] \in S
    <3>1. Begins(upto(n), n) /\ n \in 0..n  BY <1>4
    <3> QED BY <3>1 DEF Begins
  <2> QED BY <2>1
<1>7. h[0] = first
  <2>1. Begins(upto(0), 0)  BY <1>4
  <2> QED BY <2>1 DEF Begins
<1>8. ASSUME NEW n \in Nat PROVE h[n + 1] = step[h[n]]
  <2>1. upto(n + 1)[n + 1] = step[upto(n + 1)[n]]
    <3>1. Begins(upto(n + 1), n + 1) /\ n \in 0..((n + 1) - 1)  BY <1>4
    <3> QED BY <3>1 DEF Begins
  <2>2. h[n + 1] = upto(n + 1)[n + 1] /\ h[n] = upto(n)[n]  OBVIOUS
  <2> QED BY <2>1, <2>2, <1>5
<1> HIDE DEF h
<1>9. Iterates(h, S, first, step)  BY <1>6, <1>7, <1>8 DEF Iterates
<1> QED BY <1>9

-----------------------------------------------------------------------------
(* The retry transport. Operators on one call, whatever it asks.            *)
LEMMA Extremes ==
  ASSUME NEW a \in Int, NEW b \in Int
  PROVE  /\ Min({a, b}) = IF a <= b THEN a ELSE b
         /\ Max({a, b}) = IF a >= b THEN a ELSE b
BY DEF Min, Max

LEMMA ExponentialType == \A n \in Nat : Exponential[n] \in 1..MaxDelay
<1> DEFINE Capped == 1..MaxDelay
           first == Min({BaseDelay, MaxDelay})
           step == [d \in Capped |-> Min({d * Factor, MaxDelay})]
           Grows(f) == f = [n \in Nat |-> Min({IF n = 0 THEN BaseDelay ELSE f[n - 1] * Factor, MaxDelay})]
<1>1. BaseDelay \in Nat \ {0} /\ Factor \in Nat \ {0} /\ MaxDelay \in Nat \ {0}
  BY RetryAssumption DEF RetryAssumption
<1>2. ASSUME NEW d \in Nat \ {0} PROVE Min({d, MaxDelay}) \in Capped  BY <1>1, Extremes
<1>3. first \in Capped  BY <1>1, <1>2
<1>4. step \in [Capped -> Capped]
  <2>1. \A d \in Capped : d * Factor \in Nat \ {0}  BY <1>1
  <2> HIDE DEF Capped
  <2> QED BY <1>2, <2>1
<1>5. PICK h : Iterates(h, Capped, first, step)
  <2> HIDE DEF Capped, first, step
  <2> QED BY <1>3, <1>4, IterationExists
<1>6. Grows(h)
  <2>1. ASSUME NEW n \in Nat, n # 0 PROVE h[n] = Min({h[n - 1] * Factor, MaxDelay})
    <3>1. n - 1 \in Nat /\ (n - 1) + 1 = n  BY <2>1
    <3>2. h[(n - 1) + 1] = step[h[n - 1]] /\ h[n - 1] \in Capped  BY <1>5, <3>1 DEF Iterates
    <3> QED BY <3>1, <3>2
  <2>2. h \in [Nat -> Capped] /\ h[0] = first  BY <1>5 DEF Iterates
  <2> QED BY <2>1, <2>2
<1>7. Grows(Exponential)
  <2>1. \E f : Grows(f)  BY <1>6
  <2>2. Exponential = CHOOSE f : Grows(f)  BY DEF Exponential
  <2> HIDE DEF Grows
  <2> QED BY <2>1, <2>2
<1> DEFINE Typed == {n \in Nat : Exponential[n] \in Capped}
<1>8. 0 \in Typed  BY <1>3, <1>7
<1>9. ASSUME NEW n \in Typed PROVE n + 1 \in Typed
  <2>1. Exponential[n + 1] = Min({Exponential[n] * Factor, MaxDelay})
    <3>1. n + 1 \in Nat /\ n + 1 # 0 /\ (n + 1) - 1 = n  OBVIOUS
    <3>2. Exponential[n + 1] = Min({Exponential[(n + 1) - 1] * Factor, MaxDelay})  BY <1>7, <3>1
    <3> QED BY <3>1, <3>2
  <2>2. PICK m \in Nat \ {0} : m = Exponential[n] * Factor  BY <1>1
  <2> QED BY <1>2, <2>1, <2>2
<1>10. Typed \in SUBSET Nat  OBVIOUS
<1>11. Typed = Nat
  <2> HIDE DEF Typed
  <2> QED BY <1>8, <1>9, <1>10, SetInduction
<1> QED BY <1>11

(* A wait is neither nothing nor longer than the caps, nor shorter than     *)
(* what is left of the provider's hint or than the policy's own delay.      *)
LEMMA Waits ==
  ASSUME NEW n \in Nat, NEW hint \in Nat, NEW d \in BackoffFor(n, hint)
  PROVE  /\ d \in Nat \ {0} /\ d \in Min({hint, MaxRetryAfter})..Max({MaxDelay, MaxRetryAfter})
         /\ \E e \in Delays(n) : e <= d
<1>1. BaseDelay \in Nat \ {0} /\ MaxDelay \in Nat \ {0} /\ MaxRetryAfter \in Nat \ {0}
  BY RetryAssumption DEF RetryAssumption
<1>2. PICK e \in Delays(n) : d = IF Min({hint, MaxRetryAfter}) > e THEN Min({hint, MaxRetryAfter}) ELSE e
  BY DEF BackoffFor, ParseRetryAfter
<1>3. e \in 1..MaxDelay
  <2> DEFINE jitter == Exponential[n] \div 4
  <2>1. Exponential[n] \in 1..MaxDelay  BY ExponentialType
  <2>2. jitter \in Int /\ jitter < Exponential[n]  BY <1>1, <2>1
  <2>3. PICK j \in {0} \union (-jitter)..(jitter - 1) : e = Clamped(Exponential[n] + j)  BY <1>2 DEF Delays
  <2> HIDE DEF jitter
  <2>4. j \in Int  BY <2>2, <2>3
  <2>5. Exponential[n] + j \in Nat \ {0}  BY <1>1, <2>1, <2>2, <2>3, <2>4
  <2> QED BY <1>1, <2>3, <2>5 DEF Clamped
<1>4. Min({hint, MaxRetryAfter}) = (IF hint <= MaxRetryAfter THEN hint ELSE MaxRetryAfter)
  BY <1>1, Extremes
<1>5. Max({MaxDelay, MaxRetryAfter}) = (IF MaxDelay >= MaxRetryAfter THEN MaxDelay ELSE MaxRetryAfter)
  BY <1>1, Extremes
<1> QED BY <1>1, <1>2, <1>3, <1>4, <1>5

Asked == {"list", "upload", "create", "cancel", "get", "embedding", "transcription", "image", "speech"}
Calls == [what : Asked, nonIdempotent : BOOLEAN, attempts : Nat \ {0}, attempt : Nat, spent : Nat,
          left : Nat \union {NoDeadline}, wait : Nat, hint : Nat]

(* A call that is asleep may wait that long; one that is awake again has    *)
(* time left.                                                               *)
TimeKept(c) ==
    /\ c.attempt < c.attempts
    /\ c.attempt > 0 /\ c.wait = 0 => (RetryBudget <= 0 \/ c.spent < RetryBudget) /\ c.left # 0
    /\ c.wait > 0 => /\ c.wait \in Min({c.hint, MaxRetryAfter})..Max({MaxDelay, MaxRetryAfter})
                     /\ \E d \in Delays(c.attempt) : d <= c.wait
                     /\ MayWait(c, c.wait)

LEMMA NewCallKept ==
  ASSUME NEW what \in Asked, NEW once \in BOOLEAN, NEW single \in BOOLEAN, NEW left \in Nat \union {NoDeadline}
  PROVE  LET c == NewCall(what, once, single, left)
         IN  /\ c \in Calls /\ TimeKept(c)
             /\ c.what = what /\ c.nonIdempotent = once /\ c.wait = 0
             /\ c.attempt = 0 /\ (single => c.attempts = 1)
<1>1. MaxRetries \in Int /\ DisableRetries \in BOOLEAN  BY RetryAssumption DEF RetryAssumption
<1>2. Max({3, MaxRetries}) = IF 3 >= MaxRetries THEN 3 ELSE MaxRetries  BY <1>1, Extremes
<1>3. Attempts(single) \in Nat \ {0} /\ (single => Attempts(single) = 1)
  BY <1>1, <1>2 DEF Attempts, DefaultHTTPMaxAttempts
<1> QED BY <1>3 DEF NewCall, Calls, TimeKept

LEMMA SpendKept ==
  ASSUME NEW c \in Calls, NEW t \in Nat
  PROVE  /\ Spend(c, t) \in Calls
         /\ Spend(c, t).what = c.what /\ Spend(c, t).nonIdempotent = c.nonIdempotent
         /\ Spend(c, t).attempt = c.attempt /\ Spend(c, t).attempts = c.attempts
         /\ Spend(c, t).wait = c.wait /\ Spend(c, t).hint = c.hint
         /\ Spend(c, t).spent = (IF RetryBudget > 0 THEN c.spent + t ELSE c.spent)
         /\ Spend(c, t).left = (IF c.left = NoDeadline THEN c.left ELSE IF c.left >= t THEN c.left - t ELSE 0)
<1>1. RetryBudget \in Int /\ NoDeadline = -1  BY RetryAssumption DEF RetryAssumption, NoDeadline
<1>2. c.spent \in Nat /\ c.left \in Nat \union {NoDeadline}  BY DEF Calls
<1>3. c.left # NoDeadline => Max({0, c.left - t}) = IF c.left >= t THEN c.left - t ELSE 0
  <2>1. PICK d \in Int : d = c.left - t  BY <1>1, <1>2
  <2>2. Max({0, d}) = IF 0 >= d THEN 0 ELSE d  BY Extremes
  <2> QED BY <1>1, <1>2, <2>1, <2>2
<1> DEFINE spent == IF RetryBudget > 0 THEN c.spent + t ELSE c.spent
           left  == IF c.left = NoDeadline THEN c.left ELSE IF c.left >= t THEN c.left - t ELSE 0
<1>4. Spend(c, t) = [c EXCEPT !.spent = spent, !.left = left]  BY <1>3 DEF Spend, Calls
<1>5. spent \in Nat /\ left \in Nat \union {NoDeadline}  BY <1>1, <1>2
<1> HIDE DEF spent, left
<1>6. Spend(c, t) \in Calls /\ Spend(c, t).spent = spent /\ Spend(c, t).left = left
      /\ Spend(c, t).what = c.what /\ Spend(c, t).nonIdempotent = c.nonIdempotent
      /\ Spend(c, t).attempt = c.attempt /\ Spend(c, t).attempts = c.attempts
      /\ Spend(c, t).wait = c.wait /\ Spend(c, t).hint = c.hint
  BY <1>4, <1>5 DEF Calls
<1> QED BY <1>6 DEF spent, left

LEMMA AsleepKept ==
  ASSUME NEW c \in Calls, NEW failure, NEW hint \in Nat, NEW a \in Asleep(c, failure, hint)
  PROVE  /\ a \in Calls /\ TimeKept(a) /\ a.wait > 0
         /\ a.what = c.what /\ a.nonIdempotent = c.nonIdempotent /\ a.attempts = c.attempts
         /\ c.attempts > 1 /\ Resendable(c, failure)
<1>1. PICK d \in BackoffFor(c.attempt, hint) :
         Resendable(c, failure) /\ MayWait(c, d) /\ a = [c EXCEPT !.wait = d, !.hint = hint]
  BY DEF Asleep
<1>2. c.attempt \in Nat /\ c.attempts \in Nat  BY DEF Calls
<1>3. /\ d \in Nat \ {0} /\ d \in Min({hint, MaxRetryAfter})..Max({MaxDelay, MaxRetryAfter})
      /\ \E e \in Delays(c.attempt) : e <= d
  BY <1>2, Waits
<1>4. /\ a \in Calls /\ a.wait = d /\ a.hint = hint /\ a.attempt = c.attempt /\ a.attempts = c.attempts
      /\ a.spent = c.spent /\ a.left = c.left /\ a.what = c.what /\ a.nonIdempotent = c.nonIdempotent
  BY <1>1, <1>3 DEF Calls
<1>5. MayWait(a, a.wait)
  BY <1>1, <1>4 DEF MayWait, Allows, SleepOutlastsDeadline
<1>6. a.attempt < a.attempts /\ c.attempts > 1  BY <1>1, <1>2, <1>4 DEF MayWait
<1>7. a.wait > 0  BY <1>3, <1>4
<1>8. TimeKept(a)  BY <1>3, <1>4, <1>5, <1>6, <1>7 DEF TimeKept
<1> QED BY <1>1, <1>4, <1>6, <1>7, <1>8

LEMMA AwakeKept ==
  ASSUME NEW c \in Calls, TimeKept(c), c.wait > 0
  PROVE  /\ Awake(c) \in Calls /\ TimeKept(Awake(c)) /\ Awake(c).wait = 0
         /\ Awake(c).what = c.what /\ Awake(c).nonIdempotent = c.nonIdempotent
         /\ Awake(c).attempts = c.attempts
<1>1. /\ c.wait \in Nat /\ c.attempt \in Nat /\ c.attempts \in Nat /\ c.spent \in Nat
      /\ c.left \in Nat \union {NoDeadline}
  BY DEF Calls
<1> DEFINE s == Spend(c, c.wait)
<1>2. /\ s \in Calls /\ s.what = c.what /\ s.nonIdempotent = c.nonIdempotent
      /\ s.attempt = c.attempt /\ s.attempts = c.attempts
      /\ s.spent = (IF RetryBudget > 0 THEN c.spent + c.wait ELSE c.spent)
      /\ s.left = (IF c.left = NoDeadline THEN c.left ELSE IF c.left >= c.wait THEN c.left - c.wait ELSE 0)
  BY <1>1, SpendKept
<1>3. Awake(c) = [s EXCEPT !.attempt = s.attempt + 1, !.wait = 0, !.hint = 0]  BY DEF Awake
<1> HIDE DEF s
<1>4. /\ Awake(c) \in Calls /\ Awake(c).wait = 0 /\ Awake(c).attempt = s.attempt + 1
      /\ Awake(c).attempts = s.attempts /\ Awake(c).spent = s.spent /\ Awake(c).left = s.left
      /\ Awake(c).what = s.what /\ Awake(c).nonIdempotent = s.nonIdempotent
  <2>1. PICK n \in Nat, zero \in Nat : n = s.attempt + 1 /\ zero = 0  BY <1>1, <1>2
  <2>2. Awake(c) = [s EXCEPT !.attempt = n, !.wait = zero, !.hint = zero]  BY <1>3, <2>1
  <2>3. s \in Calls  BY <1>2
  <2>4. Awake(c) \in Calls /\ Awake(c).wait = zero /\ Awake(c).attempt = n
    BY <2>2, <2>3 DEF Calls
  <2>5. /\ Awake(c).attempts = s.attempts /\ Awake(c).spent = s.spent /\ Awake(c).left = s.left
        /\ Awake(c).what = s.what /\ Awake(c).nonIdempotent = s.nonIdempotent
    BY <2>2, <2>3 DEF Calls
  <2> QED BY <2>1, <2>4, <2>5
<1>5. MayWait(c, c.wait) /\ RetryBudget \in Int /\ NoDeadline = -1
  BY RetryAssumption DEF TimeKept, RetryAssumption, NoDeadline
<1>6. Awake(c).attempt < Awake(c).attempts  BY <1>1, <1>2, <1>4, <1>5 DEF MayWait
<1>7. RetryBudget <= 0 \/ Awake(c).spent < RetryBudget
  BY <1>1, <1>2, <1>4, <1>5 DEF MayWait, Allows
<1>8. Awake(c).left # 0
  BY <1>1, <1>2, <1>4, <1>5 DEF MayWait, SleepOutlastsDeadline
<1>9. TimeKept(Awake(c))  BY <1>4, <1>6, <1>7, <1>8 DEF TimeKept
<1> QED BY <1>2, <1>4, <1>9

-----------------------------------------------------------------------------
(* Batch jobs. What an operation is doing, by its stage and its call.       *)
Jobs  == [key : {"mine", "other"}, digest : Digests \union {"none"}, submit : Nat,
          status : {"running", "cancelling", "completed", "cancelled"}, big : BOOLEAN]
Scans == [name : {"submit", "recover"}, digest : Digests \union {"none"},
          stage : {"lookup", "upload", "create", "reconcile"},
          found : Nat, cursor : Nat, seen : Nat, page : Nat]
Looks == [name : {"get", "wait", "cancel"}, stage : {"get", "look", "post", "verify"}]

(* The call an operation makes fits its stage, and a create is not resent   *)
(* once it may have been acted on.                                          *)
Suits(o, what) ==
    /\ o \in Scans =>
          /\ o.stage \in {"lookup", "reconcile"} => what = "list" /\ backend = "openai"
          /\ o.stage \in {"upload", "create"} => what = o.stage /\ o.name = "submit"
    /\ o \in Looks =>
          /\ held # 0 /\ (o.name = "cancel" <=> o.stage # "get")
          /\ what = IF o.stage = "post" THEN "cancel" ELSE "get"

Control ==
    /\ held \in 0..Len(jobs)
    /\ op \in {NoOp} \union Scans \union Looks
    /\ Idle => call = NoCall
    /\ ~ Idle => /\ call \in Calls /\ TimeKept(call) /\ told = NoAnswer
                 /\ Suits(op, call.what)
                 /\ Creates => IF backend = "openai" THEN call.attempts = 1 ELSE call.nonIdempotent

(* A Submit makes one job, or leaves one create on its way; a second job    *)
(* under the key is one that arrived late.                                  *)
Keys == {i \in DOMAIN jobs : jobs[i].key = "mine"}
Made ==
    /\ \A i \in Keys : jobs[i].submit <= submits
    /\ \A i, j \in Keys : jobs[i].submit = jobs[j].submit => i = j
    /\ \A l \in late : l.key = "mine" /\ l.submit <= submits /\ \A i \in Keys : jobs[i].submit # l.submit
    /\ \A l, m \in late : l.submit = m.submit => l = m

JobsInv ==
    /\ backend \in {"openai", "anthropic", "gemini"}
    /\ jobs \in Seq(Jobs) /\ late \subseteq Jobs /\ arrived \in Nat /\ submits \in Nat
    /\ Made
    /\ backend = "openai" => Cardinality(Keys) <= 1 + arrived

(* A Submit that may still create has made nothing; a lookup has seen the   *)
(* keyed jobs from its cursor on, and those that are not in its inventory   *)
(* have arrived since.                                                      *)
Fresh == op \in Scans /\ op.name = "submit" /\ op.stage # "reconcile" =>
            /\ \A i \in Keys : jobs[i].submit # submits
            /\ \A l \in late : l.submit # submits

After(n) == {i \in Keys : i > n}
Surveyed ==
    op \in Scans /\ op.stage \in {"lookup", "reconcile"} =>
       /\ op.cursor = 0 => op.found = 0
       /\ op.cursor # 0 =>
             /\ op.cursor > 1 /\ op.cursor <= op.seen /\ op.seen <= Len(jobs)
             /\ {i \in Keys : op.cursor <= i /\ i <= op.seen} = {op.found} \ {0}
             /\ op.stage = "lookup" => Cardinality(After(op.seen)) <= arrived

FewYet == op \in Scans /\ op.stage \in {"upload", "create"} => Cardinality(Keys) <= arrived

ScanInv  == Fresh /\ (backend = "openai" => Surveyed /\ FewYet)
BatchInv == JobsInv /\ Control /\ ScanInv

LEMMA Operations ==
  /\ \A o \in Scans : o \notin Looks /\ o # NoOp /\ o.name \in {"submit", "recover"}
                      /\ o.stage \in {"lookup", "upload", "create", "reconcile"}
  /\ \A o \in Looks : o \notin Scans /\ o # NoOp /\ o.name \in {"get", "wait", "cancel"}
                      /\ o.stage \in {"get", "look", "post", "verify"}
  /\ NoOp \notin Scans /\ NoOp \notin Looks
<1>1. \A o \in Scans : o.name \in {"submit", "recover"} /\ o.stage \in {"lookup", "upload", "create", "reconcile"}
  BY DEF Scans
<1>2. \A o \in Looks : o.name \in {"get", "wait", "cancel"} /\ o.stage \in {"get", "look", "post", "verify"}
  BY DEF Looks
<1>3. NoOp.name = "none"  BY DEF NoOp
<1> QED BY <1>1, <1>2, <1>3

LEMMA CallOfKept ==
  ASSUME NEW what \in {"list", "upload", "create", "cancel", "get"}, NEW left \in Nat \union {NoDeadline}
  PROVE  /\ CallOf(what, left) \in Calls /\ TimeKept(CallOf(what, left))
         /\ CallOf(what, left).what = what
         /\ what = "create" => IF backend = "openai" THEN CallOf(what, left).attempts = 1
                                                     ELSE CallOf(what, left).nonIdempotent
<1> DEFINE once   == what = "create" /\ backend # "openai"
           single == backend = "openai" /\ what \in {"upload", "create", "cancel"}
<1>1. once \in BOOLEAN /\ single \in BOOLEAN /\ what \in Asked  BY DEF Asked
<1>2. CallOf(what, left) = NewCall(what, once, single, left)  BY DEF CallOf
<1>3. what = "create" => IF backend = "openai" THEN single ELSE once  OBVIOUS
<1> HIDE DEF once, single
<1>4. LET c == NewCall(what, once, single, left)
      IN  c \in Calls /\ TimeKept(c) /\ c.what = what /\ c.nonIdempotent = once /\ (single => c.attempts = 1)
  BY <1>1, NewCallKept
<1> QED BY <1>2, <1>3, <1>4

(* Steps that leave the keyed jobs as they are, and the creation of one.    *)
Untouched ==
    /\ jobs' \in Seq(Jobs) /\ Len(jobs') = Len(jobs)
    /\ \A i \in DOMAIN jobs : /\ jobs'[i].key = jobs[i].key
                              /\ jobs'[i].submit = jobs[i].submit
    /\ UNCHANGED <<late, arrived>>
Created ==
    \/ jobs' = Append(jobs, NewJob) /\ UNCHANGED <<late, arrived>>
    \/ late' = late \union {NewJob} /\ UNCHANGED <<jobs, arrived>>

LEMMA KeysFinite ==
  ASSUME jobs \in Seq(Jobs)
  PROVE  /\ Len(jobs) \in Nat /\ DOMAIN jobs = 1..Len(jobs)
         /\ Keys \in SUBSET (1..Len(jobs)) /\ IsFiniteSet(Keys) /\ Cardinality(Keys) \in Nat
<1>1. Len(jobs) \in Nat /\ DOMAIN jobs = 1..Len(jobs)  OBVIOUS
<1>2. Keys \in SUBSET (1..Len(jobs))  BY <1>1 DEF Keys
<1>3. IsFiniteSet(1..Len(jobs))
  <2>1. PICK n : n = Len(jobs) /\ n \in Nat  BY <1>1
  <2>2. IsFiniteSet(1..n)  BY <2>1, FS_Interval
  <2> QED BY <2>1, <2>2
<1>4. IsFiniteSet(Keys)  BY <1>2, <1>3, FS_Subset
<1> QED BY <1>1, <1>2, <1>4, FS_CardinalityType

LEMMA UntouchedKeys ==
  ASSUME jobs \in Seq(Jobs), Untouched
  PROVE  /\ Keys' = Keys /\ \A i \in Keys : jobs'[i].submit = jobs[i].submit
         /\ DOMAIN jobs' = DOMAIN jobs
<1>1. jobs' \in Seq(Jobs) /\ Len(jobs') = Len(jobs)  BY DEF Untouched
<1>2. DOMAIN jobs' = DOMAIN jobs  BY <1>1
<1>3. \A i \in DOMAIN jobs : jobs'[i].key = jobs[i].key /\ jobs'[i].submit = jobs[i].submit
  BY DEF Untouched
<1> QED BY <1>2, <1>3 DEF Keys

LEMMA AddedKeys ==
  ASSUME jobs \in Seq(Jobs), NEW j \in Jobs, jobs' = Append(jobs, j)
  PROVE  /\ jobs' \in Seq(Jobs) /\ Len(jobs') = Len(jobs) + 1
         /\ \A i \in DOMAIN jobs : i \in DOMAIN jobs' /\ jobs'[i] = jobs[i]
         /\ Len(jobs) + 1 \notin Keys /\ jobs'[Len(jobs) + 1] = j
         /\ Keys' = Keys \union (IF j.key = "mine" THEN {Len(jobs) + 1} ELSE {})
<1>1. Len(jobs) \in Nat /\ DOMAIN jobs = 1..Len(jobs)  OBVIOUS
<1>2. /\ jobs' \in Seq(Jobs) /\ Len(jobs') = Len(jobs) + 1 /\ DOMAIN jobs' = 1..(Len(jobs) + 1)
      /\ \A i \in 1..Len(jobs) : jobs'[i] = jobs[i]
      /\ jobs'[Len(jobs) + 1] = j
  OBVIOUS
<1>3. \A i \in 1..(Len(jobs) + 1) : i \in 1..Len(jobs) \/ i = Len(jobs) + 1  BY <1>1
<1>4. \A i \in 1..Len(jobs) : i \in 1..(Len(jobs) + 1) /\ i # Len(jobs) + 1  BY <1>1
<1>5. Len(jobs) + 1 \in 1..(Len(jobs) + 1)  BY <1>1
<1> QED BY <1>1, <1>2, <1>3, <1>4, <1>5 DEF Keys

LEMMA OneMoreKey ==
  ASSUME NEW n \in Nat, jobs \in Seq(Jobs), NEW x, x \notin Keys
  PROVE  /\ Cardinality(Keys \union {x}) = Cardinality(Keys) + 1
         /\ Cardinality(Keys) <= n => Cardinality(Keys \union {x}) <= n + 1
<1>1. IsFiniteSet(Keys) /\ Cardinality(Keys) \in Nat  BY KeysFinite
<1>2. Cardinality(Keys \union {x}) = Cardinality(Keys) + 1  BY <1>1, FS_AddElement
<1> QED BY <1>1, <1>2

(* What any step of the operation that is under way leaves true of the      *)
(* jobs: it touches none of those under the key, or is the create.          *)
LEMMA JobsKeep ==
  ASSUME BatchInv, UNCHANGED <<backend, submits>>,
         Untouched \/ (Created /\ op \in Scans /\ op.stage = "create")
  PROVE  JobsInv' /\ Len(jobs) \in Nat /\ Len(jobs') \in Nat /\ Len(jobs') >= Len(jobs)
<1>1. /\ jobs \in Seq(Jobs) /\ late \subseteq Jobs /\ arrived \in Nat /\ submits \in Nat
      /\ Len(jobs) \in Nat /\ Made
      /\ backend \in {"openai", "anthropic", "gemini"}
      /\ backend = "openai" => Cardinality(Keys) <= 1 + arrived
  BY DEF BatchInv, JobsInv
<1>2. SUFFICES /\ jobs' \in Seq(Jobs) /\ late' \subseteq Jobs /\ arrived' \in Nat /\ Len(jobs') \in Nat
               /\ Len(jobs') >= Len(jobs)
               /\ Made' /\ (backend = "openai" => Cardinality(Keys') <= 1 + arrived')
  BY <1>1 DEF JobsInv
<1>3. CASE Untouched
  <2>1. /\ Keys' = Keys /\ \A i \in Keys : jobs'[i].submit = jobs[i].submit
        /\ late' = late /\ arrived' = arrived /\ jobs' \in Seq(Jobs) /\ Len(jobs') = Len(jobs)
    BY <1>1, <1>3, UntouchedKeys DEF Untouched
  <2>2. Made'  BY <1>1, <2>1 DEF Made
  <2> QED BY <1>1, <2>1, <2>2
<1>4. CASE Created /\ op \in Scans /\ op.stage = "create"
  <2>1. op.name = "submit" /\ op.digest \in Digests \union {"none"}
    <3>1. ~ Idle  BY <1>4, Operations DEF Idle
    <3>2. Suits(op, call.what)  BY <3>1 DEF BatchInv, Control
    <3> QED BY <1>4, <3>2 DEF Suits, Scans
  <2>2. NewJob \in Jobs /\ NewJob.key = "mine" /\ NewJob.submit = submits
    <3>1. (op.digest \in BigDigests) \in BOOLEAN  OBVIOUS
    <3> QED BY <1>1, <2>1, <3>1 DEF NewJob, Jobs
  <2>3. /\ \A i \in Keys : jobs[i].submit # submits
        /\ \A l \in late : l.submit # submits
    BY <1>4, <2>1 DEF BatchInv, ScanInv, Fresh
  <2>4. backend = "openai" => Cardinality(Keys) <= arrived  BY <1>4 DEF BatchInv, ScanInv, FewYet
  <2>5. CASE jobs' = Append(jobs, NewJob) /\ UNCHANGED <<late, arrived>>
    <3> DEFINE new == Len(jobs) + 1
    <3>1. /\ jobs' \in Seq(Jobs) /\ Len(jobs') = Len(jobs) + 1
          /\ \A i \in DOMAIN jobs : i \in DOMAIN jobs' /\ jobs'[i] = jobs[i]
          /\ new \notin Keys /\ jobs'[new] = NewJob
          /\ Keys' = Keys \union {new}
      BY <1>1, <2>2, <2>5, AddedKeys
    <3>2. \A i \in Keys : jobs'[i] = jobs[i]  BY <3>1 DEF Keys
    <3> HIDE DEF new
    <3>3. Made'
      <4>1. \A i \in Keys' : jobs'[i].submit <= submits'  BY <1>1, <2>2, <3>1, <3>2 DEF Made
      <4>2. \A i, j \in Keys' : jobs'[i].submit = jobs'[j].submit => i = j
        BY <1>1, <2>2, <2>3, <3>1, <3>2 DEF Made
      <4>3. \A l \in late' : l.key = "mine" /\ l.submit <= submits' /\ \A i \in Keys' : jobs'[i].submit # l.submit
        <5> SUFFICES ASSUME NEW l \in late
                     PROVE  l.key = "mine" /\ l.submit <= submits' /\ \A i \in Keys' : jobs'[i].submit # l.submit
          BY <2>5
        <5>1. l.key = "mine" /\ l.submit <= submits /\ \A i \in Keys : jobs[i].submit # l.submit
          BY <1>1 DEF Made
        <5>2. \A i \in Keys : jobs'[i].submit # l.submit  BY <3>2, <5>1
        <5>3. jobs'[new].submit # l.submit  BY <2>2, <2>3, <3>1
        <5> QED BY <3>1, <5>1, <5>2, <5>3
      <4> QED BY <1>1, <2>5, <4>1, <4>2, <4>3 DEF Made
    <3>4. backend = "openai" => Cardinality(Keys') <= 1 + arrived'
      <4>1. backend = "openai" => Cardinality(Keys \union {new}) <= arrived + 1
        BY <1>1, <2>4, <3>1, OneMoreKey
      <4> QED BY <1>1, <2>5, <3>1, <4>1
    <3> QED BY <1>1, <2>5, <3>1, <3>3, <3>4
  <2>6. CASE late' = late \union {NewJob} /\ UNCHANGED <<jobs, arrived>>
    <3>1. Keys' = Keys  BY <2>6 DEF Keys
    <3>2. Made'  BY <1>1, <2>2, <2>3, <2>6, <3>1 DEF Made
    <3> QED BY <1>1, <2>2, <2>6, <3>1, <3>2
  <2> QED BY <1>4, <2>5, <2>6 DEF Created
<1> QED BY <1>3, <1>4

(* The operation goes on with another call, is over, or stays where it is.  *)
LEMMA GoesOn ==
  ASSUME BatchInv, backend' = backend, Len(jobs) \in Nat, Len(jobs') \in Nat, Len(jobs') >= Len(jobs),
         NEW o \in Scans \union Looks, NEW what \in {"list", "upload", "create", "cancel", "get"},
         NEW left \in Nat \union {NoDeadline}, Suits(o, what),
         op' = o, call' = CallOf(what, left), told' = NoAnswer, held' = held
  PROVE  Control'
<1>1. /\ call' \in Calls /\ TimeKept(call') /\ call'.what = what
      /\ what = "create" => IF backend = "openai" THEN call'.attempts = 1 ELSE call'.nonIdempotent
  BY CallOfKept
<1>2. ~ Idle'  BY Operations DEF Idle
<1>3. held \in 0..Len(jobs)  BY DEF BatchInv, Control
<1>4. Suits(op, call.what)'  BY <1>1 DEF Suits
<1>5. TimeKept(call)'  BY <1>1 DEF TimeKept, MayWait, Allows, SleepOutlastsDeadline
<1> QED BY <1>1, <1>2, <1>3, <1>4, <1>5 DEF Control, Creates

LEMMA IsOver ==
  ASSUME op' = NoOp, call' = NoCall, held' \in 0..Len(jobs')
  PROVE  Control' /\ op' \notin Scans
BY Operations DEF Control, Idle

LEMMA StaysThere ==
  ASSUME BatchInv, UNCHANGED <<backend, op, held, told>>,
         Len(jobs) \in Nat, Len(jobs') \in Nat, Len(jobs') >= Len(jobs),
         call' = call \/ /\ ~ Idle
                         /\ call' \in Calls /\ TimeKept(call') /\ call'.what = call.what
                         /\ call'.nonIdempotent = call.nonIdempotent /\ call'.attempts = call.attempts
  PROVE  Control'
<1>1. Control  BY DEF BatchInv
<1>2. held' \in 0..Len(jobs') /\ (Idle' <=> Idle)  BY <1>1 DEF Control, Idle
<1>3. Idle' => call' = NoCall  BY <1>1, <1>2 DEF Control
<1>4. ~ Idle => TimeKept(call')  BY <1>1 DEF Control
<1>5. ~ Idle => call' \in Calls /\ told' = NoAnswer  BY <1>1 DEF Control
<1>6. ~ Idle => Suits(op, call.what)'  BY <1>1 DEF Control, Suits
<1>7. ~ Idle => (Creates' => IF backend' = "openai" THEN call'.attempts = 1 ELSE call'.nonIdempotent)
  BY <1>1 DEF Control, Creates
<1>8. ~ Idle => TimeKept(call)'  BY <1>4 DEF TimeKept, MayWait, Allows, SleepOutlastsDeadline
<1> QED BY <1>1, <1>2, <1>3, <1>5, <1>6, <1>7, <1>8 DEF Control

-----------------------------------------------------------------------------
(* One page of the inventory.                                               *)
LEMMA AtMostOne ==
  ASSUME NEW S, IsFiniteSet(S), Cardinality(S) <= 1
  PROVE  \A x, y \in S : x = y
<1>1. SUFFICES ASSUME NEW x \in S, NEW y \in S, x # y PROVE FALSE  OBVIOUS
<1>2. IsFiniteSet(S \ {x}) /\ Cardinality(S \ {x}) = Cardinality(S) - 1  BY FS_RemoveElement
<1>3. Cardinality(S) \in Nat /\ Cardinality(S \ {x}) \in Nat  BY <1>2, FS_CardinalityType
<1>4. Cardinality(S \ {x}) = 0  BY <1>2, <1>3
<1>5. S \ {x} = {}  BY <1>2, <1>4, FS_EmptySet
<1> QED BY <1>1, <1>5

LEMMA PageFacts ==
  ASSUME BatchInv, backend = "openai", op \in Scans, op.stage \in {"lookup", "reconcile"}
  PROVE  LET p == Page(jobs)
         IN  /\ p.seen = (IF op.cursor = 0 THEN Len(jobs) ELSE op.seen)
             /\ p.seen \in 0..Len(jobs) /\ p.cursor \in Nat
             /\ p.more => p.cursor > 1 /\ p.cursor <= p.seen
             /\ ~ p.more => p.cursor <= 1
             /\ ~ p.conflict =>
                   /\ {i \in Keys : p.cursor <= i /\ i <= p.seen} = {p.found} \ {0}
                   /\ p.found \in Keys \union {0}
             /\ op.stage = "lookup" => Cardinality(After(p.seen)) <= arrived
<1>1. jobs \in Seq(Jobs) /\ arrived \in Nat  BY DEF BatchInv, JobsInv
<1>2. /\ Len(jobs) \in Nat /\ DOMAIN jobs = 1..Len(jobs)
      /\ Keys \in SUBSET (1..Len(jobs)) /\ IsFiniteSet(Keys)
  BY <1>1, KeysFinite
<1>3. op.found \in Nat /\ op.cursor \in Nat /\ op.seen \in Nat  BY DEF Scans
<1>4. /\ op.cursor = 0 => op.found = 0
      /\ op.cursor # 0 =>
             /\ op.cursor > 1 /\ op.cursor <= op.seen /\ op.seen <= Len(jobs)
             /\ {i \in Keys : op.cursor <= i /\ i <= op.seen} = {op.found} \ {0}
             /\ op.stage = "lookup" => Cardinality(After(op.seen)) <= arrived
  BY DEF BatchInv, ScanInv, Surveyed
<1>5. PageSize \in Nat /\ PageSize >= 1  BY BatchAssumption DEF BatchAssumption
<1> DEFINE from  == IF op.cursor = 0 THEN Len(jobs) ELSE op.cursor - 1
           low   == Max({1, from - PageSize + 1})
           hits  == {i \in low..from : jobs[i].key = "mine"}
           found == IF hits = {} THEN op.found ELSE Max(hits)
           seen  == IF op.cursor = 0 THEN Len(jobs) ELSE op.seen
<1>6. from \in 0..Len(jobs) /\ seen \in 0..Len(jobs) /\ from <= seen  BY <1>2, <1>3, <1>4
<1>7. low = IF 1 >= from - PageSize + 1 THEN 1 ELSE from - PageSize + 1
  <2>1. PICK n : n = from - PageSize + 1  OBVIOUS
  <2>2. n \in Int  BY <1>2, <1>5, <1>6, <2>1
  <2>3. Max({1, n}) = IF 1 >= n THEN 1 ELSE n  BY <2>2, Extremes
  <2> QED BY <2>1, <2>3
<1>8. low \in Nat /\ low >= 1 /\ (low > 1 => low <= from)  BY <1>2, <1>5, <1>6, <1>7
<1> DEFINE many == Cardinality(hits \union ({op.found} \ {0})) > 1
           further == low > 1
<1>9. /\ Page(jobs).found = found /\ Page(jobs).cursor = low /\ Page(jobs).seen = seen
      /\ Page(jobs).more = further /\ Page(jobs).conflict = many
  <2>1. Page(jobs) = [found |-> found, cursor |-> low, seen |-> seen, more |-> further, conflict |-> many]
    BY DEF Page
  <2> HIDE DEF found, low, seen, further, many
  <2> QED BY <2>1
<1> HIDE DEF low
<1>10. hits = {i \in Keys : low <= i /\ i <= from}  BY <1>2, <1>6, <1>8 DEF Keys
<1>11. {i \in Keys : low <= i /\ i <= seen} = hits \union ({op.found} \ {0})
  <2>1. CASE op.cursor = 0  BY <1>4, <1>10, <2>1
  <2>2. CASE op.cursor # 0
    <3>1. from = op.cursor - 1 /\ seen = op.seen  BY <2>2
    <3>2. \A i \in Keys : i \in Nat  BY <1>2
    <3>3. low <= op.cursor  BY <1>3, <1>4, <1>8, <1>7, <1>5, <2>2, <3>1
    <3>4. \A i \in Keys : low <= i /\ i <= seen <=> (low <= i /\ i <= from) \/ (op.cursor <= i /\ i <= op.seen)
      BY <1>3, <1>4, <1>8, <2>2, <3>1, <3>2, <3>3
    <3>5. {i \in Keys : op.cursor <= i /\ i <= op.seen} = {op.found} \ {0}  BY <1>4, <2>2
    <3> HIDE DEF from, seen, hits
    <3> QED BY <1>10, <3>4, <3>5
  <2> QED BY <2>1, <2>2
<1>12. ASSUME ~ Page(jobs).conflict
       PROVE  {i \in Keys : low <= i /\ i <= seen} = {found} \ {0} /\ found \in Keys \union {0}
  <2> DEFINE all == hits \union ({op.found} \ {0})
  <2>1. all \subseteq Keys  BY <1>11
  <2>2. IsFiniteSet(all)  BY <1>2, <2>1, FS_Subset
  <2>3. Cardinality(all) \in Nat  BY <2>2, FS_CardinalityType
  <2>4. Cardinality(all) <= 1  
    <3>1. ~ many  BY <1>9, <1>12
    <3> QED BY <2>3, <3>1
  <2>5. \A x, y \in all : x = y
    <3> HIDE DEF all
    <3> QED BY <2>2, <2>4, AtMostOne
  <2>6. 0 \notin Keys  BY <1>2
  <2>7. CASE hits = {}
    <3>1. found = op.found  BY <2>7
    <3> QED BY <1>11, <2>1, <2>7, <3>1
  <2>8. CASE hits # {}
    <3>1. PICK h \in hits : TRUE  BY <2>8
    <3>2. all = {h} /\ hits = {h}  BY <2>5, <3>1
    <3>3. h \in Nat /\ h \in Keys  BY <1>2, <2>1, <3>2
    <3>4. Max({h}) = h  BY <3>3 DEF Max
    <3>5. found = h  BY <2>8, <3>2, <3>4
    <3> QED BY <1>11, <2>6, <3>2, <3>3, <3>5
  <2> QED BY <2>7, <2>8
<1>13. op.stage = "lookup" => Cardinality(After(seen)) <= arrived
  <2>1. CASE op.cursor = 0
    <3>1. seen = Len(jobs) /\ \A i \in Keys : ~ (i > Len(jobs))  BY <1>2, <2>1
    <3>2. After(Len(jobs)) = {}
      <4> HIDE DEF Keys
      <4> QED BY <3>1 DEF After
    <3>3. Cardinality(After(seen)) = 0  BY <3>1, <3>2, FS_EmptySet
    <3> QED BY <1>1, <3>3
  <2>2. CASE op.cursor # 0
    <3>1. seen = op.seen  BY <2>2
    <3> QED BY <1>4, <2>2, <3>1
  <2> QED BY <2>1, <2>2
<1>14. low > 1 => low <= seen  BY <1>2, <1>6, <1>8
<1> HIDE DEF from, hits, found, many
<1>15. /\ Page(jobs).more => low > 1
       /\ ~ Page(jobs).more => low <= 1
  <2>1. Page(jobs).more <=> low > 1  BY <1>9
  <2> QED BY <1>8, <2>1
<1> DEFINE p == Page(jobs)
<1>16. p.seen = seen /\ p.cursor = low /\ p.found = found  BY <1>9
<1> HIDE DEF p, seen
<1> QED BY <1>6, <1>8, <1>9, <1>12, <1>13, <1>14, <1>15, <1>16 DEF p, seen

-----------------------------------------------------------------------------
(* The steps of BatchNext, by what they do to the operation.                *)
LEMMA OffScan ==
  ASSUME op' \notin Scans
  PROVE  ScanInv'
BY DEF ScanInv, Fresh, Surveyed, FewYet

LEMMA Lefts ==
  /\ Deadlines \subseteq Nat \union {NoDeadline} /\ Hints \subseteq Nat
  /\ \A c \in Calls : c.left \in Nat \union {NoDeadline}
BY BatchAssumption DEF BatchAssumption, Calls

(* The caller starts an operation.                                          *)
LEMMA StartKeeps ==
  ASSUME BatchInv, Idle, UNCHANGED <<backend, jobs, late, arrived>>,
         NEW o \in Scans \union Looks, NEW what \in {"list", "upload", "create", "cancel", "get"},
         Starts(o, what), Suits(o, what),
         submits' \in {submits, submits + 1},
         o \in Scans => /\ o.found = 0 /\ o.cursor = 0
                        /\ o.name = "submit" => submits' = submits + 1 /\ o.stage # "reconcile"
                        /\ backend = "openai" => o.stage = "lookup"
  PROVE  BatchInv'
<1>1. /\ jobs \in Seq(Jobs) /\ late \subseteq Jobs /\ arrived \in Nat /\ submits \in Nat /\ Made
      /\ backend \in {"openai", "anthropic", "gemini"}
      /\ backend = "openai" => Cardinality(Keys) <= 1 + arrived
      /\ Len(jobs) \in Nat
  BY DEF BatchInv, JobsInv
<1>2. Keys' = Keys /\ submits' \in Nat /\ submits' >= submits
  <2>1. Keys' = Keys  BY DEF Keys
  <2> QED BY <1>1, <2>1
<1>3. \A i \in Keys : jobs[i].submit \in Nat
  <2>1. \A i \in DOMAIN jobs : jobs[i] \in Jobs  BY <1>1
  <2> QED BY <2>1 DEF Keys, Jobs
<1>4. \A l \in late : l.submit \in Nat  BY <1>1 DEF Jobs
<1>5. Made'  BY <1>1, <1>2, <1>3, <1>4 DEF Made
<1>6. JobsInv'  BY <1>1, <1>2, <1>5 DEF JobsInv
<1>7. op' = o /\ told' = NoAnswer /\ held' = held  BY DEF Starts
<1>8. PICK left \in Nat \union {NoDeadline} : call' = CallOf(what, left)  BY Lefts DEF Starts
<1>9. Control'  BY <1>1, <1>7, <1>8, GoesOn
<1>10. ScanInv'
  <2>1. CASE o \notin Scans  BY <1>7, <2>1, OffScan
  <2>2. CASE o \in Scans
    <3>1. Fresh'  BY <1>1, <1>2, <1>3, <1>4, <1>7, <2>2 DEF Fresh, Made
    <3>2. backend = "openai" => Surveyed'  BY <1>7, <2>2 DEF Surveyed
    <3>3. backend = "openai" => FewYet'  BY <1>7, <2>2 DEF FewYet
    <3> QED BY <3>1, <3>2, <3>3 DEF ScanInv
  <2> QED BY <2>1, <2>2
<1> QED BY <1>6, <1>9, <1>10 DEF BatchInv

(* The operation goes on with its next call, or ends.                       *)
LEMMA EndKeeps ==
  ASSUME BatchInv, UNCHANGED <<backend, submits>>,
         Untouched \/ (Created /\ op \in Scans /\ op.stage = "create"),
         NEW ok, NEW job, NEW why, Ends(ok, job, why), ok => job \in 0..Len(jobs')
  PROVE  BatchInv'
<1>1. JobsInv' /\ Len(jobs) \in Nat /\ Len(jobs') \in Nat /\ Len(jobs') >= Len(jobs)  BY JobsKeep
<1>2. held \in 0..Len(jobs)  BY DEF BatchInv, Control
<1>3. op' = NoOp /\ call' = NoCall /\ held' = IF ok THEN job ELSE held  BY DEF Ends
<1>4. held' \in 0..Len(jobs')  BY <1>1, <1>2, <1>3
<1> QED BY <1>1, <1>3, <1>4, IsOver, OffScan DEF BatchInv

LEMMA GoKeeps ==
  ASSUME BatchInv, ~ Idle, UNCHANGED <<backend, submits>>,
         Untouched \/ (Created /\ op \in Scans /\ op.stage = "create"),
         NEW o \in Scans \union Looks, NEW what \in {"list", "upload", "create", "cancel", "get"},
         Goes(o, what), Suits(o, what), ScanInv'
  PROVE  BatchInv'
<1>1. JobsInv' /\ Len(jobs) \in Nat /\ Len(jobs') \in Nat /\ Len(jobs') >= Len(jobs)  BY JobsKeep
<1>2. call \in Calls /\ told = NoAnswer  BY DEF BatchInv, Control
<1>3. op' = o /\ told' = NoAnswer /\ held' = held /\ call' = CallOf(what, call.left)  BY <1>2 DEF Goes
<1>4. Control'
  <2>1. PICK left \in Nat \union {NoDeadline} : left = call.left  BY <1>2, Lefts
  <2> QED BY <1>1, <1>3, <2>1, GoesOn
<1> QED BY <1>1, <1>4 DEF BatchInv

(* A call that was not answered.                                            *)
LEMMA UnansweredKeeps ==
  ASSUME BatchInv, ~ Idle, UNCHANGED <<backend, submits>>,
         Untouched \/ (Created /\ op \in Scans /\ op.stage = "create"),
         NEW done \in BOOLEAN, Unanswered(done)
  PROVE  BatchInv'
<1>1. Control /\ Suits(op, call.what) /\ op \in Scans \union Looks /\ call \in Calls
  BY DEF BatchInv, Control, Idle
<1>2. ASSUME NEW why, Fails(why) PROVE BatchInv'
  BY <1>2, EndKeeps DEF Fails
<1>3. CASE done  BY <1>2, <1>3 DEF Unanswered
<1>4. CASE ~ done /\ backend # "openai"  BY <1>2, <1>4 DEF Unanswered
<1>5. CASE ~ done /\ backend = "openai" /\ call.what = "create"
  <2> DEFINE o == Scan(op.name, op.digest, "reconcile")
  <2>1. Goes(o, "list")  BY <1>5 DEF Unanswered
  <2>2. op \in Scans  BY <1>1, <1>5, Operations DEF Suits
  <2>3. /\ o \in Scans /\ o.stage = "reconcile" /\ o.cursor = 0 /\ o.found = 0
    BY <2>2 DEF Scan, Scans
  <2> HIDE DEF o
  <2>4. op' = o  BY <2>1 DEF Goes
  <2>5. Suits(o, "list")  BY <1>5, <2>3, Operations DEF Suits
  <2>6. ScanInv'  BY <2>3, <2>4 DEF ScanInv, Fresh, Surveyed, FewYet
  <2> QED BY <2>1, <2>3, <2>5, <2>6, GoKeeps
<1>6. CASE ~ done /\ backend = "openai" /\ call.what = "cancel"
  <2> DEFINE o == [op EXCEPT !.stage = "verify"]
  <2>1. Goes(o, "get")  BY <1>6 DEF Unanswered
  <2>2. op \in Looks /\ op.stage = "post" /\ op.name = "cancel" /\ held # 0
    BY <1>1, <1>6, Operations DEF Suits
  <2>3. o \in Looks /\ o.stage = "verify" /\ o.name = "cancel"  BY <2>2 DEF Looks
  <2> HIDE DEF o
  <2>4. op' = o  BY <2>1 DEF Goes
  <2>5. Suits(o, "get")  BY <2>2, <2>3, Operations DEF Suits
  <2>6. ScanInv'  BY <2>3, <2>4, Operations, OffScan
  <2> QED BY <2>1, <2>3, <2>5, <2>6, GoKeeps
<1>7. CASE ~ done /\ backend = "openai" /\ call.what \notin {"create", "cancel"}
  <2>1. Fails("call")  BY <1>7 DEF Unanswered
  <2> QED BY <1>2, <2>1
<1> QED BY <1>3, <1>4, <1>5, <1>6, <1>7

(* What the provider does with the call leaves the keyed jobs alone, or is  *)
(* the create the operation asks for.                                       *)
LEMMA ActedKeeps ==
  ASSUME BatchInv, ~ Idle, jobs' = Acted, UNCHANGED <<late, arrived>>
  PROVE  /\ Untouched \/ (Created /\ op \in Scans /\ op.stage = "create")
         /\ ~ Creates => Untouched
         /\ call.what \notin {"create", "cancel"} => jobs' = jobs
         /\ Creates /\ Room => Len(jobs') = Len(jobs) + 1 /\ Len(jobs) \in Nat
<1>1. /\ jobs \in Seq(Jobs) /\ Suits(op, call.what) /\ op \in Scans \union Looks /\ held \in 0..Len(jobs)
      /\ Len(jobs) \in Nat /\ DOMAIN jobs = 1..Len(jobs)
  BY DEF BatchInv, JobsInv, Control, Idle
<1>2. CASE Creates /\ Len(jobs) < MaxJobs
  <2>1. jobs' = Append(jobs, NewJob)  BY <1>2 DEF Acted, Creates
  <2>2. op \in Scans /\ op.stage = "create"  BY <1>1, <1>2, Operations DEF Suits, Creates
  <2>3. Len(jobs') = Len(jobs) + 1  BY <1>1, <2>1
  <2> QED BY <1>1, <1>2, <2>1, <2>2, <2>3 DEF Created, Creates
<1>3. CASE call.what = "cancel" /\ ~ RefusesIt
  <2>1. jobs' = [jobs EXCEPT ![held].status = IF CancelSeen(@) THEN @ ELSE "cancelling"]
    BY <1>3 DEF Acted, Creates
  <2>2. held \in DOMAIN jobs
    <3>1. op \in Looks /\ held # 0  BY <1>1, <1>3, Operations DEF Suits
    <3> QED BY <1>1, <3>1
  <2>3. PICK s : s = (IF CancelSeen(jobs[held].status) THEN jobs[held].status ELSE "cancelling")  OBVIOUS
  <2>4. jobs' = [jobs EXCEPT ![held] = [jobs[held] EXCEPT !.status = s]]  BY <2>1, <2>3
  <2>5. jobs[held] \in Jobs  BY <1>1, <2>2
  <2>6. [jobs[held] EXCEPT !.status = s] \in Jobs  BY <2>3, <2>5 DEF Jobs
  <2>7. /\ [jobs[held] EXCEPT !.status = s].key = jobs[held].key
        /\ [jobs[held] EXCEPT !.status = s].submit = jobs[held].submit
    BY <2>5 DEF Jobs
  <2>8. PICK j \in Jobs : j = [jobs[held] EXCEPT !.status = s]  BY <2>6
  <2>9. jobs' = [jobs EXCEPT ![held] = j]  BY <2>4, <2>8
  <2>10. /\ jobs' \in Seq(Jobs) /\ Len(jobs') = Len(jobs)
         /\ \A i \in DOMAIN jobs : jobs'[i] = IF i = held THEN j ELSE jobs[i]
    BY <1>1, <2>2, <2>9
  <2> QED BY <1>3, <2>7, <2>8, <2>10 DEF Untouched, Creates
<1>4. CASE ~ (Creates /\ Len(jobs) < MaxJobs) /\ ~ (call.what = "cancel" /\ ~ RefusesIt)
  <2>1. jobs' = jobs  BY <1>4 DEF Acted
  <2> QED BY <1>1, <1>4, <2>1 DEF Untouched, Creates, Room
<1> QED BY <1>2, <1>3, <1>4

LEMMA UnchangedIsUntouched ==
  ASSUME BatchInv, UNCHANGED <<jobs, late, arrived>>
  PROVE  Untouched
BY DEF BatchInv, JobsInv, Untouched

LEMMA FateKeeps ==
  ASSUME BatchInv, ~ Idle, Fate
  PROVE  /\ Untouched \/ (Created /\ op \in Scans /\ op.stage = "create")
         /\ ~ Creates => Untouched
<1>1. CASE jobs' = Acted /\ UNCHANGED <<late, arrived>>  BY <1>1, ActedKeeps
<1>2. CASE UNCHANGED <<jobs, late, arrived>>  BY <1>2, UnchangedIsUntouched
<1>3. CASE Creates /\ late' = late \union {NewJob} /\ UNCHANGED <<jobs, arrived>>
  <2>1. Suits(op, call.what) /\ op \in Scans \union Looks  BY DEF BatchInv, Control, Idle
  <2>2. op \in Scans /\ op.stage = "create"  BY <1>3, <2>1, Operations DEF Suits, Creates
  <2> QED BY <1>3, <2>2 DEF Created
<1> QED BY <1>1, <1>2, <1>3 DEF Fate

(* An answered listing: the next page, the job, or nothing under the key.   *)
LEMMA ListedKeeps ==
  ASSUME BatchInv, ~ Idle, call.what = "list", UNCHANGED <<backend, jobs, late, arrived, submits>>, Listed(jobs)
  PROVE  BatchInv'
<1> DEFINE p == Page(jobs)
           o == [op EXCEPT !.found = p.found, !.cursor = p.cursor, !.seen = p.seen, !.page = @ + 1]
           up == [op EXCEPT !.stage = "upload"]
<1>1. Untouched  BY UnchangedIsUntouched
<1>2. /\ op \in Scans /\ op.stage \in {"lookup", "reconcile"} /\ backend = "openai"
      /\ op.name \in {"submit", "recover"} /\ op.stage \in {"lookup", "upload", "create", "reconcile"}
  <2>1. Suits(op, call.what) /\ op \in Scans \union Looks  BY DEF BatchInv, Control, Idle
  <2> QED BY <2>1, Operations DEF Suits
<1>3. /\ jobs \in Seq(Jobs) /\ Len(jobs) \in Nat /\ arrived \in Nat
      /\ Keys \in SUBSET (1..Len(jobs)) /\ IsFiniteSet(Keys)
  BY KeysFinite DEF BatchInv, JobsInv
<1>4. /\ p.seen \in 0..Len(jobs) /\ p.cursor \in Nat
      /\ p.more => p.cursor > 1 /\ p.cursor <= p.seen
      /\ ~ p.more => p.cursor <= 1
      /\ ~ p.conflict => /\ {i \in Keys : p.cursor <= i /\ i <= p.seen} = {p.found} \ {0}
                         /\ p.found \in Keys \union {0}
      /\ op.stage = "lookup" => Cardinality(After(p.seen)) <= arrived
  BY <1>2, PageFacts
<1>5. ASSUME NEW why, Fails(why) PROVE BatchInv'
  BY <1>1, <1>5, EndKeeps DEF Fails
<1>6. Keys' = Keys /\ Len(jobs') = Len(jobs) /\ \A n : After(n)' = After(n)
  <2>1. Keys' = Keys  BY DEF Keys
  <2> QED BY <2>1 DEF After
<1>7. CASE p.conflict  BY <1>5, <1>7 DEF Listed
<1>8. CASE ~ p.conflict /\ p.more
  <2>1. Fails("too many pages") \/ Goes(o, "list")  BY <1>8 DEF Listed
  <2>2. ASSUME Goes(o, "list") PROVE BatchInv'
    <3>1. /\ o.found = p.found /\ o.cursor = p.cursor /\ o.seen = p.seen
          /\ o.name = op.name /\ o.stage = op.stage /\ op' = o /\ o \in Scans
      <4>1. op.page + 1 \in Nat /\ op.page \in Nat  BY <1>2 DEF Scans
      <4>2. p.found \in Nat /\ p.seen \in Nat
        <5>1. \A i \in Keys : i \in Nat  BY <1>3
        <5>2. p.found \in Keys \/ p.found = 0  BY <1>4, <1>8
        <5>3. p.found \in Nat
          <6>1. CASE p.found \in Keys  BY <5>1, <6>1
          <6>2. CASE p.found = 0  BY <6>2
          <6> QED BY <5>2, <6>1, <6>2
        <5>4. p.seen \in Nat
          <6>1. p.seen \in 0..Len(jobs)  BY <1>4
          <6> HIDE DEF p
          <6> QED BY <1>3, <6>1
        <5> QED BY <5>3, <5>4
      <4> HIDE DEF p
      <4>3. op' = o  BY <2>2 DEF Goes
      <4> QED BY <1>2, <1>4, <4>1, <4>2, <4>3 DEF Scans
    <3> HIDE DEF o, p
    <3>2. Suits(o, "list")  BY <1>2, <3>1, Operations DEF Suits
    <3>3. Fresh'  BY <1>2, <1>6, <3>1 DEF BatchInv, ScanInv, Fresh
    <3>4. Surveyed'
      <4>1. p.cursor # 0 /\ p.seen <= Len(jobs)  BY <1>3, <1>4, <1>8
      <4>2. {i \in Keys : p.cursor <= i /\ i <= p.seen} = {p.found} \ {0}  BY <1>4, <1>8
      <4> QED BY <1>4, <1>6, <1>8, <3>1, <4>1, <4>2 DEF Surveyed
    <3>5. FewYet'  BY <1>2, <3>1 DEF FewYet
    <3>6. ScanInv'  BY <3>3, <3>4, <3>5 DEF ScanInv
    <3> QED BY <1>1, <2>2, <3>1, <3>2, <3>6, GoKeeps
  <2> QED BY <1>5, <2>1, <2>2
<1>9. CASE ~ p.conflict /\ ~ p.more /\ p.found # 0
  <2>1. RequireRecovered(jobs, p.found)  BY <1>9 DEF Listed
  <2>2. p.found \in 0..Len(jobs')
    <3>1. \A i \in Keys : i \in 0..Len(jobs)  BY <1>3
    <3>2. p.found \in Keys  BY <1>4, <1>9
    <3> QED BY <1>6, <3>1, <3>2
  <2> HIDE DEF p
  <2>3. Fails("conflict") \/ Returns(p.found)  BY <2>1 DEF RequireRecovered
  <2>4. ASSUME Returns(p.found) PROVE BatchInv'  BY <1>1, <2>2, <2>4, EndKeeps DEF Returns
  <2> QED BY <1>5, <2>3, <2>4
<1>10. CASE ~ p.conflict /\ ~ p.more /\ ~ (p.found # 0)
  <2>1. NotFound  BY <1>10 DEF Listed
  <2>2. CASE op.name # "recover" /\ op.stage = "lookup"
    <3>1. Goes(up, "upload")  BY <2>1, <2>2 DEF NotFound
    <3>2. up \in Scans /\ up.stage = "upload" /\ up.name = "submit" /\ op' = up
      <4>1. up \in Scans /\ up.stage = "upload" /\ up.name = op.name  BY <1>2 DEF Scans
      <4> HIDE DEF up
      <4> QED BY <1>2, <2>2, <3>1, <4>1 DEF Goes
    <3> HIDE DEF up
    <3>3. Suits(up, "upload")  BY <3>2, Operations DEF Suits
    <3>4. Fresh'  BY <1>2, <1>6, <2>2, <3>2 DEF BatchInv, ScanInv, Fresh
    <3>5. Surveyed'  BY <3>2 DEF Surveyed
    <3>6. FewYet'
      <4>1. {i \in Keys : p.cursor <= i /\ i <= p.seen} = {}  BY <1>4, <1>10
      <4>2. p.cursor <= 1  BY <1>4, <1>10
      <4>3. \A i \in Keys : i \in Nat /\ i >= 1  BY <1>3
      <4>4. \A i \in Keys : i > p.seen  BY <1>3, <1>4, <4>1, <4>2, <4>3
      <4> HIDE DEF p, Keys
      <4>5. Keys = After(p.seen)  BY <4>4 DEF After
      <4>6. Cardinality(Keys) <= arrived  BY <1>4, <2>2, <4>5
      <4> QED BY <1>6, <4>6 DEF FewYet
    <3>7. ScanInv'  BY <3>4, <3>5, <3>6 DEF ScanInv
    <3> QED BY <1>1, <3>1, <3>2, <3>3, <3>7, GoKeeps
  <2>3. CASE ~ (op.name # "recover" /\ op.stage = "lookup")
    <3>1. \E why \in {"not found", "lost"} : Fails(why)  BY <2>1, <2>3 DEF NotFound
    <3> QED BY <1>5, <3>1
  <2> QED BY <2>2, <2>3
<1> QED BY <1>7, <1>8, <1>9, <1>10

(* A job that was looked at, a cancellation that was taken.                 *)
LEMMA SeenKeeps ==
  ASSUME BatchInv, ~ Idle, call.what = "get", UNCHANGED <<backend, jobs, late, arrived, submits>>, Seen(jobs)
  PROVE  BatchInv'
<1> DEFINE post == [op EXCEPT !.stage = "post"]
           status == jobs[held].status
<1>1. Untouched  BY UnchangedIsUntouched
<1>2. /\ op \in Looks /\ op.stage # "post" /\ op.name \in {"get", "wait", "cancel"} /\ held # 0
      /\ op.name = "cancel" <=> op.stage # "get"
      /\ op.stage \in {"get", "look", "post", "verify"} /\ held \in 0..Len(jobs')
  <2>1. Suits(op, call.what) /\ op \in Scans \union Looks /\ held \in 0..Len(jobs)
    BY DEF BatchInv, Control, Idle
  <2> QED BY <2>1, Operations DEF Suits
<1>3. ASSUME NEW why, Fails(why) PROVE BatchInv'
  BY <1>1, <1>3, EndKeeps DEF Fails
<1>4. ASSUME Returns(held) PROVE BatchInv'
  BY <1>1, <1>2, <1>4, EndKeeps DEF Returns
<1>5. CASE op.name = "wait" /\ ~ Terminal(status)
  <2>1. Goes(op, "get")
    <3>1. op.stage # "look" /\ op.stage # "verify"  BY <1>2, <1>5
    <3> QED BY <1>5, <3>1 DEF Seen
  <2>2. op' = op  BY <2>1 DEF Goes
  <2>3. Suits(op, "get")  BY <1>2, Operations DEF Suits
  <2>4. ScanInv'  BY <1>2, <2>2, Operations, OffScan
  <2> QED BY <1>1, <1>2, <2>1, <2>3, <2>4, GoKeeps
<1>6. CASE op.stage = "look" /\ ~ CancelSeen(status)
  <2>1. op.name = "cancel"  BY <1>2, <1>6
  <2>2. Goes(post, "cancel")  BY <1>6, <2>1 DEF Seen
  <2>3. post \in Looks /\ post.stage = "post" /\ post.name = "cancel"  BY <1>2, <2>1 DEF Looks
  <2> HIDE DEF post
  <2>4. op' = post  BY <2>2 DEF Goes
  <2>5. Suits(post, "cancel")  BY <1>2, <2>3, Operations DEF Suits
  <2>6. ScanInv'  BY <2>3, <2>4, Operations, OffScan
  <2> QED BY <1>1, <2>2, <2>3, <2>5, <2>6, GoKeeps
<1>7. CASE op.stage = "verify" /\ backend = "openai"
  <2>1. op.name = "cancel"  BY <1>2, <1>7
  <2>2. Returns(held) \/ Fails("not cancelled")  BY <1>7, <2>1 DEF Seen
  <2> QED BY <1>3, <1>4, <2>2
<1>8. CASE /\ ~ (op.name = "wait" /\ ~ Terminal(status))
           /\ ~ (op.stage = "look" /\ ~ CancelSeen(status))
           /\ ~ (op.stage = "verify" /\ backend = "openai")
  <2>1. ReturnsHandle(jobs, held)  BY <1>8 DEF Seen
  <2>2. Returns(held) \/ Fails("own validation")  BY <2>1 DEF ReturnsHandle
  <2> QED BY <1>3, <1>4, <2>2
<1> QED BY <1>5, <1>6, <1>7, <1>8

LEMMA CancelledKeeps ==
  ASSUME BatchInv, ~ Idle, call.what = "cancel", UNCHANGED <<backend, submits>>, Untouched, Cancelled
  PROVE  BatchInv'
<1> DEFINE verify == [op EXCEPT !.stage = "verify"]
<1>1. op \in Looks /\ op.stage = "post" /\ op.name = "cancel" /\ held # 0 /\ held \in 0..Len(jobs)
  <2>1. Suits(op, call.what) /\ op \in Scans \union Looks /\ held \in 0..Len(jobs)
    BY DEF BatchInv, Control, Idle
  <2> QED BY <2>1, Operations DEF Suits
<1>2. CASE backend = "gemini"
  <2>1. Goes(verify, "get")  BY <1>2 DEF Cancelled
  <2>2. verify \in Looks /\ verify.stage = "verify" /\ verify.name = "cancel"  BY <1>1 DEF Looks
  <2> HIDE DEF verify
  <2>3. op' = verify  BY <2>1 DEF Goes
  <2>4. Suits(verify, "get")  BY <1>1, <2>2, Operations DEF Suits
  <2>5. ScanInv'  BY <2>2, <2>3, Operations, OffScan
  <2> QED BY <2>1, <2>2, <2>4, <2>5, GoKeeps
<1>3. CASE backend # "gemini"
  <2>1. Returns(held)  BY <1>3 DEF Cancelled
  <2>2. held \in 0..Len(jobs')  BY <1>1 DEF Untouched
  <2> QED BY <2>1, <2>2, EndKeeps DEF Returns
<1> QED BY <1>2, <1>3

LEMMA ServedKeeps ==
  ASSUME BatchInv, Served
  PROVE  BatchInv'
<1> DEFINE create == [op EXCEPT !.stage = "create"]
<1>1. /\ ~ Idle /\ Room /\ jobs' = Acted /\ Succeeds(jobs')
      /\ UNCHANGED <<backend, late, arrived, submits>>
  BY DEF Served, Attempting
<1>2. /\ Untouched \/ (Created /\ op \in Scans /\ op.stage = "create")
      /\ ~ Creates => Untouched
      /\ call.what \notin {"create", "cancel"} => jobs' = jobs
      /\ Creates => Len(jobs') = Len(jobs) + 1 /\ Len(jobs) \in Nat
  BY <1>1, ActedKeeps
<1>3. Suits(op, call.what) /\ op \in Scans \union Looks  BY <1>1 DEF BatchInv, Control, Idle
<1>4. CASE call.what = "list"
  <2>1. jobs' = jobs /\ Listed(jobs)  BY <1>1, <1>2, <1>4 DEF Succeeds
  <2> QED BY <1>1, <1>4, <2>1, ListedKeeps
<1>5. CASE call.what = "upload"
  <2>1. jobs' = jobs /\ Goes(create, "create")  BY <1>1, <1>2, <1>5 DEF Succeeds
  <2>2. op \in Scans /\ op.stage = "upload" /\ op.name = "submit"
    BY <1>3, <1>5, Operations DEF Suits
  <2>3. create \in Scans /\ create.stage = "create" /\ create.name = "submit"
    BY <2>2 DEF Scans
  <2> HIDE DEF create
  <2>4. op' = create  BY <2>1 DEF Goes
  <2>5. Suits(create, "create")  BY <2>3, Operations DEF Suits
  <2>6. Keys' = Keys  BY <2>1 DEF Keys
  <2>7. Fresh'  BY <1>1, <2>1, <2>2, <2>3, <2>4, <2>6 DEF BatchInv, ScanInv, Fresh
  <2>8. backend = "openai" => Surveyed' /\ FewYet'
    BY <1>1, <2>2, <2>3, <2>4, <2>6 DEF BatchInv, ScanInv, Surveyed, FewYet
  <2>9. ScanInv'  BY <1>1, <2>7, <2>8 DEF ScanInv
  <2> QED BY <1>1, <1>2, <2>1, <2>3, <2>5, <2>9, GoKeeps
<1>6. CASE call.what = "create"
  <2>1. Returns(Len(jobs'))  BY <1>1, <1>6 DEF Succeeds
  <2>2. Len(jobs') \in 0..Len(jobs')  BY <1>2, <1>6 DEF Creates
  <2> QED BY <1>1, <1>2, <2>1, <2>2, EndKeeps DEF Returns
<1>7. CASE call.what = "cancel"
  <2>1. Cancelled /\ Untouched  BY <1>1, <1>2, <1>7 DEF Succeeds, Creates
  <2> QED BY <1>1, <1>7, <2>1, CancelledKeeps
<1>8. CASE call.what = "get"
  <2>1. jobs' = jobs /\ Seen(jobs)  BY <1>1, <1>2, <1>8 DEF Succeeds
  <2> QED BY <1>1, <1>8, <2>1, SeenKeeps
<1>9. call.what \in {"list", "upload", "create", "cancel", "get"}
  BY <1>3, Operations DEF Suits
<1> QED BY <1>4, <1>5, <1>6, <1>7, <1>8, <1>9

(* An attempt that failed: a create that may have been acted on is not      *)
(* among the calls that sleep.                                              *)
LEMMA SleepKeeps ==
  ASSUME BatchInv, ~ Idle, UNCHANGED <<backend, submits, op, held, told>>, Untouched,
         call' \in Calls, TimeKept(call'), call'.what = call.what,
         call'.nonIdempotent = call.nonIdempotent, call'.attempts = call.attempts
  PROVE  BatchInv'
<1>1. JobsInv' /\ Len(jobs) \in Nat /\ Len(jobs') \in Nat /\ Len(jobs') >= Len(jobs)  BY JobsKeep
<1>2. Control'  BY <1>1, StaysThere
<1>3. /\ Keys' = Keys /\ \A i \in Keys : jobs'[i].submit = jobs[i].submit
      /\ late' = late /\ arrived' = arrived /\ Len(jobs') = Len(jobs)
  BY UntouchedKeys DEF BatchInv, JobsInv, Untouched
<1>4. Fresh'  BY <1>3 DEF BatchInv, ScanInv, Fresh
<1>5. backend = "openai" => Surveyed'  BY <1>3 DEF BatchInv, ScanInv, Surveyed, After
<1>6. backend = "openai" => FewYet'  BY <1>3 DEF BatchInv, ScanInv, FewYet
<1> QED BY <1>1, <1>2, <1>4, <1>5, <1>6 DEF BatchInv, ScanInv

LEMMA FailureKeeps ==
  ASSUME BatchInv, Attempting, UNCHANGED <<backend, submits>>,
         NEW failure \in {"429", "dial", "broken", "500"}, NEW hint \in Nat, NEW time \in {0, 1},
         AttemptFails(failure, hint, time),
         Fate, failure \in {"429", "dial"} => UNCHANGED <<jobs, late, arrived>>
  PROVE  BatchInv'
<1> DEFINE c == Spend(call, time)
<1>1. ~ Idle  BY DEF Attempting
<1>2. call \in Calls /\ TimeKept(call)  BY <1>1 DEF BatchInv, Control
<1>3. /\ Untouched \/ (Created /\ op \in Scans /\ op.stage = "create")
      /\ ~ Creates => Untouched
  BY <1>1, FateKeeps
<1>4. /\ c \in Calls /\ c.what = call.what /\ c.nonIdempotent = call.nonIdempotent
      /\ c.attempts = call.attempts
  BY <1>2, SpendKept
<1>5. (\E a \in Asleep(c, failure, hint) : call' = a /\ UNCHANGED <<op, held, told>>) \/ Unanswered(FALSE)
  BY DEF AttemptFails
<1> HIDE DEF c
<1>6. CASE Unanswered(FALSE)
  <2>1. PICK done \in BOOLEAN : done = FALSE  OBVIOUS
  <2> QED BY <1>1, <1>3, <1>6, <2>1, UnansweredKeeps
<1>7. ASSUME NEW a \in Asleep(c, failure, hint), call' = a, UNCHANGED <<op, held, told>>
      PROVE  BatchInv'
  <2>1. /\ a \in Calls /\ TimeKept(a) /\ a.what = c.what /\ a.nonIdempotent = c.nonIdempotent
        /\ a.attempts = c.attempts /\ c.attempts > 1 /\ Resendable(c, failure)
    BY <1>4, AsleepKept
  <2>2. Untouched
    <3>1. CASE failure \in {"429", "dial"}  BY <3>1, UnchangedIsUntouched
    <3>2. CASE failure \in {"broken", "500"}
      <4>1. ~ c.nonIdempotent
        <5>1. CASE failure = "broken"  BY <2>1, <5>1 DEF Resendable
        <5>2. CASE failure = "500"  BY <2>1, <5>2 DEF Resendable, IdempotentSafeStatus
        <5> QED BY <3>2, <5>1, <5>2
      <4>2. Creates => IF backend = "openai" THEN call.attempts = 1 ELSE call.nonIdempotent
        BY <1>1 DEF BatchInv, Control
      <4>3. ~ Creates  BY <1>4, <2>1, <4>1, <4>2
      <4> QED BY <1>3, <4>3
    <3> QED BY <3>1, <3>2
  <2>3. TimeKept(call')  BY <1>7, <2>1
  <2> QED BY <1>1, <1>4, <1>7, <2>1, <2>2, <2>3, SleepKeeps
<1> QED BY <1>5, <1>6, <1>7

LEMMA WakesKeeps ==
  ASSUME BatchInv, Wakes
  PROVE  BatchInv'
<1>1. /\ ~ Idle /\ call.wait > 0 /\ call' = Awake(call)
      /\ UNCHANGED <<backend, jobs, late, arrived, submits, op, held, told>>
  BY DEF Wakes
<1>2. call \in Calls /\ TimeKept(call)  BY <1>1 DEF BatchInv, Control
<1>3. /\ Awake(call) \in Calls /\ TimeKept(Awake(call)) /\ Awake(call).what = call.what
      /\ Awake(call).nonIdempotent = call.nonIdempotent /\ Awake(call).attempts = call.attempts
  BY <1>1, <1>2, AwakeKept
<1>4. Untouched  BY <1>1, UnchangedIsUntouched
<1>5. TimeKept(call')  BY <1>1, <1>3
<1> QED BY <1>1, <1>3, <1>4, <1>5, SleepKeeps

(* The provider and others move by themselves.                              *)
LEMMA ProgressKeeps ==
  ASSUME BatchInv, NEW i \in DOMAIN jobs, Progress(i)
  PROVE  BatchInv'
<1>1. UNCHANGED <<backend, late, arrived, submits, op, call, held, told>>  BY DEF Progress
<1>2. PICK s \in {"completed", "cancelled"} : jobs' = [jobs EXCEPT ![i].status = s]
  <2>1. PICK m \in {<<"running", "completed">>, <<"cancelling", "completed">>, <<"cancelling", "cancelled">>} :
           jobs' = [jobs EXCEPT ![i].status = m[2]]
    BY DEF Progress
  <2>2. m[2] \in {"completed", "cancelled"}  OBVIOUS
  <2> QED BY <2>1, <2>2
<1>3. jobs \in Seq(Jobs)  BY DEF BatchInv, JobsInv
<1>4. Untouched
  <2>1. jobs[i] \in Jobs  BY <1>3
  <2>2. PICK j : j = [jobs[i] EXCEPT !.status = s]  OBVIOUS
  <2>3. j \in Jobs /\ j.key = jobs[i].key /\ j.submit = jobs[i].submit  BY <2>1, <2>2 DEF Jobs
  <2>4. jobs' = [jobs EXCEPT ![i] = j]  BY <1>2, <2>2
  <2>5. /\ jobs' \in Seq(Jobs) /\ Len(jobs') = Len(jobs)
        /\ \A k \in DOMAIN jobs : jobs'[k] = IF k = i THEN j ELSE jobs[k]
    BY <1>3, <2>3, <2>4
  <2> QED BY <1>1, <2>3, <2>5 DEF Untouched
<1>5. JobsInv' /\ Len(jobs) \in Nat /\ Len(jobs') \in Nat /\ Len(jobs') >= Len(jobs)
  BY <1>1, <1>4, JobsKeep
<1>6. Control'  BY <1>1, <1>5, StaysThere
<1>7. /\ Keys' = Keys /\ (\A k \in Keys : jobs'[k].submit = jobs[k].submit) /\ Len(jobs') = Len(jobs)
  BY <1>3, <1>4, UntouchedKeys DEF Untouched
<1>8. Fresh'  BY <1>1, <1>7 DEF BatchInv, ScanInv, Fresh
<1>9. backend = "openai" => Surveyed'  BY <1>1, <1>7 DEF BatchInv, ScanInv, Surveyed, After
<1>10. backend = "openai" => FewYet'  BY <1>1, <1>7 DEF BatchInv, ScanInv, FewYet
<1> QED BY <1>1, <1>5, <1>6, <1>8, <1>9, <1>10 DEF BatchInv, ScanInv

LEMMA ArrivalKeeps ==
  ASSUME BatchInv, NEW j \in Jobs, jobs' = Append(jobs, j), UNCHANGED <<backend, submits, op, call, held, told>>,
         IF j.key = "mine" THEN j \in late /\ late' = late \ {j} /\ arrived' = arrived + 1
                           ELSE UNCHANGED <<late, arrived>>
  PROVE  BatchInv'
<1> DEFINE new == Len(jobs) + 1
<1>1. /\ jobs \in Seq(Jobs) /\ late \subseteq Jobs /\ arrived \in Nat /\ submits \in Nat /\ Made
      /\ backend \in {"openai", "anthropic", "gemini"}
      /\ backend = "openai" => Cardinality(Keys) <= 1 + arrived
  BY DEF BatchInv, JobsInv
<1>2. /\ Len(jobs) \in Nat /\ DOMAIN jobs = 1..Len(jobs) /\ Keys \in SUBSET (1..Len(jobs))
      /\ IsFiniteSet(Keys) /\ Cardinality(Keys) \in Nat
  BY <1>1, KeysFinite
<1>3. /\ jobs' \in Seq(Jobs) /\ Len(jobs') = Len(jobs) + 1
      /\ \A i \in DOMAIN jobs : i \in DOMAIN jobs' /\ jobs'[i] = jobs[i]
      /\ new \notin Keys /\ jobs'[new] = j
      /\ Keys' = Keys \union (IF j.key = "mine" THEN {new} ELSE {})
  BY <1>1, AddedKeys
<1>4. \A i \in Keys : jobs'[i] = jobs[i]  BY <1>3 DEF Keys
<1>5. /\ late' \subseteq late /\ arrived' \in Nat /\ arrived' >= arrived
      /\ j.key = "mine" => j \in late /\ j \notin late' /\ arrived' = arrived + 1
      /\ j.key # "mine" => arrived' = arrived
  BY <1>1
<1>6. new \in Nat /\ new > Len(jobs)  BY <1>2
<1> HIDE DEF new
<1>7. ASSUME j.key = "mine" PROVE /\ j.submit <= submits
                                  /\ \A i \in Keys : jobs[i].submit # j.submit
                                  /\ \A l \in late' : l.submit # j.submit
  BY <1>1, <1>5, <1>7 DEF Made
<1>8. \A i \in Keys' : i \in Keys \/ (i = new /\ j.key = "mine")  BY <1>3
<1>9. Made'
  <2>1. \A i \in Keys' : jobs'[i].submit <= submits'
    <3>1. \A i \in Keys : jobs[i].submit <= submits  BY <1>1 DEF Made
    <3> QED BY <1>3, <1>4, <1>7, <1>8, <3>1
  <2>2. ASSUME NEW x \in Keys', NEW y \in Keys', jobs'[x].submit = jobs'[y].submit PROVE x = y
    <3>1. \A a, b \in Keys : jobs[a].submit = jobs[b].submit => a = b  BY <1>1 DEF Made
    <3>2. CASE x \in Keys /\ y \in Keys  BY <1>4, <2>2, <3>1, <3>2
    <3>3. CASE x \in Keys /\ y = new /\ j.key = "mine"  BY <1>3, <1>4, <1>7, <2>2, <3>3
    <3>4. CASE y \in Keys /\ x = new /\ j.key = "mine"  BY <1>3, <1>4, <1>7, <2>2, <3>4
    <3> QED BY <1>8, <3>2, <3>3, <3>4
  <2>3. ASSUME NEW l \in late'
        PROVE  l.key = "mine" /\ l.submit <= submits' /\ \A i \in Keys' : jobs'[i].submit # l.submit
    <3>1. l.key = "mine" /\ l.submit <= submits /\ \A i \in Keys : jobs[i].submit # l.submit
      BY <1>1, <1>5 DEF Made
    <3> QED BY <1>3, <1>4, <1>7, <1>8, <3>1
  <2>4. \A l, m \in late' : l.submit = m.submit => l = m  BY <1>1, <1>5 DEF Made
  <2> QED BY <2>1, <2>2, <2>3, <2>4 DEF Made
<1>10. JobsInv'
  <2>1. backend = "openai" => Cardinality(Keys') <= 1 + arrived'
    <3>1. CASE j.key = "mine"
      <4>1. Cardinality(Keys \union {new}) = Cardinality(Keys) + 1  BY <1>1, <1>3, OneMoreKey
      <4> QED BY <1>1, <1>2, <1>3, <1>5, <3>1, <4>1
    <3>2. CASE j.key # "mine"
      <4>1. Keys' = Keys /\ arrived' = arrived  BY <1>3, <1>5, <3>2
      <4> QED BY <1>1, <4>1
    <3> QED BY <3>1, <3>2
  <2> QED BY <1>1, <1>3, <1>5, <1>9, <2>1 DEF JobsInv
<1>11. Control'
  <2>1. Len(jobs') \in Nat /\ Len(jobs') >= Len(jobs)  BY <1>2, <1>3
  <2> QED BY <1>2, <2>1, StaysThere
<1>12. Fresh'
  <2>1. SUFFICES ASSUME op \in Scans, op.name = "submit", op.stage # "reconcile"
                 PROVE  /\ \A i \in Keys' : jobs'[i].submit # submits
                        /\ \A l \in late' : l.submit # submits
    BY DEF Fresh
  <2>2. (\A i \in Keys : jobs[i].submit # submits) /\ \A l \in late : l.submit # submits
    BY <2>1 DEF BatchInv, ScanInv, Fresh
  <2> QED BY <1>3, <1>4, <1>5, <1>8, <2>2
<1>13. backend = "openai" => Surveyed'
  <2>1. SUFFICES ASSUME backend = "openai", op \in Scans, op.stage \in {"lookup", "reconcile"}, op.cursor # 0
                 PROVE  /\ op.cursor > 1 /\ op.cursor <= op.seen /\ op.seen <= Len(jobs')
                        /\ {i \in Keys' : op.cursor <= i /\ i <= op.seen} = {op.found} \ {0}
                        /\ op.stage = "lookup" => Cardinality(After(op.seen)') <= arrived'
    BY DEF BatchInv, ScanInv, Surveyed, After
  <2>2. /\ op.cursor > 1 /\ op.cursor <= op.seen /\ op.seen <= Len(jobs)
        /\ {i \in Keys : op.cursor <= i /\ i <= op.seen} = {op.found} \ {0}
        /\ op.stage = "lookup" => Cardinality(After(op.seen)) <= arrived
    BY <2>1 DEF BatchInv, ScanInv, Surveyed
  <2>3. op.seen \in Nat /\ op.cursor \in Nat  BY <2>1 DEF Scans
  <2>4. ~ (new <= op.seen) /\ new > op.seen /\ op.seen <= Len(jobs')  BY <1>2, <1>3, <1>6, <2>2, <2>3
  <2>5. {i \in Keys' : op.cursor <= i /\ i <= op.seen} = {i \in Keys : op.cursor <= i /\ i <= op.seen}
    BY <1>3, <1>8, <2>4
  <2>6. op.stage = "lookup" => Cardinality(After(op.seen)') <= arrived'
    <3>1. CASE j.key = "mine"
      <4>1. After(op.seen)' = After(op.seen) \union {new}  BY <1>3, <2>4, <3>1 DEF After
      <4>2. After(op.seen) \subseteq Keys /\ new \notin After(op.seen)  BY <1>3 DEF After
      <4>3. IsFiniteSet(After(op.seen))  BY <1>2, <4>2, FS_Subset
      <4>4. Cardinality(After(op.seen)) \in Nat  BY <4>3, FS_CardinalityType
      <4>5. Cardinality(After(op.seen) \union {new}) = Cardinality(After(op.seen)) + 1
        BY <4>2, <4>3, FS_AddElement
      <4> QED BY <1>1, <1>5, <2>2, <3>1, <4>1, <4>4, <4>5
    <3>2. CASE j.key # "mine"
      <4>1. After(op.seen)' = After(op.seen) /\ arrived' = arrived  BY <1>3, <1>5, <3>2 DEF After
      <4> QED BY <2>2, <4>1
    <3> QED BY <3>1, <3>2
  <2> QED BY <2>2, <2>4, <2>5, <2>6
<1>14. backend = "openai" => FewYet'
  <2>1. SUFFICES ASSUME backend = "openai", op \in Scans, op.stage \in {"upload", "create"}
                 PROVE  Cardinality(Keys') <= arrived'
    BY DEF FewYet
  <2>2. Cardinality(Keys) <= arrived  BY <2>1 DEF BatchInv, ScanInv, FewYet
  <2>3. CASE j.key = "mine"
    <3>1. Cardinality(Keys \union {new}) = Cardinality(Keys) + 1  BY <1>1, <1>3, OneMoreKey
    <3> QED BY <1>1, <1>2, <1>3, <1>5, <2>2, <2>3, <3>1
  <2>4. CASE j.key # "mine"
    <3>1. Keys' = Keys /\ arrived' = arrived  BY <1>3, <1>5, <2>4
    <3> QED BY <2>2, <3>1
  <2> QED BY <2>3, <2>4
<1>15. UNCHANGED backend  OBVIOUS
<1> QED BY <1>10, <1>11, <1>12, <1>13, <1>14, <1>15 DEF BatchInv, ScanInv

LEMMA LateKeeps ==
  ASSUME BatchInv, NEW j \in late, LateCreate(j)
  PROVE  BatchInv'
<1>1. late' = late \ {j} /\ UNCHANGED <<backend, submits, op, call, held, told>>  BY DEF LateCreate
<1>2. j \in Jobs /\ j.key = "mine"  BY DEF BatchInv, JobsInv, Made
<1>3. CASE jobs' = Append(jobs, j) /\ arrived' = arrived + 1  BY <1>1, <1>2, <1>3, ArrivalKeeps
<1>4. CASE UNCHANGED <<jobs, arrived>>
  <2>1. Keys' = Keys  BY <1>4 DEF Keys
  <2>2. late' \subseteq late  BY <1>1
  <2>3. Made'  BY <1>1, <1>4, <2>1, <2>2 DEF BatchInv, JobsInv, Made
  <2>4. JobsInv'  BY <1>1, <1>4, <2>1, <2>2, <2>3 DEF BatchInv, JobsInv
  <2>5. Len(jobs) \in Nat /\ Len(jobs') \in Nat /\ Len(jobs') >= Len(jobs)
    BY <1>4 DEF BatchInv, JobsInv
  <2>6. Control'  BY <1>1, <2>5, StaysThere
  <2>7. Fresh'  BY <1>1, <1>4, <2>1, <2>2 DEF BatchInv, ScanInv, Fresh
  <2>8. backend = "openai" => Surveyed' /\ FewYet'
    BY <1>1, <1>4, <2>1 DEF BatchInv, ScanInv, Surveyed, FewYet, After
  <2> QED BY <1>1, <2>4, <2>6, <2>7, <2>8 DEF BatchInv, ScanInv
<1> QED BY <1>3, <1>4 DEF LateCreate

LEMMA OthersKeep ==
  ASSUME BatchInv, OtherSubmits
  PROVE  BatchInv'
<1>1. jobs' = Append(jobs, OthersJob) /\ UNCHANGED <<backend, late, arrived, submits, op, call, held, told>>
  BY DEF OtherSubmits
<1>2. OthersJob \in Jobs /\ OthersJob.key # "mine"
  <2>1. PICK zero \in Nat : zero = 0  OBVIOUS
  <2>2. OthersJob = [key |-> "other", digest |-> "none", submit |-> zero, status |-> "completed", big |-> FALSE]
    BY <2>1 DEF OthersJob
  <2> QED BY <2>2 DEF Jobs
<1> QED BY <1>1, <1>2, ArrivalKeeps

(* Starting.                                                                *)
LEMMA StartsKeep ==
  ASSUME BatchInv, (\E d \in Digests : Submit(d)) \/ (\E d \in Digests : SubmitInline(d))
                   \/ Recover \/ (\E n \in {"get", "wait"} : Get(n)) \/ Cancel \/ CancelDirectly
  PROVE  BatchInv'
<1>1. ASSUME NEW name \in {"submit", "recover"}, NEW d \in Digests \union {"none"}, NEW stage \in {"lookup", "create"}
      PROVE  LET o == Scan(name, d, stage)
             IN  o \in Scans /\ o.name = name /\ o.stage = stage /\ o.found = 0 /\ o.cursor = 0
  <2>1. PICK zero \in Nat : zero = 0  OBVIOUS
  <2>2. Scan(name, d, stage) = [name |-> name, digest |-> d, stage |-> stage,
                                found |-> zero, cursor |-> zero, seen |-> zero, page |-> zero]
    BY <2>1 DEF Scan
  <2> QED BY <2>1, <2>2 DEF Scans
<1>2. ASSUME NEW d \in Digests, Submit(d) PROVE BatchInv'
  <2> DEFINE o == Scan("submit", d, "lookup")
  <2>1. o \in Scans /\ o.name = "submit" /\ o.stage = "lookup" /\ o.found = 0 /\ o.cursor = 0  BY <1>1
  <2>2. /\ Idle /\ backend = "openai" /\ submits' = submits + 1 /\ Starts(o, "list")
        /\ UNCHANGED <<backend, jobs, late, arrived>>
    BY <1>2 DEF Submit
  <2> HIDE DEF o
  <2>3. Suits(o, "list")  BY <2>1, <2>2, Operations DEF Suits
  <2> QED BY <2>1, <2>2, <2>3, StartKeeps
<1>3. ASSUME NEW d \in Digests, SubmitInline(d) PROVE BatchInv'
  <2> DEFINE o == Scan("submit", d, "create")
  <2>1. o \in Scans /\ o.name = "submit" /\ o.stage = "create" /\ o.found = 0 /\ o.cursor = 0  BY <1>1
  <2>2. /\ Idle /\ backend # "openai" /\ submits' = submits + 1 /\ Starts(o, "create")
        /\ UNCHANGED <<backend, jobs, late, arrived>>
    BY <1>3 DEF SubmitInline
  <2> HIDE DEF o
  <2>3. Suits(o, "create")  BY <2>1, <2>2, Operations DEF Suits
  <2> QED BY <2>1, <2>2, <2>3, StartKeeps
<1>4. CASE Recover
  <2> DEFINE o == Scan("recover", "none", "lookup")
  <2>1. o \in Scans /\ o.name = "recover" /\ o.stage = "lookup" /\ o.found = 0 /\ o.cursor = 0  BY <1>1
  <2>2. /\ Idle /\ backend = "openai" /\ submits' = submits /\ Starts(o, "list")
        /\ UNCHANGED <<backend, jobs, late, arrived>>
    BY <1>4 DEF Recover
  <2> HIDE DEF o
  <2>3. Suits(o, "list")  BY <2>1, <2>2, Operations DEF Suits
  <2> QED BY <2>1, <2>2, <2>3, StartKeeps
<1>5. ASSUME NEW name \in {"get", "wait", "cancel"}, NEW stage \in {"get", "look", "post"},
             NEW what \in {"get", "cancel"}, name = "cancel" <=> stage # "get",
             what = (IF stage = "post" THEN "cancel" ELSE "get"), held # 0, Idle,
             Starts([name |-> name, stage |-> stage], what),
             UNCHANGED <<backend, jobs, late, arrived, submits>>
      PROVE  BatchInv'
  <2>1. PICK o : o = [name |-> name, stage |-> stage]  OBVIOUS
  <2>2. o \in Looks /\ o.name = name /\ o.stage = stage  BY <2>1 DEF Looks
  <2>3. o \notin Scans  BY <2>2, Operations
  <2>4. Suits(o, what)  BY <1>5, <2>2, <2>3 DEF Suits
  <2>5. Starts(o, what)  BY <1>5, <2>1
  <2> QED BY <1>5, <2>2, <2>3, <2>4, <2>5, StartKeeps
<1>6. ASSUME NEW n \in {"get", "wait"}, Get(n) PROVE BatchInv'  BY <1>5, <1>6 DEF Get
<1>7. CASE Cancel  BY <1>5, <1>7 DEF Cancel
<1>8. CASE CancelDirectly  BY <1>5, <1>8 DEF CancelDirectly
<1> QED BY <1>2, <1>3, <1>4, <1>6, <1>7, <1>8

LEMMA BatchStep ==
  ASSUME BatchInv, [Next]_vars
  PROVE  BatchInv'
<1>1. ASSUME Garbled PROVE BatchInv'
  <2>1. ~ Idle /\ jobs' = Acted /\ Unanswered(FALSE) /\ UNCHANGED <<backend, late, arrived, submits>>
    BY <1>1 DEF Garbled, Attempting
  <2>2. PICK done \in BOOLEAN : done = FALSE  OBVIOUS
  <2> QED BY <2>1, <2>2, ActedKeeps, UnansweredKeeps
<1>2. ASSUME Refused PROVE BatchInv'
  <2>1. ~ Idle /\ Unanswered(FALSE) /\ UNCHANGED <<backend, jobs, late, arrived, submits>>
    BY <1>2 DEF Refused, Attempting
  <2>2. PICK done \in BOOLEAN : done = FALSE  OBVIOUS
  <2> QED BY <2>1, <2>2, UnchangedIsUntouched, UnansweredKeeps
<1>3. ASSUME NEW h \in Hints, Busy(h) PROVE BatchInv'
  <2>1. h \in Nat  BY Lefts
  <2> QED BY <1>3, <2>1, FailureKeeps DEF Busy, Fate
<1>4. ASSUME NoConnection PROVE BatchInv'
  BY <1>4, FailureKeeps DEF NoConnection, Fate
<1>5. ASSUME NEW f \in {"broken", "500"}, NEW t \in {0, 1}, Broken(f, t) PROVE BatchInv'
  BY <1>5, FailureKeeps DEF Broken
<1>6. ASSUME ContextDone PROVE BatchInv'
  <2>1. ~ Idle /\ Unanswered(TRUE) /\ UNCHANGED <<backend, submits>>  BY <1>6 DEF ContextDone
  <2>2. Untouched \/ (Created /\ op \in Scans /\ op.stage = "create")
    <3>1. UNCHANGED <<jobs, late, arrived>> \/ Fate  BY <1>6 DEF ContextDone
    <3> QED BY <2>1, <3>1, UnchangedIsUntouched, FateKeeps
  <2>3. PICK done \in BOOLEAN : done = TRUE  OBVIOUS
  <2> QED BY <2>1, <2>2, <2>3, UnansweredKeeps
<1>7. ASSUME UNCHANGED vars PROVE BatchInv'
  <2>1. UNCHANGED <<backend, jobs, late, arrived, submits, op, call, held, told>>  BY <1>7 DEF vars
  <2> QED BY <2>1 DEF BatchInv, JobsInv, Control, ScanInv, Made, Keys, Fresh, Surveyed, After, FewYet,
                      Idle, Creates, Suits, TimeKept, MayWait, Allows, SleepOutlastsDeadline
<1> QED BY <1>1, <1>2, <1>3, <1>4, <1>5, <1>6, <1>7, StartsKeep, ServedKeeps, WakesKeeps,
           ProgressKeeps, LateKeeps, OthersKeep DEF Next

LEMMA BatchInitially == DeliveryInit => BatchInv
<1> SUFFICES ASSUME DeliveryInit PROVE BatchInv  OBVIOUS
<1>1. /\ backend \in Backends /\ jobs = <<>> /\ late = {} /\ arrived = 0 /\ submits = 0
      /\ op = NoOp /\ call = NoCall /\ held = 0 /\ told = NoAnswer
  BY DEF DeliveryInit, Init
<1>2. Len(jobs) = 0 /\ jobs \in Seq(Jobs) /\ Keys = {}  BY <1>1 DEF Keys
<1>3. Cardinality(Keys) = 0  BY <1>2, FS_EmptySet
<1>4. Made  BY <1>1, <1>2 DEF Made
<1>5. JobsInv  BY <1>1, <1>2, <1>3, <1>4, BatchAssumption DEF JobsInv, BatchAssumption
<1>6. Control  BY <1>1, <1>2 DEF Control, Idle
<1>7. ScanInv  BY <1>1, Operations DEF ScanInv, Fresh, Surveyed, FewYet
<1> QED BY <1>5, <1>6, <1>7 DEF BatchInv

LEMMA BatchKept == BatchInv /\ [DeliveryNext]_deliveryVars => BatchInv'
<1> SUFFICES ASSUME BatchInv, [DeliveryNext]_deliveryVars PROVE BatchInv'  OBVIOUS
<1>1. [Next]_vars  BY DEF DeliveryNext, Batching, Serving, deliveryVars
<1> QED BY <1>1, BatchStep

(* The inductive invariant of the batch clients: what their operations are  *)
(* about, what has been made, and what a lookup has seen.                   *)
THEOREM BatchInvariant == DeliverySpec => []BatchInv
BY BatchInitially, BatchKept, PTL DEF DeliverySpec

(* However often a caller submits under a recovery key, there is one job    *)
(* for it, and one more only for each create that arrived after it had been *)
(* given up; and a Submit makes at most one job.                            *)
THEOREM SubmitsOnce == DeliverySpec => []OneJobPerRecoveryKey
<1>1. ASSUME BatchInv PROVE OneJobPerRecoveryKey
  <2>1. Keyed(Len(jobs)) = Keys
    <3>1. DOMAIN jobs = 1..Len(jobs)  BY <1>1 DEF BatchInv, JobsInv
    <3> QED BY <3>1 DEF Keyed, Keys
  <2>2. /\ backend = "openai" => Cardinality(Keys) <= 1 + arrived
        /\ \A i, j \in Keys : jobs[i].submit = jobs[j].submit => i = j
    BY <1>1 DEF BatchInv, JobsInv, Made
  <2> QED BY <2>1, <2>2 DEF OneJobPerRecoveryKey
<1> QED BY <1>1, BatchInvariant, PTL

(* No attempt of a batch call starts after its number, the retry budget or  *)
(* the deadline, and a wait is between the provider's hint and the caps,    *)
(* and shorter than the policy's own delay for no hint.                     *)
THEOREM RetriesInTime == DeliverySpec => []RetriesKeepTheirTime
<1>1. ASSUME BatchInv PROVE RetriesKeepTheirTime
  BY <1>1 DEF BatchInv, Control, RetriesKeepTheirTime, TimeKept
<1> QED BY <1>1, BatchInvariant, PTL

(* The step of ToldTheTruth.                                                *)
Truth == /\ call.what = "list" /\ told'.op = op.name /\ told'.ok
              => /\ Keyed(IF op.cursor = 0 THEN Len(jobs) ELSE op.seen) = {told'.job}
                 /\ op.name = "submit" => jobs[told'.job].digest = op.digest
         /\ op.name = "cancel" /\ backend = "openai" /\ told'.op = "cancel" =>
              /\ told'.ok => CancelSeen(jobs'[held].status)
              /\ told'.why = "not cancelled" => ~ CancelSeen(jobs[held].status)
              /\ told'.why = "call" => call.what = "get"

LEMMA NothingTold ==
  ASSUME BatchInv, told' = told \/ Idle
  PROVE  Truth
<1>1. CASE Idle
  <2>1. call.what = "none" /\ op.name = "none"  BY <1>1 DEF BatchInv, Control, Idle, NoCall, NoOp
  <2> QED BY <2>1 DEF Truth
<1>2. CASE ~ Idle /\ told' = told
  <2>1. told' = NoAnswer  BY <1>2 DEF BatchInv, Control
  <2>2. ~ told'.ok /\ told'.op = "none"  BY <2>1 DEF NoAnswer
  <2> QED BY <2>2 DEF Truth
<1> QED BY <1>1, <1>2

LEMMA FailureTold ==
  ASSUME NEW why, Fails(why), why # "not cancelled",
         why = "call" /\ op.name = "cancel" /\ backend = "openai" => call.what = "get"
  PROVE  Truth
<1>1. ~ told'.ok /\ told'.why = why  BY DEF Fails, Ends
<1> QED BY <1>1 DEF Truth

LEMMA UnansweredTold ==
  ASSUME BatchInv, ~ Idle, NEW done \in BOOLEAN, Unanswered(done)
  PROVE  Truth
<1>1. Suits(op, call.what) /\ op \in Scans \union Looks  BY DEF BatchInv, Control, Idle
<1>2. ASSUME NEW o, NEW what, Goes(o, what) PROVE Truth
  BY <1>2, NothingTold DEF Goes
<1>3. CASE done  BY <1>3, FailureTold DEF Unanswered
<1>4. CASE ~ done /\ backend # "openai"  BY <1>4, FailureTold DEF Unanswered
<1>5. CASE ~ done /\ backend = "openai"
  <2>1. CASE call.what = "create"  BY <1>2, <1>5, <2>1 DEF Unanswered
  <2>2. CASE call.what = "cancel"  BY <1>2, <1>5, <2>2 DEF Unanswered
  <2>3. CASE call.what \notin {"create", "cancel"}
    <3>1. Fails("call")  BY <1>5, <2>3 DEF Unanswered
    <3>2. op.name = "cancel" => call.what = "get"
      <4>1. op.name = "cancel" => op \in Looks  BY <1>1, Operations
      <4> QED BY <1>1, <2>3, <4>1 DEF Suits
    <3> QED BY <3>1, <3>2, FailureTold
  <2> QED BY <2>1, <2>2, <2>3
<1> QED BY <1>3, <1>4, <1>5

LEMMA ListedTold ==
  ASSUME BatchInv, ~ Idle, call.what = "list", Listed(jobs)
  PROVE  Truth
<1> DEFINE p == Page(jobs)
<1>1. /\ op \in Scans /\ op.stage \in {"lookup", "reconcile"} /\ backend = "openai"
      /\ op.name \in {"submit", "recover"}
  <2>1. Suits(op, call.what) /\ op \in Scans \union Looks  BY DEF BatchInv, Control, Idle
  <2> QED BY <2>1, Operations DEF Suits
<1>2. /\ jobs \in Seq(Jobs) /\ Len(jobs) \in Nat /\ DOMAIN jobs = 1..Len(jobs)
      /\ Keys \in SUBSET (1..Len(jobs))
  BY KeysFinite DEF BatchInv, JobsInv
<1>3. /\ p.seen = (IF op.cursor = 0 THEN Len(jobs) ELSE op.seen)
      /\ p.seen \in 0..Len(jobs)
      /\ ~ p.more => p.cursor <= 1
      /\ ~ p.conflict => /\ {i \in Keys : p.cursor <= i /\ i <= p.seen} = {p.found} \ {0}
                         /\ p.found \in Keys \union {0}
      /\ p.cursor \in Nat
  BY <1>1, PageFacts
<1>4. ASSUME NEW o, NEW what, Goes(o, what) PROVE Truth
  BY <1>4, NothingTold DEF Goes
<1>5. ASSUME NEW why \in {"conflict", "too many pages", "not found", "lost"}, Fails(why) PROVE Truth
  BY <1>5, FailureTold
<1>6. CASE p.conflict  BY <1>5, <1>6 DEF Listed
<1>7. CASE ~ p.conflict /\ p.more
  <2>1. (\E o : Goes(o, "list")) \/ Fails("too many pages")  BY <1>7 DEF Listed
  <2> QED BY <1>4, <1>5, <2>1
<1>8. CASE ~ p.conflict /\ ~ p.more /\ p.found # 0
  <2>1. RequireRecovered(jobs, p.found)  BY <1>8 DEF Listed
  <2>2. CASE op.name = "submit" /\ jobs[p.found].digest # op.digest
    BY <1>5, <2>1, <2>2 DEF RequireRecovered
  <2>3. CASE ~ (op.name = "submit" /\ jobs[p.found].digest # op.digest)
    <3>1. told' = [op |-> op.name, ok |-> TRUE, job |-> p.found, why |-> "none"]
      BY <2>1, <2>3 DEF RequireRecovered, Returns, Ends
    <3>2. told'.job = p.found /\ told'.op # "cancel"
      <4> HIDE DEF p
      <4> QED BY <1>1, <3>1
    <3>3. {i \in Keys : p.cursor <= i /\ i <= p.seen} = {p.found} /\ p.cursor <= 1
      BY <1>3, <1>8
    <3>4. Keyed(p.seen) = {p.found}
      <4>1. \A i \in Keys : i \in Nat /\ p.cursor <= i  BY <1>2, <1>3, <3>3
      <4>2. Keyed(p.seen) = {i \in Keys : i <= p.seen}  BY <1>2, <1>3 DEF Keyed, Keys
      <4> HIDE DEF p, Keys
      <4> QED BY <3>3, <4>1, <4>2
    <3>5. op.name = "submit" => jobs[told'.job].digest = op.digest
      <4> HIDE DEF p
      <4> QED BY <2>3, <3>2
    <3>6. op.name # "cancel"  BY <1>1
    <3> HIDE DEF p
    <3> QED BY <1>3, <3>2, <3>4, <3>5, <3>6 DEF Truth
  <2> QED BY <2>2, <2>3
<1>9. CASE ~ p.conflict /\ ~ p.more /\ ~ (p.found # 0)
  <2>1. NotFound  BY <1>9 DEF Listed
  <2>2. (\E o : Goes(o, "upload")) \/ Fails("not found") \/ Fails("lost")  BY <2>1 DEF NotFound
  <2> QED BY <1>4, <1>5, <2>2
<1> QED BY <1>6, <1>7, <1>8, <1>9

LEMMA SeenTold ==
  ASSUME BatchInv, ~ Idle, call.what = "get", jobs' = jobs, Seen(jobs)
  PROVE  Truth
<1> DEFINE status == jobs[held].status
<1>1. /\ op \in Looks
      /\ op.name = "cancel" <=> op.stage # "get"
      /\ op.stage \in {"look", "verify", "get"}
  <2>1. Suits(op, call.what) /\ op \in Scans \union Looks  BY DEF BatchInv, Control, Idle
  <2> QED BY <2>1, Operations DEF Suits
<1>2. ASSUME NEW o, NEW what, Goes(o, what) PROVE Truth
  BY <1>2, NothingTold DEF Goes
<1>3. ASSUME Returns(held), op.name = "cancel" /\ backend = "openai" => CancelSeen(status)
      PROVE  Truth
  <2>1. told' = [op |-> op.name, ok |-> TRUE, job |-> held, why |-> "none"]  BY <1>3 DEF Returns, Ends
  <2>2. told'.why = "none"  BY <2>1
  <2> QED BY <1>3, <2>2 DEF Truth
<1>4. CASE op.name = "wait" /\ ~ Terminal(status)
  <2>1. op.stage # "look" /\ op.stage # "verify"  BY <1>1, <1>4
  <2>2. Goes(op, "get")  BY <1>4, <2>1 DEF Seen
  <2> QED BY <1>2, <2>2
<1>5. CASE op.stage = "look" /\ ~ CancelSeen(status)
  <2>1. op.name = "cancel"  BY <1>1, <1>5
  <2>2. Goes([op EXCEPT !.stage = "post"], "cancel")  BY <1>5, <2>1 DEF Seen
  <2> QED BY <1>2, <2>2
<1>6. CASE op.stage = "verify" /\ backend = "openai"
  <2>1. op.name = "cancel"  BY <1>1, <1>6
  <2>2. IF CancelSeen(status) THEN Returns(held) ELSE Fails("not cancelled")
    BY <1>6, <2>1 DEF Seen
  <2>3. CASE CancelSeen(status)  BY <1>3, <2>2, <2>3
  <2>4. CASE ~ CancelSeen(status)
    <3>1. Fails("not cancelled")  BY <2>2, <2>4
    <3>2. ~ told'.ok /\ told'.why = "not cancelled"  BY <3>1 DEF Fails, Ends
    <3> QED BY <2>4, <3>2 DEF Truth
  <2> QED BY <2>3, <2>4
<1>7. CASE /\ ~ (op.name = "wait" /\ ~ Terminal(status))
           /\ ~ (op.stage = "look" /\ ~ CancelSeen(status))
           /\ ~ (op.stage = "verify" /\ backend = "openai")
  <2>1. ReturnsHandle(jobs, held)  BY <1>7 DEF Seen
  <2>2. Returns(held) \/ Fails("own validation")  BY <2>1 DEF ReturnsHandle
  <2>3. op.name = "cancel" /\ backend = "openai" => CancelSeen(status)  BY <1>1, <1>7
  <2> QED BY <1>3, <2>2, <2>3, FailureTold
<1> QED BY <1>4, <1>5, <1>6, <1>7

LEMMA ServedTold ==
  ASSUME BatchInv, Served
  PROVE  Truth
<1>1. ~ Idle /\ ~ RefusesIt /\ jobs' = Acted /\ Succeeds(jobs') /\ UNCHANGED <<backend, late, arrived, submits>>
  BY DEF Served, Attempting
<1>2. call.what \notin {"create", "cancel"} => jobs' = jobs  BY <1>1, ActedKeeps
<1>3. /\ Suits(op, call.what) /\ op \in Scans \union Looks /\ held \in 0..Len(jobs) /\ jobs \in Seq(Jobs)
  BY <1>1 DEF BatchInv, JobsInv, Control, Idle
<1>4. ASSUME NEW o, NEW what, Goes(o, what) PROVE Truth
  BY <1>4, NothingTold DEF Goes
<1>5. CASE call.what = "list"
  <2>1. jobs' = jobs /\ Listed(jobs)  BY <1>1, <1>2, <1>5 DEF Succeeds
  <2> QED BY <1>1, <1>5, <2>1, ListedTold
<1>6. CASE call.what = "upload"  BY <1>1, <1>4, <1>6 DEF Succeeds
<1>7. CASE call.what = "create"
  <2>1. op.name # "cancel" /\ call.what # "list"  BY <1>3, <1>7, Operations DEF Suits
  <2> QED BY <2>1 DEF Truth
<1>8. CASE call.what = "cancel"
  <2>1. Cancelled /\ call.what # "list"  BY <1>1, <1>8 DEF Succeeds
  <2>2. CASE backend = "gemini"  BY <1>4, <2>1, <2>2 DEF Cancelled
  <2>3. CASE backend # "gemini"
    <3>1. told' = [op |-> op.name, ok |-> TRUE, job |-> held, why |-> "none"]
      BY <2>1, <2>3 DEF Cancelled, Returns, Ends
    <3>2. told'.why = "none"  BY <3>1
    <3>3. jobs' = [jobs EXCEPT ![held].status = IF CancelSeen(@) THEN @ ELSE "cancelling"]
      BY <1>1, <1>8 DEF Acted, Creates
    <3>4. held \in DOMAIN jobs
      <4>1. held # 0  BY <1>3, <1>8, Operations DEF Suits
      <4> QED BY <1>3, <4>1
    <3>5. jobs[held] \in Jobs  BY <1>3, <3>4
    <3>6. jobs'[held].status = IF CancelSeen(jobs[held].status) THEN jobs[held].status ELSE "cancelling"
      BY <3>3, <3>4, <3>5 DEF Jobs
    <3>7. CancelSeen(jobs'[held].status)  BY <3>6 DEF CancelSeen
    <3> QED BY <2>1, <3>2, <3>7 DEF Truth
  <2> QED BY <2>2, <2>3
<1>9. CASE call.what = "get"
  <2>1. jobs' = jobs /\ Seen(jobs)  BY <1>1, <1>2, <1>9 DEF Succeeds
  <2> QED BY <1>1, <1>9, <2>1, SeenTold
<1>10. call.what \in {"list", "upload", "create", "cancel", "get"}
  BY <1>3, Operations DEF Suits
<1> QED BY <1>5, <1>6, <1>7, <1>8, <1>9, <1>10

LEMMA TruthTold ==
  ASSUME BatchInv, Next
  PROVE  Truth
<1>1. ASSUME NEW done \in BOOLEAN, ~ Idle, Unanswered(done) PROVE Truth  BY <1>1, UnansweredTold
<1>2. ASSUME Unanswered(FALSE), ~ Idle PROVE Truth
  <2>1. PICK done \in BOOLEAN : done = FALSE  OBVIOUS
  <2> QED BY <1>1, <1>2, <2>1
<1>3. ASSUME Unanswered(TRUE), ~ Idle PROVE Truth
  <2>1. PICK done \in BOOLEAN : done = TRUE  OBVIOUS
  <2> QED BY <1>1, <1>3, <2>1
<1>4. ASSUME NEW f, NEW h, NEW t, Attempting, AttemptFails(f, h, t) PROVE Truth
  <2>1. ~ Idle  BY <1>4 DEF Attempting
  <2>2. told' = told \/ Unanswered(FALSE)  BY <1>4 DEF AttemptFails
  <2> QED BY <1>2, <2>1, <2>2, NothingTold
<1>5. CASE (\E d \in Digests : Submit(d)) \/ (\E d \in Digests : SubmitInline(d))
           \/ Recover \/ (\E n \in {"get", "wait"} : Get(n)) \/ Cancel \/ CancelDirectly
  BY <1>5, NothingTold DEF Submit, SubmitInline, Recover, Get, Cancel, CancelDirectly
<1>6. CASE Garbled \/ Refused  BY <1>2, <1>6 DEF Garbled, Refused, Attempting
<1>7. CASE (\E h \in Hints : Busy(h)) \/ NoConnection \/ (\E f \in {"broken", "500"}, t \in {0, 1} : Broken(f, t))
  BY <1>4, <1>7 DEF Busy, NoConnection, Broken
<1>8. CASE ContextDone  BY <1>3, <1>8 DEF ContextDone
<1>9. CASE Wakes \/ (\E i \in DOMAIN jobs : Progress(i)) \/ (\E j \in late : LateCreate(j)) \/ OtherSubmits
  BY <1>9, NothingTold DEF Wakes, Progress, LateCreate, OtherSubmits
<1> QED BY <1>5, <1>6, <1>7, <1>8, <1>9, ServedTold DEF Next

(* What a caller is told of a job is so: the one found by its recovery key  *)
(* is the only one, as far as the inventory went; a cancellation reported   *)
(* is one the provider has taken.                                           *)
THEOREM TellsTheTruth == DeliverySpec => ToldTheTruth
<1>1. BatchInv /\ [DeliveryNext]_deliveryVars => [Truth]_vars
  <2> SUFFICES ASSUME BatchInv, [DeliveryNext]_deliveryVars PROVE [Truth]_vars  OBVIOUS
  <2>1. Next \/ UNCHANGED vars  BY DEF DeliveryNext, Batching, Serving, deliveryVars
  <2> QED BY <2>1, TruthTold
<1>2. DeliverySpec => [][Truth]_vars  BY <1>1, BatchInvariant, PTL DEF DeliverySpec
<1>3. [][Truth]_vars => ToldTheTruth  BY DEF ToldTheTruth, Truth
<1> QED BY <1>2, <1>3

-----------------------------------------------------------------------------
(* A modality request. Each deployment before the one being tried has been  *)
(* reported and left for a reason the policy allows; the recorder holds     *)
(* what the present one has reported, those after it know of nothing.       *)
Outcomes == {"ok", "malformed", "context", "broken", "dial", "429", "400", "500", "fatal"}
Reported == [attempt : Nat, tokens : Nat, err : Outcomes]

FailoverTypes ==
    /\ request.kind \in Kinds /\ request.n \in Nat \ {0} /\ request.chain \in Chains
    /\ at \in DOMAIN Chain /\ images \in Nat /\ recorded \in Nat
    /\ events \in Seq(Reported) /\ result \in Outcomes \union {"none", "invalid"}
    /\ acts \in [DOMAIN Chain -> Nat] /\ received \in [DOMAIN Chain -> Nat]
    /\ exchange # NoExchange => /\ exchange \in Calls /\ TimeKept(exchange)
                                /\ exchange.nonIdempotent = Creating
                                /\ result = "none"

Tried ==
    /\ IF result \in {"none", "invalid"} THEN Len(events) = at - 1
                                         ELSE Len(events) = at /\ events[at].err = result
    /\ \A d \in DOMAIN Chain : d > at => acts[d] = 0 /\ received[d] = 0
    /\ exchange = NoExchange /\ result \in {"none", "invalid"} => acts[at] = 0 /\ received[at] = 0 /\ images = 0

Billed ==
    /\ \A i \in DOMAIN events : events[i].attempt = i - 1 /\ events[i].tokens = Min({received[i], MaxInt})
    /\ result \in {"none", "invalid"} => recorded = Min({received[at], MaxInt})

Charged ==
    /\ Creating => \A d \in DOMAIN Chain : acts[d] <= Needed(Chain[d])
    /\ result = "none" => images < Needed(Here) /\ (Creating => acts[at] <= images)

Handed == \A i \in 1..(at - 1) : /\ events[i].err \notin {"ok", "malformed", "context"}
                                 /\ request.policy = "transient" => events[i].err # "400"

FailoverInv == FailoverTypes /\ Tried /\ Billed /\ Charged /\ Handed

LEMMA Saturated ==
  ASSUME NEW r \in Nat, NEW t \in Nat, NEW a, a = Min({r, MaxInt})
  PROVE  /\ a \in Nat /\ r + t \in Nat
         /\ SaturatingAdd(a, t) = Min({r + t, MaxInt}) /\ SaturatingAdd(a, t) \in Nat
<1>1. MaxInt \in Nat  BY FailoverAssumption DEF FailoverAssumption
<1>2. a = IF r <= MaxInt THEN r ELSE MaxInt  BY <1>1, Extremes
<1>3. PICK s : s = r + t  OBVIOUS
<1>4. s \in Nat  BY <1>3
<1>5. Min({s, MaxInt}) = IF s <= MaxInt THEN s ELSE MaxInt  BY <1>1, <1>4, Extremes
<1>6. SaturatingAdd(a, t) = IF t > 0 /\ a > MaxInt - t THEN MaxInt ELSE a + t  BY DEF SaturatingAdd
<1> QED BY <1>1, <1>2, <1>3, <1>4, <1>5, <1>6

LEMMA Chained ==
  ASSUME FailoverTypes
  PROVE  /\ DOMAIN Chain = 1..Len(Chain) /\ Len(Chain) \in Nat /\ at \in Nat /\ at >= 1
         /\ \A d \in DOMAIN Chain : d \in Nat /\ Needed(Chain[d]) \in Nat /\ Needed(Chain[d]) >= 1
         /\ MaxInt \in Nat
         /\ Creating \in BOOLEAN
<1>1. Chain \in Seq([adapter : {"openai", "gemini"}, accepts : BOOLEAN])
  BY FailoverAssumption DEF FailoverAssumption, FailoverTypes, Chain
<1>2. DOMAIN Chain = 1..Len(Chain) /\ Len(Chain) \in Nat  BY <1>1
<1>3. MaxInt \in Nat  BY FailoverAssumption DEF FailoverAssumption
<1>4. at \in Nat /\ at >= 1  BY <1>2 DEF FailoverTypes
<1>5. \A d \in DOMAIN Chain : d \in Nat  BY <1>2
<1>6. \A d \in DOMAIN Chain : Needed(Chain[d]) \in Nat /\ Needed(Chain[d]) >= 1
  BY DEF FailoverTypes, Needed
<1> QED BY <1>2, <1>3, <1>4, <1>5, <1>6 DEF Creating

(* The attempt at a deployment ends: it is reported, and the next is tried  *)
(* or the request is over.                                                  *)
LEMMA AttemptEndKeeps ==
  ASSUME FailoverInv, exchange # NoExchange, UNCHANGED request,
         NEW err \in Outcomes, NEW tokens, AttemptEnds(err, tokens),
         tokens = Min({received'[at], MaxInt}),
         acts' \in [DOMAIN Chain -> Nat], received' \in [DOMAIN Chain -> Nat],
         \A d \in DOMAIN Chain : d # at => acts'[d] = acts[d] /\ received'[d] = received[d],
         Creating => acts'[at] <= Needed(Here)
  PROVE  FailoverInv'
<1> DEFINE report == [attempt |-> at - 1, tokens |-> tokens, err |-> err]
<1>1. /\ FailoverTypes /\ Tried /\ Billed /\ Charged /\ Handed /\ result = "none"
  BY DEF FailoverInv, FailoverTypes
<1>2. /\ DOMAIN Chain = 1..Len(Chain) /\ Len(Chain) \in Nat /\ at \in Nat /\ at >= 1
      /\ \A d \in DOMAIN Chain : d \in Nat /\ Needed(Chain[d]) \in Nat /\ Needed(Chain[d]) >= 1
      /\ MaxInt \in Nat
  BY <1>1, Chained
<1>3. Chain' = Chain /\ (Creating' <=> Creating) /\ \A d : Needed(d)' = Needed(d)
  BY DEF Chain, Creating, Needed
<1>4. /\ events' = Append(events, report) /\ recorded' = 0 /\ images' = 0 /\ exchange' = NoExchange
      /\ \/ /\ at' = at + 1 /\ result' = result /\ at < Len(Chain) /\ err # "ok"
            /\ IsProviderFailure(err) /\ Allowed(err)
         \/ at' = at /\ result' = err
  BY DEF AttemptEnds
<1>5. at \in DOMAIN Chain /\ received'[at] \in Nat  BY <1>1 DEF FailoverTypes
<1>6. tokens \in Nat
  <2>1. tokens = IF received'[at] <= MaxInt THEN received'[at] ELSE MaxInt  BY <1>2, <1>5, Extremes
  <2> QED BY <1>2, <1>5, <2>1
<1>7. report \in Reported
  <2>1. PICK before \in Nat : before = at - 1  BY <1>2
  <2>2. report = [attempt |-> before, tokens |-> tokens, err |-> err]  BY <2>1
  <2> HIDE DEF report
  <2> QED BY <1>6, <2>2 DEF Reported
<1>8. report.attempt = at - 1 /\ report.tokens = tokens /\ report.err = err  OBVIOUS
<1> HIDE DEF report
<1>9. events \in Seq(Reported) /\ Len(events) = at - 1  BY <1>1 DEF FailoverTypes, Tried
<1>10. /\ events' \in Seq(Reported) /\ Len(events') = at /\ events'[at] = report
       /\ DOMAIN events' = 1..at /\ DOMAIN events = 1..(at - 1)
       /\ \A i \in 1..(at - 1) : events'[i] = events[i]
  BY <1>2, <1>4, <1>7, <1>9
<1>11. \A i \in 1..at : i \in 1..(at - 1) \/ i = at  BY <1>2
<1>12. \A i \in 1..(at - 1) : i \in DOMAIN Chain /\ i # at  BY <1>2, <1>5
<1>13. at' \in DOMAIN Chain /\ (result' = "none" => at' = at + 1) /\ (result' # "none" => at' = at)
       /\ result' \in Outcomes \union {"none"}
  BY <1>1, <1>2, <1>4, <1>5 DEF Outcomes
<1>14. FailoverTypes'
  <2>1. PICK zero \in Nat : zero = 0  OBVIOUS
  <2>2. images' \in Nat /\ recorded' \in Nat  BY <1>4, <2>1
  <2> QED BY <1>1, <1>3, <1>4, <1>10, <1>13, <2>2 DEF FailoverTypes
<1>15. \A d \in DOMAIN Chain : d > at => acts'[d] = 0 /\ received'[d] = 0
  BY <1>1, <1>2 DEF Tried
<1>16. Tried'
  <2>1. CASE result' = "none"
    <3>1. at' > at /\ at' \in DOMAIN Chain /\ at' - 1 = at  BY <1>2, <1>13, <2>1
    <3>2. acts'[at'] = 0 /\ received'[at'] = 0  BY <1>15, <3>1
    <3>3. \A d \in DOMAIN Chain : d > at' => d > at  BY <1>2, <3>1, <1>13
    <3> QED BY <1>3, <1>4, <1>10, <1>15, <2>1, <3>1, <3>2, <3>3 DEF Tried
  <2>2. CASE result' # "none"
    <3>1. at' = at /\ result' = err /\ result' # "invalid"  BY <1>4, <1>13, <1>1, <2>2 DEF Outcomes
    <3> QED BY <1>3, <1>8, <1>10, <1>15, <2>2, <3>1 DEF Tried
  <2> QED BY <2>1, <2>2
<1>17. Billed'
  <2>1. ASSUME NEW i \in DOMAIN events'
        PROVE  events'[i].attempt = i - 1 /\ events'[i].tokens = Min({received'[i], MaxInt})
    <3>1. CASE i = at  BY <1>8, <1>10, <3>1
    <3>2. CASE i # at
      <4>1. i \in 1..(at - 1) /\ i \in DOMAIN events  BY <1>10, <1>11, <3>2
      <4>2. events'[i] = events[i] /\ received'[i] = received[i]  BY <1>10, <1>12, <4>1
      <4>3. events[i].attempt = i - 1 /\ events[i].tokens = Min({received[i], MaxInt})
        BY <1>1, <4>1 DEF Billed
      <4> QED BY <4>2, <4>3
    <3> QED BY <3>1, <3>2
  <2>2. ASSUME result' \in {"none", "invalid"} PROVE recorded' = Min({received'[at'], MaxInt})
    <3>1. result' = "none"  BY <1>13, <2>2 DEF Outcomes
    <3>2. at' > at /\ at' \in DOMAIN Chain  BY <1>2, <1>13, <3>1
    <3>3. received'[at'] = 0  BY <1>15, <3>2
    <3>4. PICK zero \in Nat : zero = 0  OBVIOUS
    <3>5. Min({zero, MaxInt}) = IF zero <= MaxInt THEN zero ELSE MaxInt  BY <1>2, <3>4, Extremes
    <3> QED BY <1>2, <1>4, <3>3, <3>4, <3>5
  <2> QED BY <2>1, <2>2 DEF Billed
<1>18. Charged'
  <2>1. Creating => \A d \in DOMAIN Chain : acts'[d] <= Needed(Chain[d])
    BY <1>1 DEF Charged, Here
  <2>2. ASSUME result' = "none" PROVE images' < Needed(Here)' /\ (Creating => acts'[at'] <= images')
    <3>1. at' > at /\ at' \in DOMAIN Chain  BY <1>2, <1>13, <2>2
    <3>2. acts'[at'] = 0 /\ Needed(Chain[at']) \in Nat /\ Needed(Chain[at']) >= 1  BY <1>2, <1>15, <3>1
    <3>3. Needed(Here)' = Needed(Chain[at'])  BY <1>3 DEF Here, Needed
    <3> QED BY <1>4, <3>2, <3>3
  <2> QED BY <1>3, <2>1, <2>2 DEF Charged, Needed
<1>19. Handed'
  <2>1. ASSUME NEW i \in 1..(at' - 1)
        PROVE  /\ events'[i].err \notin {"ok", "malformed", "context"}
               /\ request.policy = "transient" => events'[i].err # "400"
    <3>1. CASE i \in 1..(at - 1)
      <4>1. events'[i] = events[i]  BY <1>10, <3>1
      <4> QED BY <1>1, <3>1, <4>1 DEF Handed
    <3>2. CASE i \notin 1..(at - 1)
      <4>1. i = at /\ at' = at + 1  BY <1>2, <1>4, <2>1, <3>2
      <4>2. err # "ok" /\ IsProviderFailure(err) /\ Allowed(err)  BY <1>2, <1>4, <4>1
      <4> QED BY <1>8, <1>10, <4>1, <4>2 DEF IsProviderFailure, Allowed
    <3> QED BY <3>1, <3>2
  <2> QED BY <2>1 DEF Handed
<1> QED BY <1>14, <1>16, <1>17, <1>18, <1>19 DEF FailoverInv

LEMMA Answers == Reports \subseteq Nat
BY FailoverAssumption DEF Reports, FailoverAssumption

LEMMA NewExchangeKept ==
  ASSUME FailoverTypes
  PROVE  /\ NewExchange \in Calls /\ TimeKept(NewExchange) /\ NewExchange.nonIdempotent = Creating
         /\ NewExchange.what = request.kind
  <1>1. request.kind \in Asked  BY DEF FailoverTypes, Kinds, Asked
  <1> DEFINE single == at < Len(Chain)
  <1>2. Creating \in BOOLEAN /\ single \in BOOLEAN  BY DEF Creating
  <1>3. NoDeadline \in Nat \union {NoDeadline}  OBVIOUS
  <1>4. NewExchange = NewCall(request.kind, Creating, single, NoDeadline)  BY DEF NewExchange
  <1> HIDE DEF single
  <1>5. LET c == NewCall(request.kind, Creating, single, NoDeadline)
        IN  c \in Calls /\ TimeKept(c) /\ c.nonIdempotent = Creating /\ c.what = request.kind
    <2>1. PICK once \in BOOLEAN, last \in BOOLEAN, left \in Nat \union {NoDeadline} :
             once = Creating /\ last = single /\ left = NoDeadline
      BY <1>2, <1>3
    <2>2. LET c == NewCall(request.kind, once, last, left)
          IN  c \in Calls /\ TimeKept(c) /\ c.nonIdempotent = once /\ c.what = request.kind
      BY <1>1, NewCallKept
    <2> QED BY <2>1, <2>2
  <1> QED BY <1>4, <1>5

LEMMA DispatchKeeps ==
  ASSUME FailoverInv, Dispatch
  PROVE  FailoverInv'
<1>1. /\ FailoverTypes /\ Tried /\ Billed /\ Charged /\ Handed  BY DEF FailoverInv
<1>2. /\ result = "none" /\ exchange = NoExchange
      /\ UNCHANGED <<request, at, images, recorded, over, events, acts, received>>
      /\ \/ exchange' = NewExchange /\ UNCHANGED result
         \/ result' = "invalid" /\ UNCHANGED exchange
  BY DEF Dispatch
<1>3. Chain' = Chain /\ (Creating' <=> Creating) /\ Here' = Here /\ \A d : Needed(d)' = Needed(d)
  BY <1>2 DEF Chain, Creating, Needed, Here
<1>4. NewExchange \in Calls /\ TimeKept(NewExchange) /\ NewExchange.nonIdempotent = Creating
      /\ NewExchange.what = request.kind
  BY <1>1, NewExchangeKept
<1>5. NewExchange # NoExchange
  <2>1. NoExchange.what = "none"  BY DEF NoExchange
  <2> QED BY <1>1, <1>4, <2>1 DEF FailoverTypes, Kinds
<1>6. FailoverTypes'
  <2>1. exchange' # NoExchange => /\ exchange' \in Calls /\ TimeKept(exchange')
                                  /\ exchange'.nonIdempotent = Creating /\ result' = "none"
    BY <1>2, <1>4
  <2>2. exchange' # NoExchange => TimeKept(exchange)'
    BY <2>1 DEF TimeKept, MayWait, Allows, SleepOutlastsDeadline
  <2>3. NoExchange' = NoExchange /\ result' \in Outcomes \union {"none", "invalid"}
    BY <1>1, <1>2 DEF NoExchange, FailoverTypes
  <2> QED BY <1>1, <1>2, <1>3, <2>1, <2>2, <2>3 DEF FailoverTypes
<1>7. Tried'  BY <1>1, <1>2, <1>3 DEF Tried
<1>8. Billed'  BY <1>1, <1>2 DEF Billed
<1>9. Charged'  BY <1>1, <1>2, <1>3 DEF Charged
<1>10. Handed'  BY <1>1, <1>2 DEF Handed
<1> QED BY <1>6, <1>7, <1>8, <1>9, <1>10 DEF FailoverInv

(* The attempt goes on with another exchange, or the same one asleep or     *)
(* awake again.                                                             *)
LEMMA ExchangeKeeps ==
  ASSUME FailoverInv, exchange # NoExchange, UNCHANGED <<request, at, events, result>>,
         exchange' \in Calls, TimeKept(exchange'), exchange'.nonIdempotent = Creating,
         acts' \in [DOMAIN Chain -> Nat], received' \in [DOMAIN Chain -> Nat],
         \A d \in DOMAIN Chain : d # at => acts'[d] = acts[d] /\ received'[d] = received[d],
         images' \in Nat, images' < Needed(Here), recorded' \in Nat,
         recorded' = Min({received'[at], MaxInt}),
         Creating => acts'[at] <= images' \/ (acts'[at] = acts[at] /\ images' = images)
  PROVE  FailoverInv'
<1>1. /\ FailoverTypes /\ Tried /\ Billed /\ Charged /\ Handed /\ result = "none"
  BY DEF FailoverInv, FailoverTypes
<1>2. Chain' = Chain /\ (Creating' <=> Creating) /\ Here' = Here /\ \A d : Needed(d)' = Needed(d)
  BY DEF Chain, Creating, Needed, Here
<1>3. /\ DOMAIN Chain = 1..Len(Chain) /\ Len(Chain) \in Nat /\ at \in Nat /\ at >= 1
      /\ \A d \in DOMAIN Chain : d \in Nat /\ Needed(Chain[d]) \in Nat /\ Needed(Chain[d]) >= 1
  BY <1>1, Chained
<1>4. exchange' # NoExchange
  <2>1. exchange'.what \in Asked  BY DEF Calls
  <2>2. NoExchange.what = "none"  BY DEF NoExchange
  <2> QED BY <2>1, <2>2 DEF Asked
<1>5. FailoverTypes'
  <2>1. TimeKept(exchange)'  BY DEF TimeKept, MayWait, Allows, SleepOutlastsDeadline
  <2> QED BY <1>1, <1>2, <2>1 DEF FailoverTypes
<1>6. at \in DOMAIN Chain /\ DOMAIN events = 1..(at - 1)
  <2>1. Len(events) = at - 1 /\ events \in Seq(Reported)  BY <1>1 DEF Tried, FailoverTypes
  <2> QED BY <1>1, <2>1 DEF FailoverTypes
<1>7. Tried'
  <2>1. \A d \in DOMAIN Chain : d > at => acts'[d] = 0 /\ received'[d] = 0  BY <1>1, <1>3 DEF Tried
  <2>2. NoExchange' = NoExchange  BY DEF NoExchange
  <2> QED BY <1>1, <1>2, <1>4, <2>1, <2>2 DEF Tried
<1>8. Billed'
  <2>1. \A i \in DOMAIN events : received'[i] = received[i]  BY <1>3, <1>6
  <2> QED BY <1>1, <2>1 DEF Billed
<1>9. Charged'
  <2>1. Creating => acts'[at] <= images'  BY <1>1 DEF Charged
  <2>2. Creating => \A d \in DOMAIN Chain : acts'[d] <= Needed(Chain[d])
    <3>1. SUFFICES ASSUME Creating, NEW d \in DOMAIN Chain PROVE acts'[d] <= Needed(Chain[d])  OBVIOUS
    <3>2. CASE d = at
      <4>1. acts'[at] \in Nat /\ Needed(Here) \in Nat  BY <1>3, <1>6 DEF Here
      <4> QED BY <2>1, <3>1, <3>2, <4>1 DEF Here
    <3>3. CASE d # at  BY <1>1, <3>1, <3>3 DEF Charged
    <3> QED BY <3>2, <3>3
  <2> QED BY <1>1, <1>2, <2>1, <2>2 DEF Charged
<1>10. Handed'  BY <1>1 DEF Handed
<1> QED BY <1>5, <1>7, <1>8, <1>9, <1>10 DEF FailoverInv

(* What holds of the attempt that is under way.                             *)
LEMMA UnderWay ==
  ASSUME FailoverInv, exchange # NoExchange
  PROVE  /\ result = "none" /\ at \in DOMAIN Chain /\ at \in Nat
         /\ exchange \in Calls /\ TimeKept(exchange) /\ exchange.nonIdempotent = Creating
         /\ acts \in [DOMAIN Chain -> Nat] /\ received \in [DOMAIN Chain -> Nat]
         /\ acts[at] \in Nat /\ received[at] \in Nat /\ images \in Nat /\ recorded \in Nat
         /\ recorded = Min({received[at], MaxInt})
         /\ images < Needed(Here) /\ Needed(Here) \in Nat
         /\ Creating => acts[at] <= images
<1>1. FailoverTypes /\ Billed /\ Charged /\ result = "none"  BY DEF FailoverInv, FailoverTypes
<1>2. at \in DOMAIN Chain /\ acts \in [DOMAIN Chain -> Nat] /\ received \in [DOMAIN Chain -> Nat]
  BY <1>1 DEF FailoverTypes
<1>3. acts[at] \in Nat /\ received[at] \in Nat  BY <1>2
<1>4. Needed(Here) \in Nat /\ at \in Nat  BY <1>1, <1>2, Chained DEF Here
<1> QED BY <1>1, <1>2, <1>3, <1>4 DEF FailoverTypes, Billed, Charged

(* A failed exchange: what the provider may have acted on is not resent     *)
(* when it creates something.                                               *)
LEMMA FailedKeeps ==
  ASSUME FailoverInv, exchange # NoExchange, UNCHANGED <<request, received>>,
         NEW failure \in {"dial", "429", "400", "broken", "500", "fatal"}, ExchangeFails(failure),
         acts' = acts \/ (failure \in {"broken", "500", "fatal"} /\ acts' = [acts EXCEPT ![at] = @ + 1])
  PROVE  FailoverInv'
<1>1. /\ result = "none" /\ at \in DOMAIN Chain /\ at \in Nat
      /\ exchange \in Calls /\ TimeKept(exchange) /\ exchange.nonIdempotent = Creating
      /\ acts \in [DOMAIN Chain -> Nat] /\ received \in [DOMAIN Chain -> Nat]
      /\ acts[at] \in Nat /\ images \in Nat /\ recorded \in Nat
      /\ recorded = Min({received[at], MaxInt})
      /\ images < Needed(Here) /\ Needed(Here) \in Nat
      /\ Creating => acts[at] <= images
  BY UnderWay
<1>2. /\ acts' \in [DOMAIN Chain -> Nat]
      /\ \A d \in DOMAIN Chain : d # at => acts'[d] = acts[d]
      /\ acts'[at] = acts[at] \/ acts'[at] = acts[at] + 1
  <2>1. PICK n \in Nat : n = acts[at] + 1  BY <1>1
  <2>2. acts' = acts \/ acts' = [acts EXCEPT ![at] = n]  BY <2>1
  <2> QED BY <1>1, <2>1, <2>2
<1>3. ASSUME NEW e \in Asleep(exchange, failure, 0), exchange' = e,
             UNCHANGED <<at, images, recorded, events, result>>
      PROVE  FailoverInv'
  <2>1. PICK zero \in Nat : zero = 0  OBVIOUS
  <2>2. e \in Asleep(exchange, failure, zero)  BY <2>1
  <2>3. /\ e \in Calls /\ TimeKept(e) /\ e.nonIdempotent = exchange.nonIdempotent
        /\ Resendable(exchange, failure)
    BY <1>1, <2>2, AsleepKept
  <2>4. Creating => acts' = acts
    <3>1. ASSUME failure \in {"broken", "500", "fatal"} PROVE ~ exchange.nonIdempotent
      <4>1. CASE failure = "broken"  BY <2>3, <4>1 DEF Resendable
      <4>2. CASE failure = "500"  BY <2>3, <4>2 DEF Resendable, IdempotentSafeStatus
      <4>3. CASE failure = "fatal"  BY <2>3, <4>3 DEF Resendable
      <4> QED BY <3>1, <4>1, <4>2, <4>3
    <3> QED BY <1>1, <3>1
  <2>5. TimeKept(exchange')  BY <1>3, <2>3
  <2> QED BY <1>1, <1>2, <1>3, <2>3, <2>4, <2>5, ExchangeKeeps
<1>4. ASSUME AttemptEnds(failure, recorded) PROVE FailoverInv'
  <2>1. failure \in Outcomes  BY DEF Outcomes
  <2>2. Creating => acts'[at] <= Needed(Here)  BY <1>1, <1>2
  <2> QED BY <1>1, <1>2, <1>4, <2>1, <2>2, AttemptEndKeeps
<1> QED BY <1>3, <1>4 DEF ExchangeFails

LEMMA AnswerKeeps ==
  ASSUME FailoverInv, NEW t \in Reports, NEW usable \in BOOLEAN, AnswerArrives(t, usable)
  PROVE  FailoverInv'
<1> DEFINE usage == SaturatingAdd(recorded, t)
<1>1. exchange # NoExchange  BY DEF AnswerArrives, Sending
<1>2. /\ result = "none" /\ at \in DOMAIN Chain /\ at \in Nat
      /\ acts \in [DOMAIN Chain -> Nat] /\ received \in [DOMAIN Chain -> Nat]
      /\ acts[at] \in Nat /\ received[at] \in Nat /\ images \in Nat /\ recorded \in Nat
      /\ recorded = Min({received[at], MaxInt})
      /\ images < Needed(Here) /\ Needed(Here) \in Nat
      /\ Creating => acts[at] <= images
  BY <1>1, UnderWay
<1>3. t \in Nat  BY Answers
<1>4. /\ received[at] + t \in Nat /\ usage = Min({received[at] + t, MaxInt}) /\ usage \in Nat
  BY <1>2, <1>3, Saturated
<1>5. /\ acts' = [acts EXCEPT ![at] = @ + 1] /\ received' = [received EXCEPT ![at] = @ + t]
      /\ UNCHANGED <<request, over>>
  BY DEF AnswerArrives
<1>6. /\ acts' \in [DOMAIN Chain -> Nat] /\ received' \in [DOMAIN Chain -> Nat]
      /\ \A d \in DOMAIN Chain : d # at => acts'[d] = acts[d] /\ received'[d] = received[d]
      /\ acts'[at] = acts[at] + 1 /\ received'[at] = received[at] + t
  <2>1. PICK n \in Nat, m \in Nat : n = acts[at] + 1 /\ m = received[at] + t  BY <1>2, <1>4
  <2>2. acts' = [acts EXCEPT ![at] = n] /\ received' = [received EXCEPT ![at] = m]  BY <1>5, <2>1
  <2> QED BY <1>2, <2>1, <2>2
<1>7. usage = Min({received'[at], MaxInt})  BY <1>4, <1>6
<1>8. Creating => acts'[at] <= images + 1 /\ acts'[at] <= Needed(Here)  BY <1>2, <1>6
<1>9. ASSUME NEW err \in {"ok", "malformed"}, AttemptEnds(err, usage) PROVE FailoverInv'
  <2>1. err \in Outcomes  BY DEF Outcomes
  <2> HIDE DEF usage
  <2> QED BY <1>1, <1>5, <1>6, <1>7, <1>8, <1>9, <2>1, AttemptEndKeeps
<1>10. CASE ~ usable  BY <1>9, <1>10 DEF AnswerArrives
<1>11. CASE usable /\ images + 1 < Needed(Here)
  <2>1. /\ images' = images + 1 /\ recorded' = usage /\ exchange' = NewExchange
        /\ UNCHANGED <<at, events, result>>
    BY <1>11 DEF AnswerArrives
  <2>2. NewExchange \in Calls /\ TimeKept(NewExchange) /\ NewExchange.nonIdempotent = Creating
    BY NewExchangeKept DEF FailoverInv
  <2>3. images' \in Nat /\ images' < Needed(Here)  BY <1>2, <1>11, <2>1
  <2>4. exchange' \in Calls /\ TimeKept(exchange') /\ exchange'.nonIdempotent = Creating
    BY <2>1, <2>2
  <2> HIDE DEF usage
  <2>5. recorded' \in Nat /\ recorded' = Min({received'[at], MaxInt})  BY <1>4, <1>7, <2>1
  <2>6. Creating => acts'[at] <= images'  BY <1>8, <2>1
  <2>7. UNCHANGED <<request, at, events, result>>  BY <1>5, <2>1
  <2> QED BY <1>1, <1>6, <2>3, <2>4, <2>5, <2>6, <2>7, ExchangeKeeps
<1>12. CASE usable /\ ~ (images + 1 < Needed(Here))  BY <1>9, <1>12 DEF AnswerArrives
<1> QED BY <1>10, <1>11, <1>12

(* An answer that is lost, or whose caller has left.                        *)
LEMMA EndedKeeps ==
  ASSUME FailoverInv, exchange # NoExchange, UNCHANGED <<request, received>>,
         NEW err \in {"malformed", "broken", "context"}, AttemptEnds(err, recorded),
         acts' = acts \/ acts' = [acts EXCEPT ![at] = @ + 1]
  PROVE  FailoverInv'
<1>1. /\ at \in DOMAIN Chain
      /\ acts \in [DOMAIN Chain -> Nat] /\ received \in [DOMAIN Chain -> Nat]
      /\ acts[at] \in Nat /\ images \in Nat /\ recorded = Min({received[at], MaxInt})
      /\ images < Needed(Here) /\ Needed(Here) \in Nat
      /\ Creating => acts[at] <= images
  BY UnderWay
<1>2. /\ acts' \in [DOMAIN Chain -> Nat]
      /\ \A d \in DOMAIN Chain : d # at => acts'[d] = acts[d]
      /\ acts'[at] = acts[at] \/ acts'[at] = acts[at] + 1
  <2>1. PICK n \in Nat : n = acts[at] + 1  BY <1>1
  <2>2. acts' = acts \/ acts' = [acts EXCEPT ![at] = n]  BY <2>1
  <2> QED BY <1>1, <2>1, <2>2
<1>3. Creating => acts'[at] <= Needed(Here)  BY <1>1, <1>2
<1>4. err \in Outcomes  BY DEF Outcomes
<1> QED BY <1>1, <1>2, <1>3, <1>4, AttemptEndKeeps

LEMMA ResendsKeeps ==
  ASSUME FailoverInv, Resends
  PROVE  FailoverInv'
<1>1. /\ exchange # NoExchange /\ exchange.wait > 0 /\ exchange' = Awake(exchange)
      /\ UNCHANGED <<request, at, images, recorded, over, events, result, acts, received>>
  BY DEF Resends
<1>2. /\ exchange \in Calls /\ TimeKept(exchange) /\ exchange.nonIdempotent = Creating
      /\ acts \in [DOMAIN Chain -> Nat] /\ received \in [DOMAIN Chain -> Nat]
      /\ images \in Nat /\ recorded \in Nat /\ recorded = Min({received[at], MaxInt})
      /\ images < Needed(Here)
  BY <1>1, UnderWay
<1>3. /\ Awake(exchange) \in Calls /\ TimeKept(Awake(exchange))
      /\ Awake(exchange).nonIdempotent = exchange.nonIdempotent
  BY <1>1, <1>2, AwakeKept
<1>4. TimeKept(exchange')  BY <1>1, <1>3
<1> QED BY <1>1, <1>2, <1>3, <1>4, ExchangeKeeps

LEMMA FailoverStep ==
  ASSUME FailoverInv, [FailoverNext]_failoverVars
  PROVE  FailoverInv'
<1>1. ASSUME ContextEnds PROVE FailoverInv'  BY <1>1, EndedKeeps DEF ContextEnds
<1>2. ASSUME NEW e \in {"malformed", "broken"}, AnswerLost(e) PROVE FailoverInv'
  BY <1>2, EndedKeeps DEF AnswerLost, Sending
<1>3. ASSUME NEW f \in {"dial", "429", "400"}, Unsent(f) PROVE FailoverInv'
  <2>1. exchange # NoExchange /\ ExchangeFails(f) /\ UNCHANGED <<request, received>> /\ acts' = acts
    BY <1>3 DEF Unsent, Sending
  <2> QED BY <2>1, FailedKeeps
<1>4. ASSUME NEW f \in {"broken", "500", "fatal"}, Ambiguous(f) PROVE FailoverInv'
  <2>1. /\ exchange # NoExchange /\ ExchangeFails(f) /\ UNCHANGED <<request, received>>
        /\ acts' = acts \/ acts' = [acts EXCEPT ![at] = @ + 1]
    BY <1>4 DEF Ambiguous, Sending
  <2> QED BY <2>1, FailedKeeps
<1>5. ASSUME UNCHANGED <<request, at, exchange, images, recorded, events, result, acts, received>>
      PROVE  FailoverInv'
  BY <1>5 DEF FailoverInv, FailoverTypes, Tried, Billed, Charged, Handed, Chain, Here, Creating, Needed,
              NoExchange, TimeKept, MayWait, Allows, SleepOutlastsDeadline
<1> QED BY <1>1, <1>2, <1>3, <1>4, <1>5, DispatchKeeps, ResendsKeeps, AnswerKeeps
        DEF FailoverNext, failoverVars, CallerLeaves

LEMMA FailoverInitially == DeliveryInit => FailoverInv
<1> SUFFICES ASSUME DeliveryInit PROVE FailoverInv  OBVIOUS
<1>1. /\ request \in [kind : Kinds, n : 1..MaxImages, policy : Policies, chain : Chains]
      /\ at = 1 /\ exchange = NoExchange /\ images = 0 /\ recorded = 0 /\ over = FALSE
      /\ events = <<>> /\ result = "none"
      /\ acts = [d \in DOMAIN Chain |-> 0] /\ received = [d \in DOMAIN Chain |-> 0]
  BY DEF DeliveryInit, FailoverInit
<1>2. request.kind \in Kinds /\ request.n \in Nat \ {0} /\ request.chain \in Chains
  <2>1. request.n \in 1..MaxImages  BY <1>1
  <2> QED BY <1>1, <2>1
<1>3. /\ Chain \in Seq([adapter : {"openai", "gemini"}, accepts : BOOLEAN]) /\ Chain # <<>>
      /\ MaxInt \in Nat
  BY <1>2, FailoverAssumption DEF FailoverAssumption, Chain
<1>4. at \in DOMAIN Chain  BY <1>1, <1>3
<1>5. PICK zero \in Nat : zero = 0  OBVIOUS
<1>6. acts = [d \in DOMAIN Chain |-> zero] /\ received = [d \in DOMAIN Chain |-> zero]  BY <1>1, <1>5
<1>7. /\ acts \in [DOMAIN Chain -> Nat] /\ received \in [DOMAIN Chain -> Nat]
      /\ \A d \in DOMAIN Chain : acts[d] = 0 /\ received[d] = 0
  BY <1>5, <1>6
<1>8. events \in Seq(Reported) /\ Len(events) = 0 /\ DOMAIN events = {}  BY <1>1
<1>9. FailoverTypes
  <2>1. images \in Nat /\ recorded \in Nat  BY <1>1, <1>5
  <2> QED BY <1>1, <1>2, <1>4, <1>7, <1>8, <2>1 DEF FailoverTypes
<1>10. Tried  BY <1>1, <1>4, <1>7, <1>8 DEF Tried
<1>11. Billed
  <2>1. Min({zero, MaxInt}) = IF zero <= MaxInt THEN zero ELSE MaxInt  BY <1>3, <1>5, Extremes
  <2>2. recorded = Min({received[at], MaxInt})  BY <1>1, <1>3, <1>4, <1>5, <1>7, <2>1
  <2> QED BY <1>8, <2>2 DEF Billed
<1>12. Charged
  <2>1. \A d \in DOMAIN Chain : Needed(Chain[d]) \in Nat /\ Needed(Chain[d]) >= 1  BY <1>9, Chained
  <2> QED BY <1>1, <1>4, <1>7, <2>1 DEF Charged, Here
<1>13. Handed  BY <1>1 DEF Handed
<1> QED BY <1>9, <1>10, <1>11, <1>12, <1>13 DEF FailoverInv

(* The inductive invariant of a modality request and its chain.             *)
THEOREM FailoverInvariant == DeliverySpec => []FailoverInv
<1>1. FailoverInv /\ [DeliveryNext]_deliveryVars => FailoverInv'
  <2> SUFFICES ASSUME FailoverInv, [DeliveryNext]_deliveryVars PROVE FailoverInv'  OBVIOUS
  <2>1. [FailoverNext]_failoverVars  BY DEF DeliveryNext, Batching, Serving, deliveryVars
  <2> QED BY <2>1, FailoverStep
<1> QED BY <1>1, FailoverInitially, PTL DEF DeliverySpec

(* Whatever becomes of the exchanges, no deployment makes more images or    *)
(* speech than were asked for.                                              *)
THEOREM ChargesOnce == DeliverySpec => []ChargedOncePerDeployment
<1>1. ASSUME FailoverInv PROVE ChargedOncePerDeployment
  BY <1>1 DEF FailoverInv, Charged, ChargedOncePerDeployment
<1> QED BY <1>1, FailoverInvariant, PTL

(* Every deployment that was sent anything is reported, once, in order and  *)
(* with the usage it reported; the caller is told the outcome of the last.  *)
THEOREM ReportsCosts == DeliverySpec => []CostsAreReported
<1>1. ASSUME FailoverInv PROVE CostsAreReported
  <2>1. FailoverTypes /\ Tried /\ Billed  BY <1>1 DEF FailoverInv
  <2>2. /\ DOMAIN Chain = 1..Len(Chain) /\ Len(Chain) \in Nat /\ at \in Nat /\ at >= 1 /\ at \in DOMAIN Chain
    BY <2>1, Chained DEF FailoverTypes
  <2>3. ASSUME NEW d \in DOMAIN Chain, d > Len(events), result # "none" \/ d > at
        PROVE  acts[d] + received[d] = 0
    <3>1. CASE d > at
      <4>1. acts[d] = 0 /\ received[d] = 0  BY <2>1, <3>1 DEF Tried
      <4> QED BY <4>1
    <3>2. CASE ~ (d > at)
      <4>1. result = "invalid" /\ d = at  BY <2>1, <2>2, <2>3, <3>2 DEF Tried
      <4>2. exchange = NoExchange  BY <2>1, <4>1 DEF FailoverTypes
      <4>3. acts[at] = 0 /\ received[at] = 0  BY <2>1, <4>1, <4>2 DEF Tried
      <4> QED BY <4>1, <4>3
    <3> QED BY <3>1, <3>2
  <2>4. result \notin {"none", "invalid"} => result = events[Len(events)].err  BY <2>1 DEF Tried
  <2> QED BY <2>1, <2>3, <2>4 DEF CostsAreReported, Billed
<1> QED BY <1>1, FailoverInvariant, PTL

(* What a deployment has rejected as malformed goes to no other under       *)
(* FailoverTransientOnly, and what has succeeded to none at all.            *)
THEOREM RejectionsStayHome == DeliverySpec => []RejectedStaysHome
<1>1. ASSUME FailoverInv PROVE RejectedStaysHome
  <2>1. FailoverTypes /\ Tried /\ Handed  BY <1>1 DEF FailoverInv
  <2>2. /\ DOMAIN Chain = 1..Len(Chain) /\ Len(Chain) \in Nat /\ at \in Nat
    BY <2>1, Chained DEF FailoverTypes
  <2>3. ASSUME NEW i \in DOMAIN events, NEW d \in DOMAIN Chain, d > i, acts[d] > 0
        PROVE  /\ events[i].err \notin {"ok", "malformed", "context"}
               /\ request.policy = "transient" => events[i].err # "400"
    <3>1. d <= at
      <4>1. ~ (d > at)  BY <2>1, <2>3 DEF Tried
      <4> QED BY <2>2, <4>1
    <3>2. i \in Nat /\ i >= 1
      <4>1. events \in Seq(Reported)  BY <2>1 DEF FailoverTypes
      <4> QED BY <4>1
    <3>3. i \in 1..(at - 1)  BY <2>2, <2>3, <3>1, <3>2
    <3> QED BY <2>1, <3>3 DEF Handed
  <2> QED BY <2>3 DEF RejectedStaysHome
<1> QED BY <1>1, FailoverInvariant, PTL
==============================================================================
