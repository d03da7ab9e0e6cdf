--------------------------- MODULE RetryTransport ---------------------------
(* One HTTP exchange as DoHTTPWithOptions makes it: attempts, which answers *)
(* and failures are worth another one, and the waits between them.          *)
(*                                                                          *)
(* A call is a record: what it asks, whether resending it may do it twice   *)
(* (nonIdempotent), its attempt number, the attempts it may make, the time  *)
(* spent of its budget, the time left to its context (NoDeadline: no end),  *)
(* and the wait it is in, with the provider's hint for it.                  *)
EXTENDS Integers, FiniteSets, FiniteSetsExt

CONSTANTS MaxRetries,        \* Config.MaxRetries
          DisableRetries,    \* Config.DisableRetries
          RetryBudget,       \* Config.RetryBudget, 0: unlimited
          BaseDelay, MaxDelay, Factor,  \* Config.RetryPolicy
          MaxRetryAfter      \* the cap on a provider's hint

DefaultHTTPMaxAttempts == 3
NoDeadline == -1

ASSUME RetryAssumption ==
    /\ {MaxRetries, RetryBudget} \subseteq Int /\ DisableRetries \in BOOLEAN
    /\ {BaseDelay, MaxDelay, Factor, MaxRetryAfter} \subseteq Nat \ {0}

Attempts(single) ==
    IF single \/ DisableRetries THEN 1
    ELSE IF MaxRetries <= 0 THEN DefaultHTTPMaxAttempts
    ELSE Max({3, MaxRetries})

IdempotentSafeStatus(status) == status \in {"429", "503"}
RetryableHTTPStatus(status)  == status \in {"408", "429", "500", "502", "503", "504"}

(* RetryPolicy.Delay: exponential, capped, with a quarter of jitter either  *)
(* way, and never nothing.                                                  *)
Exponential[n \in Nat] ==
    Min({IF n = 0 THEN BaseDelay ELSE Exponential[n - 1] * Factor, MaxDelay})
Clamped(d) == IF d > MaxDelay THEN MaxDelay ELSE IF d <= 0 THEN BaseDelay ELSE d
Delays(n) ==
    LET jitter == Exponential[n] \div 4
    IN {Clamped(Exponential[n] + j) : j \in {0} \union (-jitter)..(jitter - 1)}

(* parseRetryAfter: a hint above the cap is clamped as it is read.          *)
ParseRetryAfter(raw) == Min({raw, MaxRetryAfter})

(* Faulty: a long hint is clamped only after the comparison, and shortens   *)
(* the waits above the cap.                                                 *)
BackoffForClampedLate(n, raw) ==
    {IF raw > d THEN Min({raw, MaxRetryAfter}) ELSE d : d \in Delays(n)}

(* The hint stretches the wait that is shorter, and shortens none.          *)
BackoffFor(n, raw) ==
    LET retryAfter == ParseRetryAfter(raw)
    IN {IF retryAfter > d THEN retryAfter ELSE d : d \in Delays(n)}

NewCall(what, nonIdempotent, single, left) ==
    [what |-> what, nonIdempotent |-> nonIdempotent, attempts |-> Attempts(single),
     attempt |-> 0, spent |-> 0, left |-> left, wait |-> 0, hint |-> 0]

Spend(call, t) ==
    [call EXCEPT !.spent = IF RetryBudget > 0 THEN @ + t ELSE @,
                 !.left  = IF @ = NoDeadline THEN @ ELSE Max({0, @ - t})]

Allows(call, delay)               == RetryBudget <= 0 \/ call.spent + delay < RetryBudget
SleepOutlastsDeadline(call, delay) == call.left # NoDeadline /\ delay >= call.left

(* Faulty: the budget is looked at without the wait that is to come.        *)
MayWaitLate(call, delay) ==
    /\ call.attempt + 1 < call.attempts
    /\ RetryBudget <= 0 \/ call.spent < RetryBudget
    /\ ~ SleepOutlastsDeadline(call, delay)

(* Faulty: one attempt too many.                                            *)
MayWaitOnceMore(call, delay) ==
    call.attempt < call.attempts /\ Allows(call, delay) /\ ~ SleepOutlastsDeadline(call, delay)

MayWait(call, delay) ==
    /\ call.attempt + 1 < call.attempts
    /\ Allows(call, delay)
    /\ ~ SleepOutlastsDeadline(call, delay)

(* Faulty: a create is sent again whatever became of it.                    *)
ResendableAlways(call, failure) ==
    failure \in {"dial", "broken"} \/ RetryableHTTPStatus(failure)

(* What may be sent again: a failure is a status, "dial" (the connection    *)
(* was never made), "broken" (it failed later) or "fatal".                  *)
Resendable(call, failure) ==
    CASE failure = "fatal"  -> FALSE
      [] failure = "dial"   -> TRUE
      [] failure = "broken" -> ~ call.nonIdempotent
      [] OTHER -> RetryableHTTPStatus(failure)
                  /\ (call.nonIdempotent => IdempotentSafeStatus(failure))

(* The calls a failed attempt leads to, asleep before the next attempt;     *)
(* when the wait does not fit, or there is nothing left to try, none.       *)
Asleep(call, failure, hint) ==
    {[call EXCEPT !.wait = d, !.hint = hint] : d \in
        {d \in BackoffFor(call.attempt, hint) : Resendable(call, failure) /\ MayWait(call, d)}}

GivesUp(call, failure, hint) ==
    ~ Resendable(call, failure) \/ \E d \in BackoffFor(call.attempt, hint) : ~ MayWait(call, d)

Awake(call) == [Spend(call, call.wait) EXCEPT !.attempt = @ + 1, !.wait = 0, !.hint = 0]
=============================================================================
