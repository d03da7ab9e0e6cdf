----------------------------- MODULE DevicePoll -----------------------------
(* PollDeviceToken of oauth.go: the token endpoint is asked again until the *)
(* user has decided, the device code has expired or the caller gives up.    *)
(* Time is in seconds, scaled down with the limits.                         *)
EXTENDS Naturals

CONSTANTS Intervals, Expiries,  \* what the server's first answer may hold, 0: nothing
          DefaultInterval, MaxInterval, SlowDown, MaxExpiry,
          MaxPolls  \* bound of the model: the caller gives up after so many

ASSUME PollAssumption ==
    /\ Intervals \subseteq Nat /\ Expiries \subseteq Nat
    /\ {DefaultInterval, MaxInterval, SlowDown, MaxExpiry, MaxPolls} \subseteq Nat
    /\ DefaultInterval <= MaxInterval

VARIABLES now,       \* the clock
          asked,     \* the interval of the server's first answer
          interval,  \* between two polls
          deadline,  \* of the device code, 0: none
          polling,   \* "waiting", "asking" or what PollDeviceToken returned
          polls,     \* requests sent
          lastPoll,  \* when the last one was sent, 0: none
          slowDowns  \* how often the server has asked for a longer interval
pollVars == <<now, asked, interval, deadline, polling, polls, lastPoll, slowDowns>>

Least(a, b) == IF a <= b THEN a ELSE b

(* clampPollInterval, clampExpiry.                                          *)
PollInterval(seconds) == IF seconds = 0 THEN DefaultInterval ELSE Least(seconds, MaxInterval)
Expiry(seconds)       == Least(seconds, MaxExpiry)

PollInit == /\ now = 1 /\ polls = 0 /\ lastPoll = 0 /\ slowDowns = 0
            /\ polling = "waiting"
            /\ asked \in Intervals /\ interval = PollInterval(asked)
            /\ \E x \in Expiries : deadline = IF x = 0 THEN 0 ELSE now + Expiry(x)

ExpiredAt(t) == deadline # 0 /\ t > deadline

PollOnceMore ==  \* Faulty: the deadline is looked at before the wait
    /\ polling = "waiting" /\ polls < MaxPolls
    /\ now' = now + interval
    /\ IF ExpiredAt(now) THEN polling' = "expired" /\ UNCHANGED <<polls, lastPoll>>
       ELSE polling' = "asking" /\ polls' = polls + 1 /\ lastPoll' = now'
    /\ UNCHANGED <<asked, interval, deadline, slowDowns>>

(* The wait, then the deadline, then the request.                           *)
Poll == /\ polling = "waiting" /\ polls < MaxPolls
        /\ now' = now + interval
        /\ IF ExpiredAt(now') THEN polling' = "expired" /\ UNCHANGED <<polls, lastPoll>>
           ELSE polling' = "asking" /\ polls' = polls + 1 /\ lastPoll' = now'
        /\ UNCHANGED <<asked, interval, deadline, slowDowns>>

(* The answer takes up to a second.                                         *)
Answered(how) == /\ polling = "asking"
                 /\ now' \in {now, now + 1}
                 /\ polling' = how
                 /\ UNCHANGED <<asked, deadline, polls, lastPoll>>

Decided == /\ \E how \in {"token", "denied", "failed"} : Answered(how)
           /\ UNCHANGED <<interval, slowDowns>>
Pending == Answered("waiting") /\ UNCHANGED <<interval, slowDowns>>

SlowedDownOnce ==  \* Faulty: the interval grows only the first time
    /\ Answered("waiting")
    /\ slowDowns' = slowDowns + 1
    /\ interval' = IF slowDowns = 0 THEN Least(interval + SlowDown, MaxInterval) ELSE interval

SlowedDown == /\ Answered("waiting")
              /\ slowDowns' = slowDowns + 1
              /\ interval' = Least(interval + SlowDown, MaxInterval)

CallerGivesUp == /\ polling = "waiting" /\ polling' = "cancelled"
                 /\ UNCHANGED <<now, asked, interval, deadline, polls, lastPoll, slowDowns>>
=============================================================================
