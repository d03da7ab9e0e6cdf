-------------------------- MODULE PeerWaitsProofs --------------------------
(* What is proved of the waits for a peer: realtime sessions, the idle      *)
(* watchdog, the polling for a device token and the race of dialled         *)
(* addresses, each by an inductive invariant over the steps of its own      *)
(* component; the other components' steps leave its variables alone.        *)
EXTENDS PeerWaits, FiniteSetTheorems, TLAPS

-----------------------------------------------------------------------------
(* Realtime sessions. Whoever is in Close has set the flag alone, and the   *)
(* connection is closed once, by it; only the peer's end sets the flag      *)
(* otherwise.                                                               *)
Working == {"nothing", "reading", "writing", "ending", "closing"}

SessionInv ==
    /\ doing \in [Users -> Working]
    /\ closed \in BOOLEAN /\ closes \in {0, 1}
    /\ \A u \in Users : At(u, "ending") => peer = "gone"
    /\ \A u \in Users : At(u, "closing") => closed /\ closes = 0
    /\ \A u, v \in Users : At(u, "closing") /\ At(v, "closing") => u = v
    /\ closes = 1 => closed
    /\ closed /\ (\A u \in Users : ~At(u, "closing")) => closes = 1 \/ peer = "gone"

LEMMA SessionInit0 == Init => SessionInv
<1> SUFFICES ASSUME Init PROVE SessionInv  OBVIOUS
<1>1. closed = FALSE /\ peer = "up" /\ closes = 0 /\ doing = [u \in Users |-> "nothing"]
  BY DEF Init, SessionInit
<1>2. \A u \in Users : ~At(u, "ending") /\ ~At(u, "closing")  BY <1>1 DEF At
<1>3. doing \in [Users -> Working]  BY <1>1 DEF Working
<1>4. closed \in BOOLEAN /\ ~closed  BY <1>1, Zenon
<1>5. closes \in {0, 1} /\ closes # 1  BY <1>1
<1> QED BY <1>2, <1>3, <1>4, <1>5 DEF SessionInv

LEMMA UserKeeps ==
  ASSUME SessionInv, NEW u \in Users, UserStep(u)
  PROVE  SessionInv'
<1> USE DEF SessionInv, At, Working, Enters, Leaves
<1>1. CASE Transfers(u)      BY <1>1 DEF Transfers
<1>2. CASE TransferFails(u)  BY <1>2 DEF TransferFails
<1>3. CASE ReadsEnd(u)       BY <1>3 DEF ReadsEnd
<1>4. CASE Ended(u)          BY <1>4 DEF Ended
<1>5. CASE CloseSession(u)
  <2>1. CASE closed  BY <1>5, <2>1 DEF CloseSession
  <2>2. CASE ~closed
    <3>1. \A v \in Users : ~At(v, "closing")  BY <2>2
    <3>2. doing' = [doing EXCEPT ![u] = "closing"] /\ closed' = TRUE /\ UNCHANGED <<peer, closes>>
      BY <1>5, <2>2 DEF CloseSession
    <3> QED BY <2>2, <3>1, <3>2
  <2> QED BY <2>1, <2>2
<1>6. CASE ClosesConnection(u)
  <2>1. closed /\ closes = 0 /\ closes' = 1  BY <1>6 DEF ClosesConnection
  <2>2. \A v \in Users : doing'[v] # "closing"  BY <1>6 DEF ClosesConnection
  <2> QED BY <1>6, <2>1, <2>2 DEF ClosesConnection
<1>7. CASE \E op \in {"reading", "writing"} : Use(u, op)  BY <1>7 DEF Use
<1> QED BY <1>1, <1>2, <1>3, <1>4, <1>5, <1>6, <1>7 DEF UserStep

LEMMA SessionStep == SessionInv /\ [Next]_vars => SessionInv'
<1> SUFFICES ASSUME SessionInv, [Next]_vars PROVE SessionInv'  OBVIOUS
<1>1. CASE UNCHANGED sessionVars
  BY <1>1 DEF sessionVars, SessionInv, At
<1>2. CASE Talking
  <2>1. CASE \E u \in Users : UserStep(u)  BY <2>1, UserKeeps
  <2>2. CASE PeerLeaves  BY <2>2 DEF PeerLeaves, SessionInv, At
  <2> QED BY <1>2, <2>1, <2>2 DEF Talking
<1>3. CASE UNCHANGED vars  BY <1>1, <1>3 DEF vars
<1> QED
  BY <1>1, <1>2, <1>3 DEF Next, Dials, Streams, Polls, Attempting, Racing, GivingUp, Sending, Entering,
      Reading, Watching, Leaving, Polling, Answering, Abandoning

(* A session that reports itself closed has closed its connection, exactly  *)
(* once, or has seen the peer's end, for any number of goroutines.          *)
THEOREM SessionsEndOnce == Spec => []ClosedSessionIsOver
<1>1. SessionInv => ClosedSessionIsOver  BY DEF SessionInv, ClosedSessionIsOver
<1> QED BY <1>1, SessionInit0, SessionStep, PTL DEF Spec

-----------------------------------------------------------------------------
(* The idle watchdog. A body is closed only after the mark or by the        *)
(* consumer, who then reads no more: what the mark decides is right.        *)
BodyInv ==
    /\ reading \in {"outside", "body", "returned", "resetting"}
    /\ read \in {"nothing", "data", "end", "closed", "timeout", "left"}
    /\ arrivedBytes \in Nat
    /\ watchdog = "closing" => expired
    /\ bodyClosed => expired \/ read = "left"
    /\ reading = "body" => read \in {"nothing", "data"}
    /\ reading = "returned" => read \in {"data", "end", "closed"}
    /\ reading = "resetting" => read = "data"
    /\ read = "closed" => reading = "returned" /\ expired
    /\ read = "end" => provider = "finished" /\ arrivedBytes = 0
    /\ read = "timeout" => expired

LEMMA BodyInit0 == Init => BodyInv
  BY DEF Init, BodyInit, BodyInv

LEMMA BodyStep == BodyInv /\ [Next]_vars => BodyInv'
<1> SUFFICES ASSUME BodyInv, [Next]_vars PROVE BodyInv'  OBVIOUS
<1> USE DEF BodyInv
<1>1. CASE UNCHANGED bodyVars  BY <1>1 DEF bodyVars
<1>2. CASE Sending
  <2>1. CASE ProviderSends  BY <2>1 DEF ProviderSends
  <2>2. CASE ProviderStops  BY <2>2 DEF ProviderStops
  <2> QED BY <1>2, <2>1, <2>2 DEF Sending
<1>3. CASE Entering  BY <1>3 DEF Entering, EnterRead, OfReader
<1>4. CASE Reading
  <2>1. CASE BodyReturns  BY <2>1 DEF BodyReturns, OfReader
  <2>2. CASE ReadExpired  BY <2>2 DEF ReadExpired, OfReader
  <2>3. CASE ReadGoesOn   BY <2>3 DEF ReadGoesOn, OfReader
  <2>4. CASE ResetTimer   BY <2>4 DEF ResetTimer, OfReader
  <2> QED BY <1>4, <2>1, <2>2, <2>3, <2>4 DEF Reading, ReadStep
<1>5. CASE Watching
  <2>1. CASE TimerExpires  BY <2>1 DEF TimerExpires, OfWatchdog
  <2>2. CASE MarkExpired   BY <2>2 DEF MarkExpired, OfWatchdog
  <2>3. CASE CutBody       BY <2>3 DEF CutBody, OfWatchdog
  <2> QED BY <1>5, <2>1, <2>2, <2>3 DEF Watching, WatchdogStep
<1>6. CASE Leaving  BY <1>6 DEF Leaving, CloseBody, OfReader
<1>7. CASE UNCHANGED vars  BY <1>1, <1>7 DEF vars
<1> QED
  BY <1>1, <1>2, <1>3, <1>4, <1>5, <1>6, <1>7 DEF Next, Dials, Converses, Polls, Attempting, Racing,
      GivingUp, Talking, Polling, Answering, Abandoning

(* What the watchdog cuts is reported as an idle timeout, and an end only   *)
(* when the provider has finished and everything was read.                  *)
THEOREM CutsAreNamed == Spec => []CutIsNamed
<1>1. BodyInv => CutIsNamed  BY DEF BodyInv, CutIsNamed
<1> QED BY <1>1, BodyInit0, BodyStep, PTL DEF Spec

-----------------------------------------------------------------------------
(* The device token. Time only grows, the deadline stays, and the interval  *)
(* has grown by what the slow_downs ask for, up to the ceiling.             *)
PollInv ==
    /\ now \in Nat /\ asked \in Nat /\ interval \in Nat /\ deadline \in Nat
    /\ polls \in Nat /\ slowDowns \in Nat /\ lastPoll \in Nat /\ lastPoll <= now
    /\ interval <= MaxInterval
    /\ interval >= Least(PollInterval(asked) + slowDowns * SlowDown, MaxInterval)

LEMMA PollInit0 == Init => PollInv
<1> SUFFICES ASSUME Init PROVE PollInv  OBVIOUS
<1> USE PollAssumption
<1>1. asked \in Nat /\ now = 1 /\ polls = 0 /\ slowDowns = 0 /\ lastPoll = 0 /\ interval = PollInterval(asked)
  BY DEF Init, PollInit
<1>2. PollInterval(asked) \in Nat /\ PollInterval(asked) <= MaxInterval
  BY <1>1 DEF PollInterval, Least
<1>3. deadline \in Nat
  <2>1. PICK x \in Expiries : deadline = IF x = 0 THEN 0 ELSE now + Expiry(x)  BY DEF Init, PollInit
  <2>2. x \in Nat  OBVIOUS
  <2>3. Expiry(x) \in Nat  BY <2>2 DEF Expiry, Least
  <2> QED BY <2>1, <2>3, <1>1
<1>4. slowDowns * SlowDown = 0  BY <1>1
<1> QED BY <1>1, <1>2, <1>3, <1>4 DEF PollInv, Least

LEMMA Slower ==
  ASSUME NEW a \in Nat, NEW b \in Nat, NEW s \in Nat, b >= Least(a + s * SlowDown, MaxInterval)
  PROVE  Least(b + SlowDown, MaxInterval) >= Least(a + (s + 1) * SlowDown, MaxInterval)
<1> USE PollAssumption
<1>1. s * SlowDown \in Nat  OBVIOUS
<1>2. (s + 1) * SlowDown = s * SlowDown + SlowDown  OBVIOUS
<1> QED BY <1>1, <1>2 DEF Least

LEMMA PollStep == PollInv /\ [Next]_vars => PollInv'
<1> SUFFICES ASSUME PollInv, [Next]_vars PROVE PollInv'  OBVIOUS
<1> USE PollAssumption DEF PollInv
<1>1. CASE UNCHANGED pollVars  BY <1>1 DEF pollVars, PollInterval
<1>2. CASE Polling
  <2>1. now' = now + interval /\ UNCHANGED <<asked, interval, deadline, slowDowns>>  BY <1>2 DEF Polling, Poll
  <2>2. CASE ExpiredAt(now')  BY <1>2, <2>1, <2>2 DEF Polling, Poll
  <2>3. CASE ~ExpiredAt(now')
    <3>1. lastPoll' = now' /\ polls' = polls + 1 /\ (deadline = 0 \/ now' <= deadline)
      BY <1>2, <2>1, <2>3 DEF Polling, Poll, ExpiredAt
    <3> QED BY <2>1, <3>1
  <2> QED BY <2>2, <2>3
<1>3. CASE Answering
  <2>1. ASSUME NEW how, Answered(how)
        PROVE  now' \in Nat /\ now <= now' /\ UNCHANGED <<asked, deadline, lastPoll, polls>>
    BY <2>1 DEF Answered
  <2>2. CASE Decided
    <3>1. PICK how \in {"token", "denied", "failed"} : Answered(how)  BY <2>2 DEF Decided
    <3> QED BY <2>1, <2>2, <3>1 DEF Decided
  <2>3. CASE Pending  BY <2>1, <2>3 DEF Pending
  <2>4. CASE SlowedDown
    <3>1. now' \in Nat /\ now <= now' /\ UNCHANGED <<asked, deadline, lastPoll, polls>>  BY <2>1, <2>4 DEF SlowedDown
    <3>2. slowDowns' = slowDowns + 1 /\ interval' = Least(interval + SlowDown, MaxInterval)  BY <2>4 DEF SlowedDown
    <3>3. PollInterval(asked) \in Nat  BY PollAssumption DEF PollInterval, Least
    <3>4. interval' >= Least(PollInterval(asked) + (slowDowns + 1) * SlowDown, MaxInterval)
      BY <3>2, <3>3, Slower
    <3>5. interval' \in Nat /\ interval' <= MaxInterval  BY <3>2 DEF Least
    <3> QED BY <3>1, <3>2, <3>4, <3>5
  <2> QED BY <1>3, <2>2, <2>3, <2>4 DEF Answering
<1>4. CASE Abandoning  BY <1>4 DEF Abandoning, CallerGivesUp
<1>5. CASE UNCHANGED vars  BY <1>1, <1>5 DEF vars
<1> QED
  BY <1>1, <1>2, <1>3, <1>4, <1>5 DEF Next, Dials, Streams, Converses, Attempting, Racing, GivingUp, Sending,
      Entering, Reading, Watching, Leaving, Talking

(* Two polls are never closer than the server has asked for, up to the      *)
(* ceiling, and none is sent after the device code has expired, whatever    *)
(* intervals and expiries the server sends.                                 *)
THEOREM PollsAreAllowed == Spec => PollsObeyTheServer
<1> DEFINE Allowed == polls' > polls =>
             /\ lastPoll # 0 => lastPoll' - lastPoll >= Least(PollInterval(asked) + slowDowns * SlowDown, MaxInterval)
             /\ deadline # 0 => lastPoll' <= deadline
<1>1. PollInv /\ [Next]_vars => [Allowed]_vars
  <2> SUFFICES ASSUME PollInv, Next, ~ UNCHANGED vars PROVE Allowed  OBVIOUS
  <2> USE DEF PollInv
  <2>1. CASE Polling
    <3>1. now' = now + interval  BY <2>1 DEF Polling, Poll
    <3>2. CASE ExpiredAt(now')
      <4>1. polls' = polls  BY <2>1, <3>2 DEF Polling, Poll
      <4> QED BY <4>1
    <3>3. CASE ~ExpiredAt(now')
      <4>1. lastPoll' = now' /\ (deadline # 0 => now' <= deadline)  BY <2>1, <3>3 DEF Polling, Poll, ExpiredAt, PollInv
      <4>2. PollInterval(asked) + slowDowns * SlowDown \in Nat
        BY PollAssumption DEF PollInterval, Least
      <4> QED BY <3>1, <4>1, <4>2, PollAssumption DEF Least
    <3> QED BY <3>2, <3>3
  <2>2. CASE polls' = polls  BY <2>2
  <2>3. Polling \/ polls' = polls
    BY DEF Next, Dials, Streams, Converses, Attempting, Racing, GivingUp, Sending, Entering, Reading, Watching,
        Leaving, Talking, Answering, Abandoning, Decided, Pending, SlowedDown, Answered, CallerGivesUp, pollVars
  <2> QED BY <2>1, <2>2, <2>3
<1> QED BY <1>1, PollInit0, PollStep, PTL DEF Spec, PollsObeyTheServer

-----------------------------------------------------------------------------
(* The race of dialled addresses. Lemmas about the order of the attempts:   *)
(* turns differ, so the places are a permutation and every address is tried *)
(* once, the resolver's first one first.                                    *)
Families == {4, 6}

LEMMA Counted ==
  ASSUME NEW n \in Nat, NEW S \in SUBSET (1..n), NEW T \in SUBSET (1..n)
  PROVE  /\ Cardinality(S) \in 0..n /\ IsFiniteSet(S)
         /\ S \subseteq T => Cardinality(S) <= Cardinality(T)
         /\ \A t \in T : S \subseteq T /\ t \notin S => Cardinality(S) < Cardinality(T)
<1>1. IsFiniteSet(1..n) /\ Cardinality(1..n) = n  BY FS_Interval
<1>2. IsFiniteSet(S) /\ Cardinality(S) <= n  BY <1>1, FS_Subset
<1>3. IsFiniteSet(T)  BY <1>1, FS_Subset
<1>4. Cardinality(S) \in Nat /\ Cardinality(T) \in Nat  BY <1>2, <1>3, FS_CardinalityType
<1>5. S \subseteq T => Cardinality(S) <= Cardinality(T)  BY <1>3, FS_Subset
<1>6. ASSUME NEW t \in T, S \subseteq T, t \notin S PROVE Cardinality(S) < Cardinality(T)
  <2>1. Cardinality(S \cup {t}) = Cardinality(S) + 1  BY <1>2, <1>6, FS_AddElement
  <2>2. S \cup {t} \in SUBSET T  BY <1>6
  <2>3. Cardinality(S \cup {t}) <= Cardinality(T)  BY <2>2, <1>3, FS_Subset
  <2> QED BY <2>1, <2>3, <1>4
<1> QED BY <1>2, <1>4, <1>5, <1>6

LEMMA RankCounted ==
  ASSUME NEW f \in Seq(Families), NEW i \in DOMAIN f
  PROVE  \E m \in Nat : m >= 1 /\ m = Cardinality({l \in 1..i : f[l] = f[i]})
<1> DEFINE Same == {l \in 1..i : f[l] = f[i]}
<1>1. i \in Nat /\ i \in 1..i /\ {} \in SUBSET (1..i) /\ Same \in SUBSET (1..i) /\ i \in Same  OBVIOUS
<1>2. Cardinality({}) = 0 /\ {} \subseteq Same /\ i \notin {}  BY FS_EmptySet
<1> HIDE DEF Same
<1>3. Cardinality({}) < Cardinality(Same) /\ Cardinality(Same) \in Nat  BY <1>1, <1>2, Counted
<1>4. Cardinality(Same) >= 1  BY <1>2, <1>3
<1> QED BY <1>3, <1>4 DEF Same

LEMMA TurnBounds ==
  ASSUME NEW f \in Seq(Families), NEW i \in DOMAIN f
  PROVE  Turn(f, i) \in Nat /\ Turn(f, i) >= 2
<1>1. PICK m \in Nat : m >= 1 /\ m = Cardinality({l \in 1..i : f[l] = f[i]})  BY RankCounted
<1> QED BY <1>1 DEF Turn

LEMMA TurnsDiffer ==
  ASSUME NEW f \in Seq(Families), NEW i \in DOMAIN f, NEW j \in DOMAIN f, i < j
  PROVE  Turn(f, i) # Turn(f, j)
<1> DEFINE Same(k) == {l \in 1..k : f[l] = f[k]}
<1>1. i \in Nat /\ j \in Nat /\ i \in 1..j /\ 1 \in DOMAIN f  OBVIOUS
<1>2. PICK m \in Nat : m = Cardinality(Same(i))  BY RankCounted
<1>3. PICK n \in Nat : n = Cardinality(Same(j))  BY RankCounted
<1>4. Turn(f, i) = 2 * m + (IF f[i] = f[1] THEN 0 ELSE 1)  BY <1>2 DEF Turn
<1>5. Turn(f, j) = 2 * n + (IF f[j] = f[1] THEN 0 ELSE 1)  BY <1>3 DEF Turn
<1>6. CASE f[i] = f[j]
  <2>1. Same(i) \in SUBSET (1..j) /\ Same(j) \in SUBSET (1..j) /\ Same(i) \subseteq Same(j)
    BY <1>1, <1>6
  <2>2. j \in Same(j) /\ j \notin Same(i)  BY <1>1
  <2> HIDE DEF Same
  <2>3. m < n  BY <2>1, <2>2, <1>1, <1>2, <1>3, Counted
  <2> QED BY <2>3, <1>4, <1>5, <1>6
<1>7. CASE f[i] # f[j]
  <2>1. f[i] = f[1] <=> f[j] # f[1]  BY <1>1, <1>7 DEF Families
  <2>2. CASE f[i] = f[1]  BY <2>1, <2>2, <1>4, <1>5
  <2>3. CASE f[i] # f[1]  BY <2>1, <2>3, <1>4, <1>5
  <2> QED BY <2>2, <2>3
<1> QED BY <1>6, <1>7

LEMMA PlacesDiffer ==
  ASSUME NEW f \in Seq(Families), NEW i \in DOMAIN f, NEW j \in DOMAIN f
  PROVE  /\ Place(f, i) \in DOMAIN f
         /\ Place(f, i) = Place(f, j) => i = j
<1> DEFINE Upto(k) == {l \in DOMAIN f : Turn(f, l) <= Turn(f, k)}
<1>1. Len(f) \in Nat /\ DOMAIN f = 1..Len(f)  OBVIOUS
<1>2. \A k \in DOMAIN f : Turn(f, k) \in Nat  BY TurnBounds
<1>3. \A k \in DOMAIN f : Upto(k) \in SUBSET (1..Len(f)) /\ k \in Upto(k)  BY <1>1, <1>2
<1>4. \A k, l \in DOMAIN f : Turn(f, k) < Turn(f, l) => Upto(k) \subseteq Upto(l) /\ l \notin Upto(k)
  BY <1>2
<1>5. \A k \in DOMAIN f : Place(f, k) = Cardinality(Upto(k))  BY DEF Place
<1> HIDE DEF Upto
<1>6. ASSUME NEW k \in DOMAIN f, NEW l \in DOMAIN f, Turn(f, k) < Turn(f, l)
      PROVE  Place(f, k) < Place(f, l)
  <2>1. Upto(k) \subseteq Upto(l) /\ l \notin Upto(k) /\ l \in Upto(l)  BY <1>3, <1>4, <1>6
  <2>2. Cardinality(Upto(k)) < Cardinality(Upto(l))  BY <2>1, <1>1, <1>3, Counted
  <2> QED BY <2>2, <1>5
<1>7. ASSUME NEW k \in DOMAIN f PROVE Place(f, k) \in Nat
  <2>1. Cardinality(Upto(k)) \in 0..Len(f)  BY <1>1, <1>3, Counted
  <2> QED BY <2>1, <1>1, <1>5
<1>8. Place(f, i) \in DOMAIN f
  <2>1. Cardinality(Upto(i)) \in 0..Len(f)  BY <1>1, <1>3, Counted
  <2>2. {} \in SUBSET (1..Len(f)) /\ {} \subseteq Upto(i) /\ i \notin {}  OBVIOUS
  <2>3. Cardinality({}) = 0  BY FS_EmptySet
  <2>4. Cardinality({}) < Cardinality(Upto(i))  BY <2>2, <1>1, <1>3, Counted
  <2>5. Cardinality(Upto(i)) \in 1..Len(f)  BY <2>1, <2>3, <2>4, <1>1
  <2> QED BY <2>5, <1>1, <1>5
<1>9. ASSUME i # j PROVE Place(f, i) # Place(f, j)
  <2>1. Turn(f, i) # Turn(f, j)  BY <1>9, <1>1, TurnsDiffer
  <2>2. CASE Turn(f, i) < Turn(f, j)  BY <2>2, <1>6, <1>7
  <2>3. CASE Turn(f, j) < Turn(f, i)  BY <2>3, <1>6, <1>7
  <2> QED BY <2>1, <2>2, <2>3, <1>2
<1> QED BY <1>8, <1>9

LEMMA TriedOnce ==
  ASSUME NEW f \in Seq(Families), f # <<>>
  PROVE  /\ Interleaved(f) \in [DOMAIN f -> DOMAIN f]
         /\ \A k, l \in DOMAIN f : Interleaved(f)[k] = Interleaved(f)[l] => k = l
         /\ 1 \in DOMAIN f /\ Interleaved(f)[1] = 1
<1> DEFINE place == [i \in DOMAIN f |-> Place(f, i)]
<1>1. Len(f) \in Nat /\ DOMAIN f = 1..Len(f) /\ 1 \in DOMAIN f
  <2>1. Len(f) # 0  OBVIOUS
  <2> QED BY <2>1
<1>2. IsFiniteSet(DOMAIN f)  BY <1>1, FS_Interval
<1>3. place \in [DOMAIN f -> DOMAIN f]  BY PlacesDiffer
<1>4. \A i, j \in DOMAIN f : place[i] = place[j] => i = j  BY PlacesDiffer
<1>5. place \in Injection(DOMAIN f, DOMAIN f)  BY <1>3, <1>4 DEF Injection, IsInjective
<1>6. place \in Surjection(DOMAIN f, DOMAIN f)  BY <1>2, <1>5, FS_Injection
<1>7. \A k \in DOMAIN f : \E i \in DOMAIN f : Place(f, i) = k  BY <1>6 DEF Surjection
<1>8. ASSUME NEW k \in DOMAIN f
      PROVE  Interleaved(f)[k] \in DOMAIN f /\ Place(f, Interleaved(f)[k]) = k
  BY <1>7 DEF Interleaved
<1>9. Interleaved(f) \in [DOMAIN f -> DOMAIN f]  BY <1>8 DEF Interleaved
<1>10. Place(f, 1) = 1
  <2>1. {l \in 1..1 : f[l] = f[1]} = {1}  OBVIOUS
  <2>2. Cardinality({1}) = 1  BY FS_Singleton
  <2>3. Turn(f, 1) = 2
    <3>1. Cardinality({l \in 1..1 : f[l] = f[1]}) = 1  BY <2>1, <2>2
    <3> QED BY <3>1 DEF Turn
  <2>4. ASSUME NEW l \in DOMAIN f, l # 1 PROVE ~(Turn(f, l) <= Turn(f, 1))
    <3>1. Turn(f, 1) # Turn(f, l)  BY <2>4, <1>1, TurnsDiffer
    <3>2. Turn(f, l) \in Nat /\ Turn(f, l) >= 2  BY TurnBounds
    <3> QED BY <3>1, <3>2, <2>3
  <2>5. {l \in DOMAIN f : Turn(f, l) <= Turn(f, 1)} = {1}  BY <2>3, <2>4, <1>1
  <2> QED BY <2>2, <2>5 DEF Place
<1>11. Interleaved(f)[1] = 1
  <2>1. Place(f, Interleaved(f)[1]) = Place(f, 1) /\ Interleaved(f)[1] \in DOMAIN f  BY <1>1, <1>8, <1>10
  <2> QED BY <2>1, <1>1, PlacesDiffer
<1> QED BY <1>1, <1>8, <1>9, <1>11

(* The race expects one result of each attempt that runs or has sent one; a *)
(* connection is open for an attempt that holds it, in a result that        *)
(* carries it, or as the winner's.                                          *)
Running == {a \in Addresses : attempts[a] \in {"dialling", "tunnelling", "open"}}
Sent    == {results[i].address : i \in {j \in DOMAIN results : results[j].ok}}
Held    == {a \in Addresses : attempts[a] \in {"tunnelling", "open"}}

Result == [address : Addresses, ok : BOOLEAN]

DialTypes ==
    /\ addresses \in Seq(Families) /\ addresses # <<>>
    /\ attempts \in [Addresses -> {"none", "dialling", "tunnelling", "open", "ended"}]
    /\ started \in 1..Len(addresses) /\ pending \in Nat
    /\ results \in Seq(Result)

(* The attempts have started in the interleaved order.                      *)
InOrder == \A k \in Addresses : attempts[Interleaved(addresses)[k]] = "none" <=> k > started

(* A result is sent once, at the end of its attempt.                        *)
SentOnce ==
    /\ \A i \in DOMAIN results : /\ attempts[results[i].address] = "ended"
                                 /\ results[i].address \notin winner
    /\ \A i, j \in DOMAIN results : results[i].address = results[j].address => i = j

DialInv ==
    /\ DialTypes /\ InOrder /\ SentOnce
    /\ pending = Cardinality(Running) + Len(results)
    /\ connected = Held \cup Sent \cup winner
    /\ outcome = "racing" => winner = {}
    /\ \A a \in winner : a \in Addresses /\ attempts[a] = "ended"

LEMMA RunningCounted ==
  ASSUME DialTypes
  PROVE  /\ IsFiniteSet(Running) /\ Cardinality(Running) \in Nat
         /\ 1 \in Addresses /\ Addresses = 1..Len(addresses) /\ Len(addresses) \in Nat
<1>1. Addresses = 1..Len(addresses) /\ Len(addresses) \in Nat /\ 1 \in Addresses
  <2>1. addresses \in Seq(Families) /\ addresses # <<>>  BY DEF DialTypes
  <2> QED BY <2>1, TriedOnce DEF Addresses
<1>2. Running \in SUBSET (1..Len(addresses))  BY <1>1 DEF Running
<1>3. Cardinality(Running) \in 0..Len(addresses) /\ IsFiniteSet(Running)  BY <1>1, <1>2, Counted
<1> QED BY <1>1, <1>3

LEMMA DialInit0 == Init => DialInv
<1> SUFFICES ASSUME Init PROVE DialInv  OBVIOUS
<1> USE DEF Addresses
<1>1. addresses \in Seq(Families) /\ addresses # <<>>
  BY ResolutionsAssumption DEF Init, DialInit, Families
<1>2. /\ attempts = [[a \in Addresses |-> "none"] EXCEPT ![1] = "dialling"]
      /\ started = 1 /\ pending = 1 /\ results = <<>>
      /\ outcome = "racing" /\ winner = {} /\ connected = {}
  BY DEF Init, DialInit
<1>3. 1 \in Addresses /\ Len(addresses) \in Nat /\ Addresses = 1..Len(addresses)  BY <1>1, TriedOnce
<1>4. DialTypes
  <2>1. attempts \in [Addresses -> {"none", "dialling", "tunnelling", "open", "ended"}]  BY <1>2
  <2>2. started \in 1..Len(addresses) /\ pending \in Nat  BY <1>2, <1>3
  <2>3. results \in Seq(Result)  BY <1>2
  <2> QED BY <1>1, <2>1, <2>2, <2>3 DEF DialTypes
<1>5. \A a \in Addresses : attempts[a] = IF a = 1 THEN "dialling" ELSE "none"  BY <1>2
<1>6. InOrder
  <2>1. \A k \in Addresses : Interleaved(addresses)[k] \in Addresses
    BY <1>1, TriedOnce
  <2>2. \A k \in Addresses : Interleaved(addresses)[k] = 1 <=> k = 1  BY <1>1, <1>3, TriedOnce
  <2>3. \A k \in Addresses : k > 1 <=> k # 1  BY <1>3
  <2> QED BY <1>2, <1>5, <2>1, <2>2, <2>3 DEF InOrder
<1>7. DOMAIN results = {} /\ Len(results) = 0  BY <1>2
<1>8. SentOnce  BY <1>7 DEF SentOnce
<1>9. Running = {1} /\ Held = {} /\ Sent = {}  BY <1>3, <1>5, <1>7 DEF Running, Held, Sent
<1>10. Cardinality(Running) = 1  BY <1>9, FS_Singleton
<1> QED BY <1>2, <1>4, <1>6, <1>7, <1>8, <1>9, <1>10 DEF DialInv

LEMMA AttemptKeeps ==
  ASSUME DialInv, NEW a \in Addresses,
         ProxyConnected(a) \/ TunnelOpened(a) \/ TunnelSent(a) \/ AttemptFails(a)
  PROVE  DialInv'
<1>1. DialTypes /\ InOrder /\ SentOnce /\ pending = Cardinality(Running) + Len(results)
  BY DEF DialInv
<1>2. connected = Held \cup Sent \cup winner /\ (outcome = "racing" => winner = {})
      /\ \A w \in winner : w \in Addresses /\ attempts[w] = "ended"
  BY DEF DialInv
<1>3. /\ UNCHANGED <<addresses, started, pending, outcome, winner>> /\ Addresses' = Addresses
      /\ attempts[a] \in {"dialling", "tunnelling", "open"}
  BY DEF ProxyConnected, TunnelOpened, TunnelSent, AttemptFails, OfAttempts, Addresses
<1>4. PICK how \in {"tunnelling", "open", "ended"} : attempts' = [attempts EXCEPT ![a] = how]
  BY DEF ProxyConnected, TunnelOpened, TunnelSent, AttemptFails
<1>5. \A b \in Addresses : attempts'[b] = IF b = a THEN how ELSE attempts[b]
  BY <1>1, <1>4 DEF DialTypes
<1>6. InOrder'
  <2>1. \A b \in Addresses : attempts'[b] = "none" <=> attempts[b] = "none"  BY <1>3, <1>5
  <2>2. \A k \in Addresses : Interleaved(addresses)[k] \in Addresses
    BY <1>1, TriedOnce DEF DialTypes, Addresses
  <2> QED BY <1>1, <1>3, <2>1, <2>2 DEF InOrder
<1>7. attempts' \in [Addresses -> {"none", "dialling", "tunnelling", "open", "ended"}]
  BY <1>1, <1>4 DEF DialTypes
<1>8. \A w \in winner : w \in Addresses /\ attempts'[w] = "ended" /\ w # a  BY <1>2, <1>3, <1>5
<1>9. \A i \in DOMAIN results : results[i].address \in Addresses /\ results[i].address # a
  <2>1. \A i \in DOMAIN results : results[i] \in Result  BY <1>1 DEF DialTypes
  <2>2. \A i \in DOMAIN results : attempts[results[i].address] = "ended"  BY <1>1 DEF SentOnce
  <2> QED BY <1>3, <2>1, <2>2 DEF Result
<1>10. CASE ProxyConnected(a) \/ TunnelOpened(a)
  <2>1. results' = results /\ how \in {"tunnelling", "open"}
    BY <1>1, <1>4, <1>10 DEF ProxyConnected, TunnelOpened, OfAttempts, DialTypes
  <2>2. Running' = Running  BY <1>3, <1>5, <2>1 DEF Running
  <2>3. connected' = connected \cup {a}
    <3>1. CASE ProxyConnected(a)  BY <3>1 DEF ProxyConnected
    <3>2. CASE TunnelOpened(a)  BY <3>2, <1>2 DEF TunnelOpened, Held
    <3> QED BY <1>10, <3>1, <3>2
  <2>4. Held' = Held \cup {a}  BY <1>3, <1>5, <2>1 DEF Held
  <2>5. Sent' = Sent  BY <2>1 DEF Sent
  <2>6. SentOnce'  BY <1>1, <1>3, <1>5, <1>9, <2>1 DEF SentOnce
  <2>7. DialTypes'
    <3>1. Result' = Result  BY <1>3 DEF Result
    <3> QED BY <1>1, <1>3, <1>7, <2>1, <3>1 DEF DialTypes
  <2>8. connected' = Held' \cup Sent' \cup winner'  BY <1>2, <1>3, <2>3, <2>4, <2>5
  <2> QED BY <1>1, <1>2, <1>3, <1>6, <1>8, <2>1, <2>2, <2>6, <2>7, <2>8 DEF DialInv
<1>11. CASE TunnelSent(a) \/ AttemptFails(a)
  <2>1. PICK sending \in BOOLEAN :
          /\ results' = Append(results, [address |-> a, ok |-> sending])
          /\ sending => attempts[a] = "open" /\ connected' = connected
          /\ ~sending => connected' = connected \ {a}
          /\ attempts' = [attempts EXCEPT ![a] = "ended"]
    <3>1. CASE TunnelSent(a)  BY <3>1 DEF TunnelSent
    <3>2. CASE AttemptFails(a)  BY <3>2 DEF AttemptFails
    <3> QED BY <1>11, <3>1, <3>2
  <2>2. \A b \in Addresses : attempts'[b] = IF b = a THEN "ended" ELSE attempts[b]
    BY <1>1, <2>1 DEF DialTypes
  <2> DEFINE here == [address |-> a, ok |-> sending]
  <2>3. /\ results \in Seq(Result) /\ Len(results) \in Nat
        /\ here \in Result
    BY <1>1 DEF DialTypes, Result
  <2>4. /\ results' \in Seq(Result)
        /\ Len(results') = Len(results) + 1 /\ DOMAIN results' = 1..(Len(results) + 1)
        /\ DOMAIN results = 1..Len(results)
        /\ \A i \in DOMAIN results : results'[i] = results[i]
        /\ results'[Len(results) + 1] = here
    <3> HIDE DEF here
    <3> QED BY <2>1, <2>3 DEF here
  <2>5. /\ \A i \in DOMAIN results' : i \in DOMAIN results \/ i = Len(results) + 1
        /\ \A i \in DOMAIN results : i \in DOMAIN results' /\ i # Len(results) + 1
        /\ Len(results) + 1 \in DOMAIN results'
    BY <2>3, <2>4
  <2>6. here.address = a /\ here.ok = sending  OBVIOUS
  <2> HIDE DEF here
  <2>7. DialTypes'
    <3>1. Result' = Result  BY <1>3 DEF Result
    <3> QED BY <1>1, <1>3, <1>7, <2>4, <3>1 DEF DialTypes
  <2>8. SentOnce'
    <3>1. \A i \in DOMAIN results' : attempts'[results'[i].address] = "ended"
                                    /\ results'[i].address \notin winner'
      BY <1>1, <1>3, <1>8, <1>9, <2>2, <2>4, <2>5, <2>6 DEF SentOnce
    <3>2. \A i, j \in DOMAIN results' : results'[i].address = results'[j].address => i = j
      BY <1>1, <1>9, <2>4, <2>5, <2>6 DEF SentOnce
    <3> QED BY <3>1, <3>2 DEF SentOnce
  <2>9. pending' = Cardinality(Running') + Len(results')
    <3>1. Running' = Running \ {a} /\ a \in Running  BY <1>3, <2>2 DEF Running
    <3>2. Cardinality(Running \ {a}) = Cardinality(Running) - 1  BY <1>1, <3>1, RunningCounted, FS_RemoveElement
    <3>3. PICK n \in Nat : n = Cardinality(Running)  BY <1>1, RunningCounted
    <3> QED BY <1>1, <1>3, <2>3, <2>4, <3>1, <3>2, <3>3
  <2>10. connected' = Held' \cup Sent' \cup winner'
    <3>1. Held' = Held \ {a}  BY <1>3, <2>2 DEF Held
    <3>2. Sent' = Sent \cup (IF sending THEN {a} ELSE {})
      BY <2>4, <2>5, <2>6 DEF Sent
    <3>3. a \notin winner /\ a \notin Sent  BY <1>8, <1>9 DEF Sent
    <3>4. sending => a \in Held  BY <2>1 DEF Held
    <3> QED BY <1>2, <1>3, <2>1, <3>1, <3>2, <3>3, <3>4
  <2> QED BY <1>2, <1>3, <1>6, <1>8, <2>2, <2>7, <2>8, <2>9, <2>10 DEF DialInv
<1> QED BY <1>3, <1>10, <1>11

(* Receiving a result: the rest of the channel moves up.                    *)
LEMMA Received ==
  ASSUME DialTypes, SentOnce, results # <<>>, results' = Tail(results)
  PROVE  /\ results' \in Seq(Result) /\ Len(results) \in Nat /\ Len(results) >= 1
         /\ Len(results') = Len(results) - 1
         /\ Head(results).address \in Addresses /\ Head(results).ok \in BOOLEAN
         /\ attempts[Head(results).address] = "ended" /\ Head(results).address \notin winner
         /\ \A i \in DOMAIN results' : /\ i + 1 \in DOMAIN results
                                       /\ results'[i] = results[i + 1]
                                       /\ results'[i].address # Head(results).address
         /\ \A i, j \in DOMAIN results' : results'[i].address = results'[j].address => i = j
         /\ Sent = Sent' \cup (IF Head(results).ok THEN {Head(results).address} ELSE {})
         /\ Head(results).address \notin Sent'
<1>1. results \in Seq(Result) /\ Len(results) \in Nat /\ DOMAIN results = 1..Len(results)
  BY DEF DialTypes
<1>2. Len(results) >= 1  BY <1>1
<1>3. /\ results' \in Seq(Result) /\ Len(results') = Len(results) - 1
      /\ DOMAIN results' = 1..(Len(results) - 1)
      /\ \A i \in 1..(Len(results) - 1) : results'[i] = results[i + 1]
  BY <1>1, <1>2
<1>4. Head(results) = results[1] /\ 1 \in DOMAIN results  BY <1>1, <1>2
<1>5. \A i \in DOMAIN results' : i + 1 \in DOMAIN results /\ i + 1 # 1 /\ results'[i] = results[i + 1]
  BY <1>1, <1>3
<1>6. \A i \in DOMAIN results : i = 1 \/ (i - 1 \in DOMAIN results' /\ results'[i - 1] = results[i])
  BY <1>1, <1>3
<1>7. \A i \in DOMAIN results' : results'[i].address # Head(results).address
  BY <1>4, <1>5 DEF SentOnce
<1>8. ASSUME NEW i \in DOMAIN results', NEW j \in DOMAIN results',
             results'[i].address = results'[j].address
      PROVE  i = j
  <2>1. i + 1 = j + 1  BY <1>5, <1>8 DEF SentOnce
  <2> QED BY <2>1, <1>3
<1>9. Head(results) \in Result  BY <1>1, <1>4
<1>10. Sent = Sent' \cup (IF Head(results).ok THEN {Head(results).address} ELSE {})
  <2>1. ASSUME NEW i \in DOMAIN results, results[i].ok
        PROVE  results[i].address \in Sent' \cup (IF Head(results).ok THEN {Head(results).address} ELSE {})
    BY <2>1, <1>4, <1>6 DEF Sent
  <2>2. ASSUME NEW i \in DOMAIN results', results'[i].ok PROVE results'[i].address \in Sent
    BY <2>2, <1>5 DEF Sent
  <2>3. Head(results).ok => Head(results).address \in Sent  BY <1>4 DEF Sent
  <2> QED BY <2>1, <2>2, <2>3 DEF Sent
<1>11. Head(results).address \notin Sent'  BY <1>7 DEF Sent
<1> QED BY <1>1, <1>2, <1>3, <1>4, <1>5, <1>7, <1>8, <1>9, <1>10, <1>11 DEF SentOnce, Result

(* Starting the next attempt, if there is an address left.                  *)
LEMMA NextStarted ==
  ASSUME DialTypes, InOrder, NEW n \in Nat, NEW expected \in Nat, expected = Cardinality(Running) + n,
         StartNext(expected), UNCHANGED addresses
  PROVE  /\ attempts' \in [Addresses -> {"none", "dialling", "tunnelling", "open", "ended"}]
         /\ started' \in 1..Len(addresses) /\ pending' \in Nat
         /\ pending' = Cardinality(Running') + n
         /\ InOrder' /\ Held' = Held
         /\ \A a \in Addresses : attempts[a] = "ended" => attempts'[a] = "ended"
<1>1. Addresses' = Addresses /\ Addresses = 1..Len(addresses) /\ Len(addresses) \in Nat
      /\ started \in 1..Len(addresses) /\ IsFiniteSet(Running)
  BY RunningCounted DEF Addresses, DialTypes
<1>2. CASE started >= Len(addresses)
  <2>1. pending' = expected /\ UNCHANGED <<started, attempts>>  BY <1>1, <1>2 DEF StartNext
  <2> QED BY <1>1, <2>1 DEF InOrder, Running, Held, DialTypes
<1>3. CASE started < Len(addresses)
  <2> DEFINE next == Interleaved(addresses)[started + 1]
  <2>1. started' = started + 1 /\ pending' = expected + 1 /\ attempts' = [attempts EXCEPT ![next] = "dialling"]
    BY <1>3 DEF StartNext, Starting
  <2>2. started + 1 \in Addresses  BY <1>1, <1>3
  <2>3. /\ \A k \in Addresses : Interleaved(addresses)[k] \in Addresses
        /\ \A k, l \in Addresses : Interleaved(addresses)[k] = Interleaved(addresses)[l] => k = l
    BY TriedOnce DEF DialTypes, Addresses
  <2>4. attempts[next] = "none" /\ next \in Addresses
    <3>1. started + 1 > started  BY <1>1
    <3> QED BY <2>2, <2>3, <3>1 DEF InOrder
  <2>5. \A k \in Addresses : Interleaved(addresses)[k] = next <=> k = started + 1  BY <2>2, <2>3
  <2> HIDE DEF next
  <2>6. \A a \in Addresses : attempts'[a] = IF a = next THEN "dialling" ELSE attempts[a]
    BY <2>1 DEF DialTypes
  <2>7. InOrder'
    <3>1. ASSUME NEW k \in Addresses
          PROVE  attempts'[Interleaved(addresses)[k]] = "none" <=> k > started'
      <4>1. CASE k = started + 1  BY <4>1, <1>1, <2>1, <2>4, <2>5, <2>6
      <4>2. CASE k # started + 1
        <5>1. attempts'[Interleaved(addresses)[k]] = attempts[Interleaved(addresses)[k]]
          BY <4>2, <2>3, <2>5, <2>6
        <5>2. k > started <=> k > started + 1  BY <4>2, <1>1
        <5> QED BY <5>1, <5>2, <2>1 DEF InOrder
      <4> QED BY <4>1, <4>2
    <3> QED BY <3>1, <1>1 DEF InOrder
  <2>8. Running' = Running \cup {next} /\ next \notin Running  BY <1>1, <2>4, <2>6 DEF Running
  <2>9. Held' = Held  BY <1>1, <2>4, <2>6 DEF Held
  <2>10. Cardinality(Running \cup {next}) = Cardinality(Running) + 1  BY <1>1, <2>8, FS_AddElement
  <2>11. attempts' \in [Addresses -> {"none", "dialling", "tunnelling", "open", "ended"}]
    BY <2>1, <2>4 DEF DialTypes
  <2>12. PICK m \in Nat : m = Cardinality(Running)  BY RunningCounted
  <2>13. pending' = Cardinality(Running') + n /\ pending' \in Nat  BY <2>1, <2>8, <2>10, <2>12
  <2>14. started' \in 1..Len(addresses)  BY <1>1, <1>3, <2>1
  <2>15. \A a \in Addresses : attempts[a] = "ended" => attempts'[a] = "ended"  BY <2>4, <2>6
  <2> QED BY <2>7, <2>9, <2>11, <2>13, <2>14, <2>15
<1> QED BY <1>1, <1>2, <1>3

LEMMA RaceKeeps ==
  ASSUME DialInv, RaceStep \/ GiveUp
  PROVE  DialInv'
<1>1. DialTypes /\ InOrder /\ SentOnce /\ pending = Cardinality(Running) + Len(results)
  BY DEF DialInv
<1>2. connected = Held \cup Sent \cup winner /\ (outcome = "racing" => winner = {})
      /\ \A w \in winner : w \in Addresses /\ attempts[w] = "ended"
  BY DEF DialInv
<1>3. UNCHANGED addresses /\ Addresses' = Addresses /\ Result' = Result
  BY DEF RaceStep, Won, Lost, StaggerPasses, Drain, GiveUp, Addresses, Result
<1>4. PICK m \in Nat : m = Cardinality(Running)  BY <1>1, RunningCounted
<1>5. Len(results) \in Nat  BY <1>1 DEF DialTypes
<1>6. CASE GiveUp
  BY <1>6, <1>1, <1>2, <1>3 DEF GiveUp, DialInv, DialTypes, InOrder, SentOnce, Running, Held, Sent
<1>7. CASE Won
  <2>1. results # <<>> /\ results' = Tail(results) /\ Head(results).ok /\ pending' = pending - 1
        /\ outcome = "racing" /\ outcome' = "won" /\ winner' = {Head(results).address}
        /\ UNCHANGED <<attempts, started, connected>>
    BY <1>7 DEF Won
  <2>2. Running' = Running /\ Held' = Held /\ InOrder'  BY <1>1, <1>3, <2>1 DEF Running, Held, InOrder
  <2>3. pending' = Cardinality(Running') + Len(results')  BY <1>1, <1>4, <2>1, <2>2, Received
  <2>4. pending' \in Nat  BY <1>1, <1>4, <2>1, <2>2, <2>3, Received
  <2>5. DialTypes'  BY <1>1, <1>3, <2>1, <2>4, Received DEF DialTypes
  <2>6. SentOnce'
    <3>1. \A i \in DOMAIN results' : attempts'[results'[i].address] = "ended"
      BY <1>1, <2>1, Received DEF SentOnce
    <3>2. \A i \in DOMAIN results' : results'[i].address \notin winner'  BY <1>1, <2>1, Received
    <3>3. \A i, j \in DOMAIN results' : results'[i].address = results'[j].address => i = j
      BY <1>1, <2>1, Received
    <3> QED BY <3>1, <3>2, <3>3 DEF SentOnce
  <2>7. connected' = Held' \cup Sent' \cup winner'  BY <1>1, <1>2, <2>1, <2>2, Received
  <2>8. \A w \in winner' : w \in Addresses' /\ attempts'[w] = "ended"  BY <1>1, <1>3, <2>1, Received
  <2> QED BY <2>1, <2>2, <2>3, <2>5, <2>6, <2>7, <2>8 DEF DialInv
<1>8. CASE Lost
  <2>1. results # <<>> /\ results' = Tail(results) /\ ~Head(results).ok /\ StartNext(pending - 1)
        /\ outcome = "racing" /\ UNCHANGED <<addresses, winner, connected>>
    BY <1>8 DEF Lost
  <2>2. Len(results') \in Nat /\ pending - 1 \in Nat /\ pending - 1 = Cardinality(Running) + Len(results')
    BY <1>1, <1>4, <2>1, Received
  <2>3. /\ attempts' \in [Addresses -> {"none", "dialling", "tunnelling", "open", "ended"}]
        /\ started' \in 1..Len(addresses) /\ pending' \in Nat
        /\ pending' = Cardinality(Running') + Len(results')
        /\ InOrder' /\ Held' = Held
        /\ \A a \in Addresses : attempts[a] = "ended" => attempts'[a] = "ended"
    BY <1>1, <2>1, <2>2, NextStarted
  <2>4. DialTypes'  BY <1>1, <1>3, <2>1, <2>3, Received DEF DialTypes
  <2>5. SentOnce'
    <3>1. \A i \in DOMAIN results : results[i].address \in Addresses
      <4>1. \A i \in DOMAIN results : results[i] \in Result  BY <1>1 DEF DialTypes
      <4> QED BY <4>1 DEF Result
    <3>2. \A i \in DOMAIN results' : attempts'[results'[i].address] = "ended"
      BY <1>1, <2>1, <2>3, <3>1, Received DEF SentOnce
    <3>3. \A i \in DOMAIN results' : results'[i].address \notin winner'
      BY <1>1, <2>1, Received DEF SentOnce
    <3>4. \A i, j \in DOMAIN results' : results'[i].address = results'[j].address => i = j
      BY <1>1, <2>1, Received
    <3> QED BY <3>2, <3>3, <3>4 DEF SentOnce
  <2>6. connected' = Held' \cup Sent' \cup winner'  BY <1>1, <1>2, <2>1, <2>3, Received
  <2>7. winner' = {}  BY <1>2, <2>1
  <2> QED BY <2>3, <2>4, <2>5, <2>6, <2>7 DEF DialInv
<1>9. CASE StaggerPasses
  <2>1. /\ outcome = "racing" /\ UNCHANGED <<addresses, results, outcome, winner, connected>>
        /\ IF started < Len(addresses) THEN StartNext(pending) ELSE UNCHANGED <<started, pending, attempts>>
    BY <1>9 DEF StaggerPasses
  <2>2. /\ attempts' \in [Addresses -> {"none", "dialling", "tunnelling", "open", "ended"}]
        /\ started' \in 1..Len(addresses) /\ pending' \in Nat
        /\ pending' = Cardinality(Running') + Len(results)
        /\ InOrder' /\ Held' = Held
        /\ \A a \in Addresses : attempts[a] = "ended" => attempts'[a] = "ended"
    <3>1. CASE started < Len(addresses)
      <4>1. pending \in Nat /\ StartNext(pending)  BY <1>1, <2>1, <3>1 DEF DialTypes
      <4> QED BY <1>1, <1>5, <2>1, <4>1, NextStarted
    <3>2. CASE ~(started < Len(addresses))
      BY <1>1, <1>3, <2>1, <3>2 DEF DialTypes, InOrder, Running, Held
    <3> QED BY <3>1, <3>2
  <2>3. DialTypes'  BY <1>1, <1>3, <2>1, <2>2 DEF DialTypes
  <2>4. SentOnce'
    <3>1. \A i \in DOMAIN results : results[i].address \in Addresses
      <4>1. \A i \in DOMAIN results : results[i] \in Result  BY <1>1 DEF DialTypes
      <4> QED BY <4>1 DEF Result
    <3> QED BY <1>1, <2>1, <2>2, <3>1 DEF SentOnce
  <2>5. connected' = Held' \cup Sent' \cup winner'  BY <1>2, <2>1, <2>2 DEF Sent
  <2>6. winner' = {}  BY <1>2, <2>1
  <2> QED BY <2>1, <2>2, <2>3, <2>4, <2>5, <2>6 DEF DialInv
<1>10. CASE Drain
  <2>1. /\ results # <<>> /\ results' = Tail(results) /\ pending' = pending - 1
        /\ connected' = IF Head(results).ok THEN connected \ {Head(results).address} ELSE connected
        /\ UNCHANGED <<attempts, started, outcome, winner>>
    BY <1>10 DEF Drain
  <2>2. Running' = Running /\ Held' = Held /\ InOrder'  BY <1>1, <1>3, <2>1 DEF Running, Held, InOrder
  <2>3. pending' = Cardinality(Running') + Len(results')  BY <1>1, <1>4, <2>1, <2>2, Received
  <2>4. pending' \in Nat  BY <1>1, <1>4, <2>1, <2>2, <2>3, Received
  <2>5. DialTypes'  BY <1>1, <1>3, <2>1, <2>4, Received DEF DialTypes
  <2>6. SentOnce'
    <3>1. \A i \in DOMAIN results' : attempts'[results'[i].address] = "ended"
                                  /\ results'[i].address \notin winner'
      BY <1>1, <2>1, Received DEF SentOnce
    <3>2. \A i, j \in DOMAIN results' : results'[i].address = results'[j].address => i = j
      BY <1>1, <2>1, Received
    <3> QED BY <3>1, <3>2 DEF SentOnce
  <2>7. connected' = Held' \cup Sent' \cup winner'
    <3>1. Head(results).address \notin Held  BY <1>1, <2>1, Received DEF Held
    <3> QED BY <1>1, <1>2, <2>1, <2>2, <3>1, Received
  <2> QED BY <1>2, <1>3, <2>1, <2>2, <2>3, <2>5, <2>6, <2>7 DEF DialInv
<1> QED BY <1>6, <1>7, <1>8, <1>9, <1>10 DEF RaceStep

LEMMA DialStep == DialInv /\ [Next]_vars => DialInv'
<1> SUFFICES ASSUME DialInv, [Next]_vars PROVE DialInv'  OBVIOUS
<1>1. CASE UNCHANGED dialVars
  BY <1>1 DEF dialVars, DialInv, DialTypes, Result, InOrder, SentOnce, Running, Held, Sent, Addresses
<1>2. CASE Attempting  BY <1>2, AttemptKeeps DEF Attempting, AttemptStep
<1>3. CASE Racing  BY <1>3, RaceKeeps DEF Racing
<1>4. CASE GivingUp  BY <1>4, RaceKeeps DEF GivingUp
<1>5. CASE UNCHANGED vars  BY <1>1, <1>5 DEF vars
<1> QED
  BY <1>1, <1>2, <1>3, <1>4, <1>5 DEF Next, Streams, Converses, Polls, Sending, Entering,
      Reading, Watching, Leaving, Talking, Polling, Answering, Abandoning

(* A race leaves the winner's connection open and no other, for names with  *)
(* any number of addresses.                                                 *)
THEOREM RaceClosesLosers == Spec => []LosersClosed
<1>1. DialInv => LosersClosed
  <2> SUFFICES ASSUME DialInv, pending = 0, \A a \in Addresses : attempts[a] \in {"none", "ended"}
               PROVE  connected = winner
    BY DEF LosersClosed
  <2>1. Held = {}  BY DEF Held
  <2>2. results = <<>>
    <3>1. DialTypes /\ Cardinality(Running) + Len(results) = 0  BY DEF DialInv
    <3>2. Cardinality(Running) \in Nat /\ Len(results) \in Nat  BY <3>1, RunningCounted DEF DialTypes
    <3>3. Len(results) = 0  BY <3>1, <3>2
    <3> QED BY <3>1, <3>3 DEF DialTypes
  <2>3. Sent = {}  BY <2>2 DEF Sent
  <2> QED BY <2>1, <2>3 DEF DialInv
<1> QED BY <1>1, DialInit0, DialStep, PTL DEF Spec
==============================================================================
