------------------------------ MODULE DialRace ------------------------------
(* race of egress.go: the addresses of a name are tried one after the other *)
(* and at once. Each attempt opens a tunnel through the proxy in a          *)
(* goroutine of its own and sends its result to a channel with room for all *)
(* of them; the first connection wins, and a last goroutine receives the    *)
(* other results and closes the connections among them.                     *)
EXTENDS Naturals, Sequences, FiniteSets

CONSTANT Resolutions \* sequences of address families, 4 or 6: what a name resolves to

ASSUME ResolutionsAssumption == Resolutions # {} /\ Resolutions \subseteq Seq({4, 6}) \ {<<>>}

VARIABLES addresses, \* the families of the addresses, in the resolver's order
          natures,   \* what asking the proxy for each of them leads to
          attempts,  \* how far the attempt for each of them is
          started,   \* how many attempts have started
          pending,   \* results the race still expects
          results,   \* the channel
          stagger,   \* whether the timer is running
          cancelled, \* the attempts' context
          gaveUp,    \* the caller's context
          outcome,   \* "racing", "failed" or "won"
          winner,    \* the addresses that have won
          connected  \* addresses whose connection is open
dialVars == <<addresses, natures, attempts, started, pending, results, stagger,
              cancelled, gaveUp, outcome, winner, connected>>

Addresses == DOMAIN addresses

(* The families alternate, each in the resolver's order, that of the first  *)
(* address first: the addresses are tried in the order of their turns.      *)
Turn(families, i) ==
    2 * Cardinality({j \in 1..i : families[j] = families[i]})
        + (IF families[i] = families[1] THEN 0 ELSE 1)

Place(families, i) == Cardinality({j \in DOMAIN families : Turn(families, j) <= Turn(families, i)})

Interleaved(families) ==
    [k \in DOMAIN families |-> CHOOSE i \in DOMAIN families : Place(families, i) = k]

(* The attempts after the first k of the order have started.                *)
Starting(k) == [attempts EXCEPT ![Interleaved(addresses)[k]] = "dialling"]

DialInit ==
    /\ addresses \in Resolutions
    /\ natures \in [Addresses -> {"answers", "refuses", "silent"}]
    /\ attempts = [[a \in Addresses |-> "none"] EXCEPT ![1] = "dialling"]
    /\ started = 1 /\ pending = 1
    /\ results = <<>> /\ stagger = TRUE
    /\ cancelled = FALSE /\ gaveUp = FALSE
    /\ outcome = "racing" /\ winner = {} /\ connected = {}

(* ---- the attempts ------------------------------------------------------ *)

OfAttempts == UNCHANGED <<addresses, natures, started, pending, stagger, cancelled, gaveUp, outcome, winner>>

(* The connection to the proxy stands; CONNECT has been sent.               *)
ProxyConnected(a) ==
    /\ attempts[a] = "dialling"
    /\ attempts' = [attempts EXCEPT ![a] = "tunnelling"]
    /\ connected' = connected \cup {a}
    /\ OfAttempts /\ UNCHANGED results

(* The proxy agrees before the context ends: the deadline is lifted.        *)
TunnelOpened(a) ==
    /\ attempts[a] = "tunnelling" /\ natures[a] = "answers" /\ ~cancelled
    /\ attempts' = [attempts EXCEPT ![a] = "open"]
    /\ OfAttempts /\ UNCHANGED <<results, connected>>

TunnelSent(a) ==
    /\ attempts[a] = "open"
    /\ attempts' = [attempts EXCEPT ![a] = "ended"]
    /\ results' = Append(results, [address |-> a, ok |-> TRUE])
    /\ OfAttempts /\ UNCHANGED connected

(* The proxy refuses, or the context ends: the connection is closed.        *)
AttemptFails(a) ==
    /\ attempts[a] \in {"dialling", "tunnelling"}
    /\ cancelled \/ natures[a] = "refuses"
    /\ attempts' = [attempts EXCEPT ![a] = "ended"]
    /\ results' = Append(results, [address |-> a, ok |-> FALSE])
    /\ connected' = connected \ {a}
    /\ OfAttempts

(* ---- the race ---------------------------------------------------------- *)

(* The next attempt and the timer, if there is an address left.             *)
StartNext(expected) ==
    IF started < Len(addresses)
    THEN /\ started' = started + 1 /\ pending' = expected + 1
         /\ attempts' = Starting(started + 1) /\ stagger' = TRUE
    ELSE /\ pending' = expected /\ UNCHANGED <<started, attempts, stagger>>

Won == /\ outcome = "racing" /\ results # <<>> /\ Head(results).ok
       /\ outcome' = "won" /\ winner' = {Head(results).address}
       /\ results' = Tail(results) /\ pending' = pending - 1
       /\ cancelled' = TRUE
       /\ UNCHANGED <<addresses, natures, attempts, started, stagger, gaveUp, connected>>

Lost == /\ outcome = "racing" /\ results # <<>> /\ ~Head(results).ok
        /\ results' = Tail(results)
        /\ StartNext(pending - 1)
        /\ outcome' = IF pending' = 0 THEN "failed" ELSE outcome
        /\ cancelled' = (cancelled \/ pending' = 0)
        /\ UNCHANGED <<addresses, natures, gaveUp, winner, connected>>

StaggerPassesOnce ==  \* Faulty: the timer is not started again
    /\ outcome = "racing" /\ stagger
    /\ started < Len(addresses)
    /\ started' = started + 1 /\ pending' = pending + 1 /\ attempts' = Starting(started + 1)
    /\ stagger' = FALSE
    /\ UNCHANGED <<addresses, natures, results, cancelled, gaveUp, outcome, winner, connected>>

StaggerPasses ==
    /\ outcome = "racing" /\ stagger
    /\ IF started < Len(addresses) THEN StartNext(pending)
       ELSE stagger' = FALSE /\ UNCHANGED <<started, pending, attempts>>
    /\ UNCHANGED <<addresses, natures, results, cancelled, gaveUp, outcome, winner, connected>>

DrainOfWaiting ==  \* Faulty: only what has already been sent is received
    /\ outcome = "won" /\ pending > 0
    /\ IF results = <<>> THEN pending' = 0 /\ UNCHANGED <<results, connected>>
       ELSE /\ pending' = pending - 1 /\ results' = Tail(results)
            /\ connected' = IF Head(results).ok THEN connected \ {Head(results).address} ELSE connected
    /\ UNCHANGED <<addresses, natures, attempts, started, stagger, cancelled, gaveUp, outcome, winner>>

(* After the race its last goroutine receives what is still to come.        *)
Drain ==
    /\ outcome = "won" /\ pending > 0 /\ results # <<>>
    /\ pending' = pending - 1 /\ results' = Tail(results)
    /\ connected' = IF Head(results).ok THEN connected \ {Head(results).address} ELSE connected
    /\ UNCHANGED <<addresses, natures, attempts, started, stagger, cancelled, gaveUp, outcome, winner>>

GiveUp == /\ outcome = "racing" /\ ~gaveUp
          /\ gaveUp' = TRUE /\ cancelled' = TRUE
          /\ UNCHANGED <<addresses, natures, attempts, started, pending, results, stagger, outcome, winner, connected>>

AttemptStep == \E a \in Addresses : ProxyConnected(a) \/ TunnelOpened(a) \/ TunnelSent(a) \/ AttemptFails(a)
RaceStep == Won \/ Lost \/ StaggerPasses \/ Drain
=============================================================================
