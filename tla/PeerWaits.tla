----------------------------- MODULE PeerWaits -----------------------------
(* The places outside the requests of a chat where the library waits for a  *)
(* peer that may answer late or never: the race of dialled addresses, a     *)
(* streaming body under its idle watchdog, a realtime session, and the      *)
(* polling for a device token. They share no state; a behaviour is of one.  *)
EXTENDS DialRace, IdleBody, RealtimeSession, DevicePoll

VARIABLE wait \* what is waited for
vars == <<wait, dialVars, bodyVars, sessionVars, pollVars>>

Init == /\ wait \in {"dial", "body", "realtime", "token"}
        /\ DialInit /\ BodyInit /\ SessionInit /\ PollInit
        /\ wait # "dial" => /\ addresses = CHOOSE r \in Resolutions : TRUE
                            /\ \A a \in Addresses : natures[a] = "silent"
        /\ wait # "token" => asked = 0 /\ deadline = 0

Dials     == wait = "dial" /\ UNCHANGED <<wait, bodyVars, sessionVars, pollVars>>
Streams   == wait = "body" /\ UNCHANGED <<wait, dialVars, sessionVars, pollVars>>
Converses == wait = "realtime" /\ UNCHANGED <<wait, dialVars, bodyVars, pollVars>>
Polls     == wait = "token" /\ UNCHANGED <<wait, dialVars, bodyVars, sessionVars>>

Attempting == Dials /\ AttemptStep
Racing     == Dials /\ RaceStep
GivingUp   == Dials /\ GiveUp
Sending    == Streams /\ (ProviderSends \/ ProviderStops)
Entering   == Streams /\ EnterRead
Reading    == Streams /\ ReadStep
Watching   == Streams /\ WatchdogStep
Leaving    == Streams /\ CloseBody
Talking    == Converses /\ ((\E u \in Users : UserStep(u)) \/ PeerLeaves)
Polling    == Polls /\ Poll
Answering  == Polls /\ (Decided \/ Pending \/ SlowedDown)
Abandoning == Polls /\ CallerGivesUp

Next == \/ Attempting \/ Racing \/ GivingUp
        \/ Sending \/ Entering \/ Reading \/ Watching \/ Leaving
        \/ Talking
        \/ Polling \/ Answering \/ Abandoning

(* The goroutines of a race and of a read are scheduled and timers expire;  *)
(* an attempt ends once its address has answered or its context has ended   *)
(* (net.Dialer and the tunnel's deadline see to that), and the token        *)
(* endpoint answers within the HTTP timeout. Providers, proxies, peers and  *)
(* callers owe nothing.                                                     *)
Spec == /\ Init /\ [][Next]_vars
        /\ WF_vars(Racing)
        /\ \A a \in 1..3 : WF_vars(Dials /\ a \in Addresses /\ (ProxyConnected(a) \/ TunnelOpened(a) \/ TunnelSent(a) \/ AttemptFails(a)))
        /\ WF_vars(Reading) /\ WF_vars(Watching)
        /\ WF_vars(Polling) /\ WF_vars(Answering)
-----------------------------------------------------------------------------
(* Once the race is decided, the attempts have ended and the drain is done, *)
(* the winner's is the only connection left, and a race that failed leaves  *)
(* none (egress.go 140-157, proxytunnel.go open).                           *)
LosersClosed ==
    outcome # "racing" /\ pending = 0 /\ (\A a \in Addresses : attempts[a] \in {"none", "ended"}) =>
        connected = winner

(* A cut by the watchdog is reported as an idle timeout: the consumer never *)
(* sees the closed connection it causes, nor an end the provider has not    *)
(* sent (config.go 231-246).                                                *)
CutIsNamed == reading = "outside" => /\ read # "closed"
                                     /\ read = "end" => provider = "finished" /\ arrivedBytes = 0
                                     /\ read = "timeout" => expired

(* A session that reports itself closed has closed its connection, once, or *)
(* has seen the peer's end: a failed read or write ends no session          *)
(* (realtime.go 121-159).                                                   *)
ClosedSessionIsOver ==
    closes <= 1 /\ (closed /\ (\A u \in Users : ~At(u, "closing")) => closes = 1 \/ peer = "gone")

(* A poll is one the server has allowed: as far from the last one as it has *)
(* asked for so far, up to the client's ceiling (RFC 8628's five more       *)
(* seconds for each slow_down, oauth.go 123-127), and never later than the  *)
(* device code, however the intervals have grown (oauth.go 103-105).        *)
PollsObeyTheServer ==
    [][polls' > polls =>
         /\ lastPoll # 0 => lastPoll' - lastPoll >= Least(PollInterval(asked) + slowDowns * SlowDown, MaxInterval)
         /\ deadline # 0 => lastPoll' <= deadline]_vars

(* A name with an address that answers is reached, in whatever order the    *)
(* silent and the refusing ones come, unless the caller gives up            *)
(* (egress.go 124-127).                                                     *)
ReachableIsReached ==
    wait = "dial" /\ (\E a \in Addresses : natures[a] = "answers") ~> outcome = "won" \/ gaveUp

(* What waits for a silent peer stops waiting: the race once its caller     *)
(* gives up, a pending Read by the watchdog, the polling when the device    *)
(* code expires.                                                            *)
WaitsEnd == /\ gaveUp ~> outcome # "racing"
            /\ reading # "outside" ~> reading = "outside"
            /\ (wait = "token" /\ deadline # 0) ~> polling \notin {"waiting", "asking"} \/ polls = MaxPolls
=============================================================================
