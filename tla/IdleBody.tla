------------------------------ MODULE IdleBody ------------------------------
(* A streaming response body under its idle watchdog (idleTimeoutBody of    *)
(* config.go): the consumer reads, the watchdog's timer runs in a goroutine *)
(* of its own, and the provider sends, stalls or ends.                      *)
EXTENDS Naturals

CONSTANT MaxChunks \* what the provider sends, at most

VARIABLES arrivedBytes, \* chunks that have arrived and are not read
          provider,   \* "sending", "stalled" or "finished"
          sent,       \* chunks sent so far
          bodyClosed, \* the response body
          idleTimer,  \* whether the timer is running
          watchdog,   \* the goroutine of an expired timer: "idle", "marking", "closing"
          expired,    \* the watchdog's mark
          reading,    \* where the consumer is in Read
          read        \* what the Read returned
bodyVars == <<arrivedBytes, provider, sent, bodyClosed, idleTimer, watchdog, expired, reading, read>>

BodyInit == /\ arrivedBytes = 0 /\ provider = "sending" /\ sent = 0
            /\ bodyClosed = FALSE /\ idleTimer = TRUE /\ watchdog = "idle" /\ expired = FALSE
            /\ reading = "outside" /\ read = "nothing"

ProviderSends == /\ provider = "sending" /\ sent < MaxChunks
                 /\ sent' = sent + 1 /\ arrivedBytes' = arrivedBytes + 1
                 /\ UNCHANGED <<provider, bodyClosed, idleTimer, watchdog, expired, reading, read>>
ProviderStops == /\ provider = "sending"
                 /\ provider' \in {"stalled", "finished"}
                 /\ UNCHANGED <<arrivedBytes, sent, bodyClosed, idleTimer, watchdog, expired, reading, read>>

(* ---- Read -------------------------------------------------------------- *)

OfReader == UNCHANGED <<provider, sent>>

EnterRead == /\ reading = "outside" /\ read \in {"nothing", "data"}
             /\ reading' = "body"
             /\ OfReader /\ UNCHANGED <<arrivedBytes, bodyClosed, idleTimer, watchdog, expired, read>>

(* The body's own Read: it returns for data, for the end, or once closed.   *)
BodyReturns == /\ reading = "body"
               /\ \/ /\ bodyClosed /\ read' = "closed" /\ UNCHANGED arrivedBytes
                  \/ /\ ~bodyClosed /\ arrivedBytes > 0
                     /\ read' = "data" /\ arrivedBytes' = arrivedBytes - 1
                  \/ /\ ~bodyClosed /\ arrivedBytes = 0 /\ provider = "finished"
                     /\ read' = "end" /\ UNCHANGED arrivedBytes
               /\ reading' = "returned"
               /\ OfReader /\ UNCHANGED <<bodyClosed, idleTimer, watchdog, expired>>

(* The mark decides what the consumer is told; data then restart the timer. *)
ReadExpired == /\ reading = "returned" /\ expired
               /\ read' = "timeout" /\ reading' = "outside"
               /\ OfReader /\ UNCHANGED <<arrivedBytes, bodyClosed, idleTimer, watchdog, expired>>
ReadGoesOn  == /\ reading = "returned" /\ ~expired
               /\ reading' = IF read = "data" THEN "resetting" ELSE "outside"
               /\ OfReader /\ UNCHANGED <<arrivedBytes, bodyClosed, idleTimer, watchdog, expired, read>>
ResetTimer  == /\ reading = "resetting"
               /\ reading' = "outside" /\ idleTimer' = TRUE
               /\ OfReader /\ UNCHANGED <<arrivedBytes, bodyClosed, watchdog, expired, read>>

CloseBody == /\ reading = "outside" /\ read # "left"
             /\ read' = "left" /\ bodyClosed' = TRUE /\ idleTimer' = FALSE
             /\ OfReader /\ UNCHANGED <<arrivedBytes, watchdog, expired, reading>>

(* ---- the watchdog: expire marks first, then closes --------------------- *)

OfWatchdog == UNCHANGED <<arrivedBytes, provider, sent, reading, read>>

TimerExpires == /\ idleTimer /\ watchdog = "idle"
                /\ idleTimer' = FALSE /\ watchdog' = "marking"
                /\ OfWatchdog /\ UNCHANGED <<bodyClosed, expired>>

MarkExpired == /\ watchdog = "marking"
               /\ expired' = TRUE /\ watchdog' = "closing"
               /\ OfWatchdog /\ UNCHANGED <<bodyClosed, idleTimer>>

CutBodyFirst ==  \* Faulty: closes, then marks
    /\ watchdog = "closing" \/ (watchdog = "marking" /\ ~bodyClosed)
    /\ bodyClosed' = TRUE
    /\ watchdog' = IF watchdog = "closing" THEN "idle" ELSE watchdog
    /\ OfWatchdog /\ UNCHANGED <<idleTimer, expired>>

CutNothing ==  \* Faulty: leaves a pending Read to notice by itself
    /\ watchdog = "closing" /\ watchdog' = "idle"
    /\ OfWatchdog /\ UNCHANGED <<bodyClosed, idleTimer, expired>>

CutBody == /\ watchdog = "closing"
           /\ bodyClosed' = TRUE /\ watchdog' = "idle"
           /\ OfWatchdog /\ UNCHANGED <<idleTimer, expired>>

ReadStep == BodyReturns \/ ReadExpired \/ ReadGoesOn \/ ResetTimer
WatchdogStep == TimerExpires \/ MarkExpired \/ CutBody
=============================================================================
