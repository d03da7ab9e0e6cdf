-------------------------- MODULE RealtimeSession --------------------------
(* A realtime session (realtime.go): goroutines send, receive and close     *)
(* over one connection. The mutex guards the flag and is not held while the *)
(* connection is used, so each operation is its check, then its call.       *)
EXTENDS Naturals

CONSTANT Users \* goroutines that use the session

VARIABLES closed,    \* the session's flag (closed and state change together)
          peer,      \* whether the server is still there
          closes,    \* calls of the connection's Close
          doing,     \* what each goroutine is in the middle of
          saw        \* what its last operation returned
sessionVars == <<closed, peer, closes, doing, saw>>

SessionInit == /\ closed = FALSE /\ peer = "up" /\ closes = 0
               /\ doing = [u \in Users |-> "nothing"] /\ saw = [u \in Users |-> "nothing"]

At(u, where)   == doing[u] = where
Enters(u, op)  == doing' = [doing EXCEPT ![u] = op] /\ UNCHANGED saw
Leaves(u, how) == doing' = [doing EXCEPT ![u] = "nothing"] /\ saw' = [saw EXCEPT ![u] = how]

(* Send and Recv check the flag and use the connection after the unlock.    *)
Use(u, op) == /\ At(u, "nothing") /\ op \in {"reading", "writing"}
              /\ IF closed THEN Leaves(u, "refused") ELSE Enters(u, op)
              /\ UNCHANGED <<closed, peer, closes>>

Transfers(u) == /\ doing[u] \in {"reading", "writing"} /\ closes = 0 /\ peer = "up"
                /\ Leaves(u, "done")
                /\ UNCHANGED <<closed, peer, closes>>

(* The caller's context ends, the frame is bad, the connection is closed.   *)
TransferFailsForAll(u) ==  \* Faulty: any failed read closes the session
    /\ doing[u] \in {"reading", "writing"}
    /\ closed' = (closed \/ At(u, "reading"))
    /\ Leaves(u, "error")
    /\ UNCHANGED <<peer, closes>>

TransferFails(u) == /\ doing[u] \in {"reading", "writing"}
                    /\ Leaves(u, "error")
                    /\ UNCHANGED <<closed, peer, closes>>

(* io.EOF, which a connection gives when its peer is gone.                  *)
ReadsEnd(u) == /\ At(u, "reading") /\ peer = "gone" /\ closes = 0
               /\ Enters(u, "ending") /\ UNCHANGED <<closed, peer, closes>>
Ended(u)    == /\ At(u, "ending")
               /\ closed' = TRUE /\ Leaves(u, "end")
               /\ UNCHANGED <<peer, closes>>

(* ---- Close ------------------------------------------------------------- *)

CloseSession(u) == /\ At(u, "nothing")
                   /\ closed' = TRUE
                   /\ IF closed THEN Leaves(u, "closed") ELSE Enters(u, "closing")
                   /\ UNCHANGED <<peer, closes>>

ClosesConnection(u) == /\ At(u, "closing")
                       /\ closes' = closes + 1 /\ Leaves(u, "closed")
                       /\ UNCHANGED <<closed, peer>>

PeerLeaves == /\ peer = "up" /\ peer' = "gone"
              /\ UNCHANGED <<closed, closes, doing, saw>>

UserStep(u) == \/ Transfers(u) \/ TransferFails(u) \/ ReadsEnd(u) \/ Ended(u)
               \/ CloseSession(u) \/ ClosesConnection(u)
               \/ \E op \in {"reading", "writing"} : Use(u, op)
=============================================================================
