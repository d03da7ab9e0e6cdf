------------------------------ MODULE ProbeLease ------------------------------
(***************************************************************************)
(* What the circuit breaker promises its callers, told without tokens,     *)
(* counters or clocks: while the circuit is being probed there is one      *)
(* lease, it belongs to at most one caller, and only that caller's verdict *)
(* ends the probe.  The lease becomes free for another caller when its     *)
(* owner hands it back or when a cooldown has passed.  An anonymous caller *)
(* (one that reports through the public, token-less methods) may resolve   *)
(* any probe and never owns the lease.                                     *)
(***************************************************************************)
CONSTANTS
    Callers,     \* the requests in flight at one time
    Anonymous,   \* the callers that report without a token
    NoOne        \* the owner of a lease nobody holds


VARIABLES
    mode,    \* "closed", "open" or "halfopen"
    owner,   \* who holds the probe lease
    free,    \* whether the next caller may take the lease
    busy     \* the callers admitted and not yet back

vars == <<mode, owner, free, busy>>

Init == mode = "closed" /\ owner = NoOne /\ free = FALSE /\ busy = {}

(* A closed circuit admits everybody. *)
Enter(c) ==
    /\ mode = "closed"
    /\ c \notin busy
    /\ busy' = busy \union {c}
    /\ UNCHANGED <<mode, owner, free>>

(* A circuit that is not closed admits one caller as its probe. *)
Probe(c) ==
    /\ mode = "open" \/ (mode = "halfopen" /\ free)
    /\ c \notin busy
    /\ mode' = "halfopen"
    /\ owner' = IF c \in Anonymous THEN NoOne ELSE c
    /\ free' = FALSE
    /\ busy' = busy \union {c}

MayResolve(c) == c = owner \/ c \in Anonymous

(* c reports a verdict: it moves the circuit, and ends any probe. *)
Verdict(c) ==
    /\ c \in busy
    /\ \/ mode = "halfopen" /\ MayResolve(c) /\ mode' \in {"closed", "open"}
       \/ mode = "closed" /\ mode' = "open"
    /\ owner' = NoOne
    /\ free' = FALSE
    /\ busy' = busy \ {c}

(* c reports nothing that moves the circuit.  It keeps its hands off a     *)
(* lease that is not its own; an owner that leaves may free the lease.     *)
Leave(c) ==
    /\ c \in busy
    /\ busy' = busy \ {c}
    /\ mode' = mode
    /\ owner' = IF c = owner THEN NoOne ELSE owner
    /\ free' \in IF c = owner THEN {free, TRUE} ELSE {free}

Reset ==
    /\ mode' = "closed"
    /\ owner' = NoOne
    /\ free' = FALSE
    /\ busy' = busy

(* A cooldown has passed since the probe was admitted. *)
Expire ==
    /\ mode = "halfopen"
    /\ free' = TRUE
    /\ UNCHANGED <<mode, owner, busy>>

Next ==
    \/ \E c \in Callers : Enter(c) \/ Probe(c) \/ Verdict(c) \/ Leave(c)
    \/ Reset
    \/ Expire

Spec == Init /\ [][Next]_vars
==============================================================================
