----------------------------- MODULE AuthPoolOps -----------------------------
(***************************************************************************)
(* The key pool of pool.go as operators on its record of fields.  Every    *)
(* AuthPool method holds p.mu from start to end, so each operator is one   *)
(* atomic step of its caller.  Of a key's cooldown instant only "still to  *)
(* come" (cooling) is kept: that is what IsAvailable compares.             *)
(***************************************************************************)
EXTENDS Integers

CONSTANT NumKeys   \* the API keys the pool was created with

ASSUME NumKeysAssumption == NumKeys \in Nat \ {0}

Keys == 1 .. NumKeys

Pools == [healthy : [Keys -> BOOLEAN], cooling : [Keys -> BOOLEAN], current : Keys]

NewAuthPool ==
    [healthy |-> [k \in Keys |-> TRUE], cooling |-> [k \in Keys |-> FALSE],
     current |-> 1]

IsAvailable(p, k) == p.healthy[k] /\ ~p.cooling[k]

AvailableKeys(p) == {k \in Keys : IsAvailable(p, k)}

(* How many keys GetAvailable steps over to reach k from the current key.  *)
Distance(p, k) == (k - p.current + NumKeys) % NumKeys

(* GetAvailable keeps the current key while it is available and otherwise  *)
(* takes the first available one after it, which becomes current.  With no *)
(* key available it leaves the pool as it was.                             *)
NextAvailable(p) ==
    CHOOSE k \in AvailableKeys(p) :
        \A j \in AvailableKeys(p) : Distance(p, k) <= Distance(p, j)

GetAvailable(p) == [p EXCEPT !.current = NextAvailable(p)]

(* An auth error disables the key; any other error starts its cooldown.     *)
MarkFailed(p, k, authError) ==
    IF authError THEN [p EXCEPT !.healthy[k] = FALSE]
    ELSE [p EXCEPT !.cooling[k] = TRUE]

(* A success makes the key healthy and clears its cooldown.                 *)
MarkSuccess(p, k) == [p EXCEPT !.healthy[k] = TRUE, !.cooling[k] = FALSE]

HealthyKeys(p) == {k \in Keys : p.healthy[k]}
==============================================================================
