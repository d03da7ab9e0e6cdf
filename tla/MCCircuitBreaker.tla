--------------------------- MODULE MCCircuitBreaker ---------------------------
(* A finite instance of CircuitBreaker: c1, c2 and c3 are requests of a pool, *)
(* d is a token-less caller of Execute.  Liveness is checked, so no symmetry. *)
EXTENDS CircuitBreaker

CONSTANTS c1, c2, c3, d

MCCallers == {c1, c2, c3, d}

MCDirectCallers == {d}
==============================================================================
