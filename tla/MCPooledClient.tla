--------------------------- MODULE MCPooledClient ---------------------------
(* Finite instances of PooledClient: the calls are interchangeable. *)
EXTENDS PooledClient, TLC

Workload(kinds, failures, retries, panics) ==
    [kinds |-> kinds, failures |-> failures, retries |-> retries, panics |-> panics]

(* The breaker under either kind of call; Stream is tried once. *)
ChatCalls == {Workload({"complete"}, {"retryable", "fatal"}, 2, FALSE),
              Workload({"stream"}, {"retryable", "fatal"}, 1, FALSE)}

(* Every way to borrow a client, and streams whose consumer panics. *)
Borrowers == {Workload({"stream", "peek"}, {"retryable", "auth"}, 1, FALSE),
              Workload({"stream"}, {"auth"}, 1, TRUE)}

RetriedCalls == {Workload({"complete"}, {"retryable"}, 2, FALSE)}

RevokedKeys == {Workload({"complete"}, {"retryable", "auth"}, 2, FALSE)}

RequestSymmetry == Permutations(Requests)
==============================================================================
