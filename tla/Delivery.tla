------------------------------ MODULE Delivery ------------------------------
(* What is created through the retry transport: batch jobs and modality     *)
(* requests. Their clients share no state; a behaviour is of one of them.   *)
EXTENDS BatchJobs, ModalityFailover

VARIABLE client \* "batch" or "modality"
deliveryVars == <<client, vars, failoverVars>>

DeliveryInit ==
    /\ client \in {"batch", "modality"}
    /\ Init /\ FailoverInit
    /\ client = "batch" => request = CHOOSE r \in [kind : {"embedding"}, n : {1}, policy : Policies, chain : Chains] : TRUE
    /\ client = "modality" => backend = CHOOSE b \in Backends : TRUE

Batching == client = "batch" /\ Next /\ UNCHANGED <<client, failoverVars>>
Serving  == client = "modality" /\ FailoverNext /\ UNCHANGED <<client, vars>>

DeliveryNext == Batching \/ Serving
DeliverySpec == DeliveryInit /\ [][DeliveryNext]_deliveryVars
=============================================================================
