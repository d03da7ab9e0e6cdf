----------------------------- MODULE MCDelivery -----------------------------
(* Time in quarters of a second, so that jitter is seen; chains with and    *)
(* without retries, and with a deployment that cannot serve the request.    *)
EXTENDS Delivery

MCDeadlines == {NoDeadline, 9}

OpenAI(accepts) == [adapter |-> "openai", accepts |-> accepts]
Gemini(accepts) == [adapter |-> "gemini", accepts |-> accepts]
MCChains == {<<OpenAI(TRUE)>>, <<OpenAI(TRUE), Gemini(TRUE)>>, <<Gemini(TRUE), OpenAI(FALSE)>>,
             <<Gemini(TRUE), OpenAI(TRUE), Gemini(TRUE)>>}
=============================================================================
