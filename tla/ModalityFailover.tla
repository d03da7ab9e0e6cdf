-------------------------- MODULE ModalityFailover --------------------------
(* One modality request (to embed, transcribe, draw or speak) to a chain of *)
(* deployments (fallback_modality.go): each is tried once, through the      *)
(* retry transport, with a usage recorder of its own (usage.go), until one  *)
(* succeeds or a failure is not the provider's. The providers may act on a  *)
(* request whatever the client is told of it.                               *)
EXTENDS RetryTransport, Sequences

CONSTANTS Chains,   \* sequences of deployments [adapter, accepts]
          Policies, \* a subset of {"any", "transient"}
          MaxImages,  \* in a request, or inputs to embed
          Tokens,   \* what an answer may report
          MaxInt    \* of the recorder's counters

ASSUME FailoverAssumption ==
    /\ Chains \subseteq Seq([adapter : {"openai", "gemini"}, accepts : BOOLEAN]) \ {<<>>}
    /\ Tokens \subseteq Nat /\ MaxInt \in Nat

VARIABLES request,  \* [kind, n, policy, chain]
          at,       \* the deployment being tried
          exchange, \* its HTTP exchange, NoExchange: none yet
          images,   \* images, or embeddings, it has made so far
          recorded, \* its usage recorder
          over,     \* the caller's context
          events,   \* usage events delivered
          result,   \* what the request returned, "none": not yet
          acts,     \* how often each deployment has acted on the request (ghost)
          received  \* the tokens each has reported (ghost)
failoverVars == <<request, at, exchange, images, recorded, over, events, result, acts, received>>

NoExchange == [what |-> "none"]
Chain      == request.chain
Here       == Chain[at]

(* Images and speech are not resent; Gemini makes images and embeddings one *)
(* by one, each by an exchange of its own, and no speech.                   *)
Kinds           == {"embedding", "transcription", "image", "speech"}
Creating        == request.kind \in {"image", "speech"}
Needed(d)       == IF request.kind \in {"image", "embedding"} /\ d.adapter = "gemini" THEN request.n ELSE 1
Accepted        == Here.accepts /\ ~ (request.kind = "speech" /\ Here.adapter = "gemini")

(* What an answer may report: OpenAI names no usage for what it creates,    *)
(* Gemini none for embeddings.                                              *)
Reports == IF (IF Here.adapter = "openai" THEN Creating ELSE request.kind = "embedding") THEN {0} ELSE Tokens

(* All but the last deployment have their retries disabled.                 *)
NewExchange == NewCall(request.kind, Creating, at < Len(Chain), NoDeadline)

FailoverInit ==
    /\ request \in [kind : Kinds, n : 1..MaxImages, policy : Policies, chain : Chains]
    /\ request.n = 1 \/ request.kind \in {"image", "embedding"}
    /\ at = 1 /\ exchange = NoExchange /\ images = 0 /\ recorded = 0 /\ over = FALSE
    /\ events = <<>> /\ result = "none"
    /\ acts = [d \in DOMAIN Chain |-> 0] /\ received = acts

(* Faulty: the sum wraps.                                                   *)
SaturatingAddWraps(a, b) == (a + b) % (MaxInt + 1)

SaturatingAdd(a, b) == IF b > 0 /\ a > MaxInt - b THEN MaxInt ELSE a + b

-----------------------------------------------------------------------------
(* An error is a status, "dial", "broken" or "fatal" (transport failures),  *)
(* "malformed" (an answer that cannot be used), "invalid" or "context".     *)
IsProviderFailure(err) == ~ over /\ err \notin {"malformed", "invalid", "context"}

(* FailoverTransientOnly keeps a rejected payload from the next vendor.     *)
Allowed(err) == request.policy = "any" \/ err # "400"

(* Faulty: a failure is an attempt without usage.                           *)
AttemptEndsUnbilled(err, tokens) ==
    /\ events' = Append(events, [attempt |-> at - 1, tokens |-> IF err = "ok" THEN tokens ELSE 0, err |-> err])
    /\ recorded' = 0 /\ images' = 0 /\ exchange' = NoExchange
    /\ IF err # "ok" /\ at < Len(Chain) /\ IsProviderFailure(err) /\ Allowed(err)
       THEN at' = at + 1 /\ UNCHANGED result
       ELSE result' = err /\ UNCHANGED at

(* Faulty: the policy is not asked.                                         *)
AttemptEndsAnyway(err, tokens) ==
    /\ events' = Append(events, [attempt |-> at - 1, tokens |-> tokens, err |-> err])
    /\ recorded' = 0 /\ images' = 0 /\ exchange' = NoExchange
    /\ IF err # "ok" /\ at < Len(Chain) /\ IsProviderFailure(err)
       THEN at' = at + 1 /\ UNCHANGED result
       ELSE result' = err /\ UNCHANGED at

(* The attempt is reported with what its recorder holds, and the next       *)
(* deployment is tried if the failure and the policy allow it.              *)
AttemptEnds(err, tokens) ==
    /\ events' = Append(events, [attempt |-> at - 1, tokens |-> tokens, err |-> err])
    /\ recorded' = 0 /\ images' = 0 /\ exchange' = NoExchange
    /\ IF err # "ok" /\ at < Len(Chain) /\ IsProviderFailure(err) /\ Allowed(err)
       THEN at' = at + 1 /\ UNCHANGED result
       ELSE result' = err /\ UNCHANGED at

(* The deployment's client validates the request before anything is sent;   *)
(* what it refuses is not reported and ends the chain.                      *)
Dispatch ==
    /\ result = "none" /\ exchange = NoExchange
    /\ IF Accepted THEN exchange' = NewExchange /\ UNCHANGED result
       ELSE result' = "invalid" /\ UNCHANGED exchange
    /\ UNCHANGED <<request, at, images, recorded, over, events, acts, received>>

Sending == exchange # NoExchange /\ exchange.wait = 0 /\ ~ over

(* A failed exchange sleeps before its next attempt, or the attempt ends.   *)
ExchangeFails(failure) ==
    \/ \E e \in Asleep(exchange, failure, 0) :
          exchange' = e /\ UNCHANGED <<at, images, recorded, events, result>>
    \/ GivesUp(exchange, failure, 0) /\ AttemptEnds(failure, recorded)

(* An answer with 2xx: its usage is recorded before the rest is looked at.  *)
AnswerArrives(tokens, usable) ==
    LET usage == SaturatingAdd(recorded, tokens)
    IN /\ Sending
       /\ acts' = [acts EXCEPT ![at] = @ + 1] /\ received' = [received EXCEPT ![at] = @ + tokens]
       /\ CASE ~ usable -> AttemptEnds("malformed", usage)
            [] usable /\ images + 1 < Needed(Here) ->
                   /\ images' = images + 1 /\ recorded' = usage /\ exchange' = NewExchange
                   /\ UNCHANGED <<at, events, result>>
            [] OTHER -> AttemptEnds("ok", usage)
       /\ UNCHANGED <<request, over>>

(* An answer that breaks off or cannot be decoded, with its usage.          *)
AnswerLost(err) ==
    /\ Sending
    /\ acts' = [acts EXCEPT ![at] = @ + 1]
    /\ AttemptEnds(err, recorded)
    /\ UNCHANGED <<request, over, received>>

(* A failure before the provider can have acted.                            *)
Unsent(failure) ==
    /\ Sending /\ ExchangeFails(failure)
    /\ UNCHANGED <<request, over, acts, received>>

(* A failure after which nobody knows whether it has.                       *)
Ambiguous(failure) ==
    /\ Sending /\ ExchangeFails(failure)
    /\ \/ acts' = [acts EXCEPT ![at] = @ + 1]
       \/ UNCHANGED acts
    /\ UNCHANGED <<request, over, received>>

Resends ==
    /\ exchange # NoExchange /\ exchange.wait > 0 /\ ~ over
    /\ exchange' = Awake(exchange)
    /\ UNCHANGED <<request, at, images, recorded, over, events, result, acts, received>>

CallerLeaves ==
    /\ ~ over /\ result = "none" /\ over' = TRUE
    /\ UNCHANGED <<request, at, exchange, images, recorded, events, result, acts, received>>

(* The context ends the exchange, in an attempt or asleep.                  *)
ContextEnds ==
    /\ exchange # NoExchange /\ over
    /\ AttemptEnds("context", recorded)
    /\ \/ exchange.wait = 0 /\ acts' = [acts EXCEPT ![at] = @ + 1]
       \/ UNCHANGED acts
    /\ UNCHANGED <<request, over, received>>

FailoverNext ==
    \/ Dispatch \/ Resends \/ CallerLeaves \/ ContextEnds
    \/ \E t \in Reports, usable \in BOOLEAN : AnswerArrives(t, usable)
    \/ \E e \in {"malformed", "broken"} : AnswerLost(e)
    \/ \E f \in {"dial", "429", "400"} : Unsent(f)
    \/ \E f \in {"broken", "500", "fatal"} : Ambiguous(f)

-----------------------------------------------------------------------------
(* However its exchanges fail, and whoever takes over, no deployment makes  *)
(* more images or speech than were asked for (usage.go, factory.go and the  *)
(* NonIdempotent of the adapters' creates).                                 *)
ChargedOncePerDeployment ==
    Creating => \A d \in DOMAIN Chain : acts[d] <= Needed(Chain[d])

(* Every deployment that was sent anything is reported, once, in order and  *)
(* with the usage it reported, saturated, even if its attempt failed; the   *)
(* caller is told the outcome of the last (usage.go 176-228: "a failed      *)
(* attempt that the provider billed anyway keeps its cost").                *)
CostsAreReported ==
    /\ \A i \in DOMAIN events : /\ events[i].attempt = i - 1
                                /\ events[i].tokens = Min({received[i], MaxInt})
    /\ \A d \in DOMAIN Chain : d > Len(events) /\ (result # "none" \/ d > at) => acts[d] + received[d] = 0
    /\ result \notin {"none", "invalid"} => result = events[Len(events)].err

(* What a deployment has rejected as malformed goes to no other vendor      *)
(* under FailoverTransientOnly, and what has succeeded to none at all       *)
(* (fallback_modality.go 70-91).                                            *)
RejectedStaysHome ==
    \A i \in DOMAIN events, d \in DOMAIN Chain :
        d > i /\ acts[d] > 0 => events[i].err \notin {"ok", "malformed", "context"}
                                /\ (request.policy = "transient" => events[i].err # "400")
=============================================================================
