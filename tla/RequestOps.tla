----------------------------- MODULE RequestOps -----------------------------
(* Requests, the models they go to and what is decided before an adapter    *)
(* encodes one: the wire protocol, the capabilities a model was reviewed    *)
(* for and the ones a request needs, and thinking budgets.                  *)
(*                                                                          *)
(* A model is a record of its registry entry (ModelInfo) and, for Claude    *)
(* models, its thinking profile. A request is a record of the fields that   *)
(* decide something; the client's config has been merged into it. Of its    *)
(* SamplingParams two things do: whether they hold a sampling key (sampled) *)
(* and the output_config.effort they pass through (passedEffort).           *)
EXTENDS Handoff, Integers
LOCAL INSTANCE FiniteSetsExt

Levels == {"none", "minimal", "low", "medium", "high", "xhigh", "max"}

ThinkingBudgetTokens(level, custom) ==
    IF custom > 0 THEN custom
    ELSE CASE level = "minimal" -> 1024
           [] level = "low"     -> 4096
           [] level = "medium"  -> 16384
           [] level = "high"    -> 65536
           [] level \in {"xhigh", "max"} -> 128000
           [] OTHER -> 0

ClampThinkingBudget(budget, maxTokens) ==
    IF maxTokens > 0 THEN Min({budget, maxTokens}) ELSE budget

-----------------------------------------------------------------------------
(* OpenAI's reasoning models speak the Responses protocol; a provider       *)
(* without a preset speaks Chat Completions.                                *)
ResolveProtocol(model) ==
    CASE model.provider = "openai" /\ model.responsesAPI -> "responses"
      [] model.provider \in {"anthropic", "gemini"}      -> model.provider
      [] OTHER                                           -> "compat"

ProtocolEnvelope(protocol) ==
    {"chat", "stream", "tools", "structured", "vision"}
    \union CASE protocol = "anthropic" -> {"documents", "reasoning", "temperature"}
             [] protocol = "gemini"    -> {"documents", "reasoning", "temperature"}
             [] protocol = "responses" -> {"reasoning"}
             [] protocol = "compat"    -> {"documents", "temperature"}

SupportsSamplingTemperature(model) ==
    /\ ~ model.noSampling
    /\ ~ (model.provider \in {"openai", "xai"} /\ (model.thinking \/ model.responsesAPI))

(* Local models are reviewed for text only.                                 *)
DefaultChatCapabilities(model) ==
    {"chat", "stream"}
    \union (IF model.noTools THEN {} ELSE {"tools"})
    \union (IF model.supportsThinking \/ model.responsesAPI THEN {"reasoning"} ELSE {})
    \union (IF SupportsSamplingTemperature(model) THEN {"temperature"} ELSE {})
    \union (IF model.provider = "ollama" THEN {} ELSE {"structured", "vision", "documents"})

ResolveCapabilityProfile(model) ==
    LET envelope == ProtocolEnvelope(ResolveProtocol(model))
                    \ (IF SupportsSamplingTemperature(model) THEN {} ELSE {"temperature"})
    IN DefaultChatCapabilities(model) \intersect envelope

Holds(msgs, kind) == \E i \in DOMAIN msgs : \E j \in DOMAIN msgs[i].parts : msgs[i].parts[j].kind = kind

RequestCapabilities(req) ==
    {"chat"}
    \union (IF req.stream THEN {"stream"} ELSE {})
    \union (IF req.tools \/ req.serverTools THEN {"tools"} ELSE {})
    \union (IF req.format # "none" THEN {"structured"} ELSE {})
    \union (IF req.level # "none" THEN {"reasoning"} ELSE {})
    \union (IF req.temperature # "none" THEN {"temperature"} ELSE {})
    \union (IF Holds(req.messages, "image") THEN {"vision"} ELSE {})
    \union (IF Holds(req.messages, "document") THEN {"documents"} ELSE {})

(* On the strict Anthropic API version no sampling control is accepted.     *)
AnthropicSamplingError(req) == req.strict /\ (req.temperature # "none" \/ req.sampled)

ValidateRequestCapabilities(model, req) ==
    /\ RequestCapabilities(req) \subseteq ResolveCapabilityProfile(model)
    /\ ResolveProtocol(model) = "anthropic" =>
          /\ ~ AnthropicSamplingError(req)
          /\ req.level # "none" => req.temperature \in {"none", "one"}

(* Server tools are Anthropic's; elsewhere a request with one is refused.   *)
UnsupportedServerTools(req) == req.serverTools \/ req.container

-----------------------------------------------------------------------------
(* What an adapter hands over: a refusal, or the body as a sequence of      *)
(* items with a role and parts. A choice of tools goes only with tools.     *)
Refusal == [ok |-> FALSE]

NoThinking == [type |-> "none", budget |-> 0]

Forced(choice) == choice \in {"required", "tool"}

ToolChoiceWire(req, anyTools) ==
    IF anyTools /\ req.choice \in {"forbidden", "required", "tool"} THEN req.choice ELSE "none"

Item(role, parts) == [role |-> role, parts |-> parts]

IsText(p) == p.kind = "text" /\ p.text # NoText
Texts(parts) == SelectSeq(parts, IsText)
OnlyOf(parts, kinds) == SelectSeq(parts, LAMBDA p : p.kind \in kinds)
=============================================================================
