-------------------------- MODULE AnthropicRequest --------------------------
(* The Anthropic adapter's buildRequest: which request it refuses, how the  *)
(* transcript becomes messages, and how thinking is asked for.              *)
EXTENDS RequestOps
LOCAL INSTANCE SequencesExt
LOCAL INSTANCE FiniteSetsExt

MinThinkingBudgetTokens == 1024

(* A Claude model takes a thinking budget (profile "budget"), or only       *)
(* adaptive thinking, which without a level is switched off, kept to the    *)
(* gaps between tool calls, or left alone since it cannot be switched off.  *)
Adaptive(model) == model.off # "budget"

ThinkingOn(model, req) == req.level # "none" \/ model.off \in {"omit", "between"}

EffortOfLevel(model, req) ==
    IF ~ Adaptive(model) \/ req.level = "none" THEN "none"
    ELSE IF req.level = "minimal" THEN "low"
    ELSE req.level

(* requestEffort: the level's effort and the request's must agree. A budget *)
(* model takes the efforts it is known for (budgetEffort), others take any. *)
EffortConflict(model, req) ==
    LET level == EffortOfLevel(model, req)
    IN /\ req.effort # "none"
       /\ \/ level \notin {"none", req.effort}
          \/ ~ Adaptive(model) /\ req.effort \notin model.efforts

RequestEffort(model, req) == IF req.effort # "none" THEN req.effort ELSE EffortOfLevel(model, req)

(* The effort that goes out may also be one that SamplingParams pass on.    *)
SentEffort(model, req) ==
    IF RequestEffort(model, req) # "none" THEN RequestEffort(model, req) ELSE req.passedEffort

AboveHigh(effort) == effort \in {"xhigh", "max"}

(* Faulty: cited text is taken for the user's whoever wrote it.             *)
StrictVersionCitations(msgs) ==
    \E i \in DOMAIN msgs : \E j \in DOMAIN msgs[i].parts :
        LET p == msgs[i].parts[j] IN p.kind = "text" /\ p.cited

StrictVersionContent(msgs) ==
    \E i \in DOMAIN msgs : \E j \in DOMAIN msgs[i].parts :
        LET p == msgs[i].parts[j] IN
        \/ msgs[i].role = "assistant" /\ p.kind = "document"
        \/ msgs[i].role = "user" /\ p.kind = "text" /\ p.cited

Refuses(model, req) ==
    \/ AnthropicSamplingError(req)
    \/ req.strict /\ StrictVersionContent(req.messages)
    \/ req.format = "object"
    \/ EffortConflict(model, req)
    \/ /\ Adaptive(model)
       /\ \/ model.noForcedChoice /\ Forced(req.choice) /\ (req.tools \/ req.serverTools)
          \/ req.level # "none" /\ req.budget > 0
          \/ /\ req.level = "none" /\ AboveHigh(SentEffort(model, req))
             /\ model.off = "between" \/ (model.off = "disabled" /\ model.disabledUpToHigh)

-----------------------------------------------------------------------------
(* Faulty: thinking goes along although this request does not think.        *)
ReplaysBlockAlways(model, req, p) ==
    CASE p.kind = "text"     -> p.text # NoText
      [] p.kind = "thinking" -> p.redacted \/ p.signed
      [] OTHER               -> TRUE

(* Thinking blocks go along only with thinking, and only with a signature.  *)
ReplaysBlock(model, req, p) ==
    CASE p.kind = "text"     -> p.text # NoText
      [] p.kind = "thinking" -> ThinkingOn(model, req) /\ (p.redacted \/ p.signed)
      [] OTHER               -> TRUE

Conversation(req) == SelectSeq(req.messages, LAMBDA m : m.role # "system")

Messages(model, req) ==
    LET Blocks(m) == SelectSeq(m.parts, LAMBDA p : ReplaysBlock(model, req, p))
        all == [i \in DOMAIN Conversation(req) |-> Item(Conversation(req)[i].role, Blocks(Conversation(req)[i]))]
    IN SelectSeq(all, LAMBDA m : m.parts # <<>>)

(* The top-level system prompt takes the system messages in.                *)
System(req) ==
    LET notes == SelectSeq(req.messages, LAMBDA m : m.role = "system")
    IN req.system \o FlattenSeq([i \in DOMAIN notes |-> Texts(notes[i].parts)])

(* Faulty: the budget may take all of the request's max_tokens.             *)
BudgetUpToMaxTokens(model, req) ==
    LET asked == ClampThinkingBudget(ThinkingBudgetTokens(req.level, req.budget), model.maxTokens)
        fits  == ClampThinkingBudget(asked, req.maxTokens)
    IN IF fits >= MinThinkingBudgetTokens THEN fits
       ELSE IF req.maxTokens > MinThinkingBudgetTokens THEN MinThinkingBudgetTokens
       ELSE 0

(* The budget of a budget model: within the model's limit, a quarter of     *)
(* max_tokens left for the answer, at least the API's minimum, and none     *)
(* where max_tokens leaves no room for it.                                  *)
Budget(model, req) ==
    LET asked == ClampThinkingBudget(ThinkingBudgetTokens(req.level, req.budget), model.maxTokens)
        fits  == IF req.maxTokens > 0 /\ asked >= req.maxTokens
                 THEN ClampThinkingBudget(asked, req.maxTokens - req.maxTokens \div 4)
                 ELSE asked
    IN IF fits >= MinThinkingBudgetTokens THEN fits
       ELSE IF req.maxTokens > MinThinkingBudgetTokens THEN MinThinkingBudgetTokens
       ELSE 0

Thinking(model, req) ==
    IF Adaptive(model) /\ req.level # "none" THEN [type |-> "adaptive", budget |-> 0]
    ELSE CASE model.off = "disabled" -> [type |-> "disabled", budget |-> 0]
           [] model.off = "between"  -> [type |-> "between_tools", budget |-> 0]
           [] model.off = "budget" /\ req.level # "none" /\ Budget(model, req) > 0 ->
                  [type |-> "enabled", budget |-> Budget(model, req)]
           [] OTHER                  -> NoThinking

Build(model, req) ==
    IF Refuses(model, req) THEN Refusal
    ELSE [ok |-> TRUE, items |-> Messages(model, req), system |-> System(req),
          thinking |-> Thinking(model, req), effort |-> RequestEffort(model, req),
          maxTokens |-> req.maxTokens, choice |-> ToolChoiceWire(req, req.tools \/ req.serverTools),
          tools |-> req.tools \/ req.serverTools]
=============================================================================
