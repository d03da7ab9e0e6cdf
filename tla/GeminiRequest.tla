--------------------------- MODULE GeminiRequest ----------------------------
(* The Gemini adapter's buildRequest. Gemini knows calls by their names     *)
(* only, so a result goes out under the name that can be read from its id.  *)
EXTENDS RequestOps
LOCAL INSTANCE SequencesExt
LOCAL INSTANCE FiniteSetsExt

MaxThinkingBudget == 65535

(* makeToolCallID and resolveToolName: "call_<n>_<name>" gives back what    *)
(* follows the number, any other id is its own name.                        *)
MakeToolCallID(index, name) == ID(<<"call", index, name>>)

ResolveToolName(id) ==
    IF id.base[1] = "call" THEN [base |-> id.base[3], copies |-> id.copies] ELSE id

NameOf(function) == [base |-> function, copies |-> <<>>]

Refuses(model, req) ==
    \/ UnsupportedServerTools(req)
    \/ req.effort # "none"
    \/ \E i \in DOMAIN req.messages : \E j \in DOMAIN req.messages[i].parts :
          LET p == req.messages[i].parts[j]
          IN req.messages[i].role # "system" /\ p.kind = "document" /\ p.plain

PartOf(p) ==
    CASE p.kind = "tool"   -> [kind |-> "tool", name |-> NameOf(p.name), signed |-> p.signed,
                             by |-> p.by, ref |-> p.ref]
      [] p.kind = "result" -> [kind |-> "result", name |-> ResolveToolName(p.id), ref |-> p.ref, given |-> p.given]
      [] OTHER             -> p

Contents(req) ==
    LET spoken == SelectSeq(req.messages, LAMBDA m : m.role # "system")
        Sent(p) == IsText(p) \/ p.kind \in {"image", "document", "tool", "result"}
        Parts(m) == LET kept == SelectSeq(m.parts, Sent) IN [j \in DOMAIN kept |-> PartOf(kept[j])]
        all == [i \in DOMAIN spoken |-> Item(spoken[i].role, Parts(spoken[i]))]
    IN SelectSeq(all, LAMBDA m : m.parts # <<>>)

System(req) ==
    LET notes == SelectSeq(req.messages, LAMBDA m : m.role = "system")
    IN req.system \o FlattenSeq([i \in DOMAIN notes |-> Texts(notes[i].parts)])

(* Faulty: only the model's output limit bounds a budget.                   *)
ClampedToModel(model, budget) == ClampThinkingBudget(budget, model.maxTokens)

ClampedBudget(model, budget) ==
    ClampThinkingBudget(ClampThinkingBudget(budget, model.maxTokens), MaxThinkingBudget)

(* Models that think natively take no thinking config; the others take a    *)
(* level where Gemini has one, else a budget.                               *)
Thinking(model, req) ==
    IF req.level = "none" \/ model.thinking THEN NoThinking
    ELSE IF req.budget > 0 THEN [type |-> "budget", budget |-> ClampedBudget(model, req.budget)]
    ELSE IF req.level = "minimal"
         THEN [type |-> "budget", budget |-> ClampedBudget(model, ThinkingBudgetTokens(req.level, 0))]
    ELSE [type |-> IF req.level \in {"xhigh", "max"} THEN "high" ELSE req.level, budget |-> 0]

(* What thinking will use is added to the output the caller asked for.      *)
MaxOutputTokens(model, req) ==
    IF (model.thinking \/ model.supportsThinking) /\ req.maxTokens > 0
    THEN ClampThinkingBudget(req.maxTokens + ThinkingBudgetTokens("low", 0), model.maxTokens)
    ELSE req.maxTokens

Build(model, req) ==
    IF Refuses(model, req) THEN Refusal
    ELSE [ok |-> TRUE, system |-> System(req), thinking |-> Thinking(model, req), effort |-> "none",
          items |-> Contents(req), maxTokens |-> MaxOutputTokens(model, req),
          choice |-> ToolChoiceWire(req, req.tools), tools |-> req.tools]
=============================================================================
