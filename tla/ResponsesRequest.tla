-------------------------- MODULE ResponsesRequest --------------------------
(* The Responses adapter's buildRequest. The transcript becomes a flat list *)
(* of items: messages, function calls and function call outputs.            *)
EXTENDS RequestOps
LOCAL INSTANCE SequencesExt

Refuses(model, req) ==
    \/ UnsupportedServerTools(req)
    \/ req.effort # "none" /\ req.level \notin {"none", req.effort}
    \/ req.tools /\ model.noTools
    \/ \E i \in DOMAIN req.messages :
          req.messages[i].role = "user" /\ OnlyOf(req.messages[i].parts, {"document"}) # <<>>

(* reasoningEffort: the deepest effort the API has stands in for "max".     *)
ReasoningEffort(req) ==
    LET asked == IF req.effort # "none" THEN req.effort ELSE req.level
    IN IF asked = "max" THEN "xhigh" ELSE asked

(* buildUserMessage.                                                        *)
UserItems(m) ==
    LET results == OnlyOf(m.parts, {"result"})
        said    == Texts(m.parts) \o OnlyOf(m.parts, {"image"})
    IN [i \in DOMAIN results |-> Item("tool", <<results[i]>>)]
       \o (IF said = <<>> THEN <<>> ELSE <<Item("user", said)>>)

(* Faulty: text goes out only in front of a call.                           *)
AssistantItemsOfCalls(m) ==
    LET Part(s, p) == CASE IsText(p) -> [s EXCEPT !.text = Append(@, p)]
                        [] p.kind = "tool" ->
                               [text |-> <<>>, out |-> s.out \o (IF s.text = <<>> THEN <<>> ELSE <<Item("assistant", s.text)>>)
                                                        \o <<Item("assistant", <<p>>)>>]
                        [] OTHER -> s
    IN FoldLeft(Part, [text |-> <<>>, out |-> <<>>], m.parts).out

(* buildAssistantMessage: text goes out when a call follows it, or at the   *)
(* end.                                                                     *)
AssistantItems(m) ==
    LET Said(t) == IF t = <<>> THEN <<>> ELSE <<Item("assistant", t)>>
        Part(s, p) == CASE IsText(p)        -> [s EXCEPT !.text = Append(@, p)]
                        [] p.kind = "tool"  -> [text |-> <<>>, out |-> s.out \o Said(s.text)
                                                                 \o <<Item("assistant", <<p>>)>>]
                        [] OTHER            -> s
        read == FoldLeft(Part, [text |-> <<>>, out |-> <<>>], m.parts)
    IN read.out \o Said(read.text)

ItemsOf(m) ==
    CASE m.role = "user"      -> UserItems(m)
      [] m.role = "assistant" -> AssistantItems(m)
      [] OTHER -> IF Texts(m.parts) = <<>> THEN <<>> ELSE <<Item(m.role, Texts(m.parts))>>

Build(model, req) ==
    IF Refuses(model, req) THEN Refusal
    ELSE [ok |-> TRUE, system |-> req.system, thinking |-> NoThinking, effort |-> ReasoningEffort(req),
          items |-> FlattenSeq([i \in DOMAIN req.messages |-> ItemsOf(req.messages[i])]),
          maxTokens |-> req.maxTokens, choice |-> ToolChoiceWire(req, req.tools), tools |-> req.tools]
=============================================================================
