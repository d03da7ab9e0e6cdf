------------------------- MODULE OpenAICompatRequest -------------------------
(* The Chat Completions adapter's buildRequest. Every tool result is a      *)
(* message of its own, before what else the user said with it.              *)
EXTENDS RequestOps
LOCAL INSTANCE SequencesExt

Refuses(model, req) ==
    \/ UnsupportedServerTools(req)
    \/ req.level # "none" \/ req.effort # "none"
    \/ req.tools /\ model.noTools
    \/ \E i \in DOMAIN req.messages :
          /\ req.messages[i].role = "user"
          /\ \E j \in DOMAIN req.messages[i].parts :
                LET p == req.messages[i].parts[j] IN p.kind = "document" /\ p.plain

(* Faulty: what was said comes before the results it came with.             *)
UserItemsInOrder(m) ==
    LET results == OnlyOf(m.parts, {"result"})
        said    == Texts(m.parts) \o OnlyOf(m.parts, {"image", "document"})
    IN (IF said = <<>> THEN <<>> ELSE <<Item("user", said)>>)
       \o [i \in DOMAIN results |-> Item("tool", <<results[i]>>)]

UserItems(m) ==
    LET results == OnlyOf(m.parts, {"result"})
        said    == Texts(m.parts) \o OnlyOf(m.parts, {"image"}) \o OnlyOf(m.parts, {"document"})
    IN [i \in DOMAIN results |-> Item("tool", <<results[i]>>)]
       \o (IF said = <<>> THEN <<>> ELSE <<Item("user", said)>>)

(* A message left with neither content nor calls is skipped.                *)
OtherItems(m) ==
    LET parts == Texts(m.parts) \o (IF m.role = "assistant" THEN OnlyOf(m.parts, {"tool"}) ELSE <<>>)
    IN IF parts = <<>> THEN <<>> ELSE <<Item(m.role, parts)>>

ItemsOf(m) == IF m.role = "user" THEN UserItems(m) ELSE OtherItems(m)

Build(model, req) ==
    IF Refuses(model, req) THEN Refusal
    ELSE [ok |-> TRUE, system |-> req.system, thinking |-> NoThinking, effort |-> "none",
          items |-> FlattenSeq([i \in DOMAIN req.messages |-> ItemsOf(req.messages[i])]),
          maxTokens |-> req.maxTokens, choice |-> ToolChoiceWire(req, req.tools), tools |-> req.tools]
=============================================================================
