------------------------------ MODULE TurnLoop ------------------------------
(* A tool-using conversation that is handed from model to model: what the   *)
(* user says and answers, the request each turn makes of the transcript     *)
(* (NormalizeForModel, the capability gate, the adapter's buildRequest),    *)
(* and the reply that is recorded with its provenance.                      *)
EXTENDS RequestOps
LOCAL INSTANCE SequencesExt
LOCAL INSTANCE FiniteSetsExt
LOCAL INSTANCE TLC

CONSTANTS Models,           \* the models the conversation may go to
          Settings,         \* the requests' other fields
          Attachments,      \* the parts other than text of a user message
          PlainSettings,    \* those that ask for nothing in particular
          MaxTurns          \* bound on the replies in a conversation

AR == INSTANCE AnthropicRequest
OR == INSTANCE OpenAICompatRequest
RR == INSTANCE ResponsesRequest
GR == INSTANCE GeminiRequest

VARIABLES model,    \* where the session's client sends to
          history,  \* the conversation's messages
          input,    \* the messages of the turn in flight
          asked,    \* the settings of the turn in flight
          wire      \* what the adapter made of the request
vars == <<model, history, input, asked, wire>>

Idle      == input = <<>>
InFlight  == ~ Idle

(* The name a client gives as its provider: both OpenAI protocols are one.  *)
ModelID(m) == [line |-> m.line, snapshot |-> m.snapshot]

Turns == Len(SelectSeq(history, LAMBDA m : m.role = "assistant"))

(* What is said at a turn is told apart by the turn.                        *)
Text == TextPart("user", <<"said", Turns>>, FALSE)
Note == [UserMessage(<<TextPart("user", <<"note", Turns>>, FALSE)>>) EXCEPT !.role = "system"]

(* The calls of the last reply, which the caller may answer, all or some.   *)
OpenCalls ==
    IF history = <<>> \/ history[Len(history)].role # "assistant" THEN <<>>
    ELSE OnlyOf(history[Len(history)].parts, {"tool"})

Results(calls) == [i \in DOMAIN calls |-> ResultPart(calls[i].id, calls[i].ref, TRUE)]

Inputs ==
    {<<UserMessage(<<Text>>)>>}
    \union {<<Note, UserMessage(<<Text, a>>)>> : a \in Attachments}
    \union (IF OpenCalls = <<>> THEN {}
            ELSE {<<UserMessage(Results(OpenCalls))>>,
                  <<UserMessage(Append(Results(Tail(OpenCalls)), Text))>>})

(* Session.prepareTurn, and the config merged in.                           *)
RequestFor(m, msgs, s) ==
    s @@ [messages |-> NormalizeForModel(msgs, m.provider, ModelID(m)), system |-> <<>>]

Built(m, req) ==
    IF ~ ValidateRequestCapabilities(m, req) THEN Refusal
    ELSE CASE ResolveProtocol(m) = "anthropic" -> AR!Build(m, req)
           [] ResolveProtocol(m) = "compat"    -> OR!Build(m, req)
           [] ResolveProtocol(m) = "responses" -> RR!Build(m, req)
           [] ResolveProtocol(m) = "gemini"    -> GR!Build(m, req)

Init == /\ model \in Models
        /\ history = <<>> /\ input = <<>>
        /\ asked = PlainSettings /\ wire = Refusal

(* Session.SetClient.                                                       *)
HandOver(m) == /\ Idle /\ m # model
               /\ model' = m
               /\ UNCHANGED <<history, input, asked, wire>>

(* A request that is refused leaves the conversation as it is.              *)
Send(msgs, s) ==
    LET body == Built(model, RequestFor(model, history \o msgs, s))
    IN /\ Idle /\ body.ok
       /\ input' = msgs /\ asked' = s /\ wire' = body
       /\ UNCHANGED <<model, history>>

(* The provider (external): what a reply may hold, by provider. Ids are its *)
(* own and unique, except Gemini's, which the adapter makes up.             *)
CallID(i) ==
    IF model.provider = "gemini" THEN GR!MakeToolCallID(i - 1, "f")
    ELSE ID(<<"toolu", Len(PartsOfKind(history, "tool")) + i>>)

Call(i) == ToolPart(model.line, CallID(i), "f", model.provider = "gemini",
                    Len(PartsOfKind(history, "tool")) + i)

Answer  == TextPart(model.line, <<"answer", Turns>>, FALSE)
Thought(t, signed, redacted) == ThinkingPart(model.line, t, signed, redacted)
Thinks  == \/ wire.thinking.type \in {"adaptive", "between_tools", "enabled"}
           \/ ResolveProtocol(model) = "anthropic" /\ model.off = "omit"
           \/ ResolveProtocol(model) \in {"gemini", "responses"} /\ model.supportsThinking

Replies ==
    {<<Answer>>}
    \union (IF asked.tools THEN {<<Answer, Call(1)>>, <<Call(1), Call(2)>>} ELSE {})
    \union (IF ~ Thinks THEN {}
            ELSE IF model.provider = "anthropic"
            THEN {<<Thought(NoText, TRUE, FALSE), Call(1)>> : n \in IF asked.tools THEN {1} ELSE {}}
                 \union {<<Thought(NoText, FALSE, TRUE), Answer>>, <<Thought(<<"thought", Turns>>, TRUE, FALSE), Answer>>}
            ELSE {<<Thought(<<"thought", Turns>>, FALSE, FALSE), Answer>>})
    \union (IF asked.serverTools
            THEN {<<ServerPart(model.line), TextPart(model.line, <<"answer", Turns>>, TRUE)>>} ELSE {})

StopOf(parts) == IF OnlyOf(parts, {"tool"}) # <<>> THEN "tool" ELSE "end"

(* Session.commitTurn and NewAssistantMessage: input and reply together.    *)
Commit(parts, stop, snapshot) ==
    /\ Turns < MaxTurns
    /\ history' = Append(history \o input,
                         [role |-> "assistant", provider |-> model.provider, stop |-> stop, parts |-> parts,
                          model |-> [line |-> model.line, snapshot |-> snapshot]])
    /\ input' = <<>> /\ asked' = PlainSettings /\ wire' = Refusal
    /\ UNCHANGED model

Reply == InFlight /\ \E parts \in Replies : Commit(parts, StopOf(parts), model.snapshot)

(* A failed Responses turn comes back as a reply that stopped with "error", *)
(* unless it holds a call: then it stopped to use the tool, like any other. *)
ReplyBroken ==
    /\ InFlight /\ ResolveProtocol(model) = "responses"
    /\ \E parts \in Replies :
          Commit(parts, IF StopOf(parts) = "tool" THEN "tool" ELSE "error", model.snapshot)

(* A reply may say more exactly than the request which model gave it.       *)
ReplyOfSnapshot == InFlight /\ \E parts \in Replies : /\ parts[1].kind = "thinking"
                                                     /\ Commit(parts, StopOf(parts), "001")

(* The call fails: nothing of the turn is recorded.                         *)
Failed == /\ InFlight
          /\ input' = <<>> /\ asked' = PlainSettings /\ wire' = Refusal
          /\ UNCHANGED <<model, history>>

Next == \/ (\E m \in Models : HandOver(m))
        \/ (\E msgs \in Inputs, s \in Settings : Send(msgs, s))
        \/ Reply \/ ReplyBroken \/ ReplyOfSnapshot \/ Failed

Spec == Init /\ [][Next]_vars

-----------------------------------------------------------------------------
Sent == FlattenSeq([i \in DOMAIN wire.items |-> wire.items[i].parts])

(* On the wire every tool call is followed by exactly one result of its     *)
(* own, the caller's where the caller gave one, before anything else is     *)
(* said; where calls have ids, they are distinct and the result names its   *)
(* call's. No result goes out without its call. Anthropic and OpenAI reject *)
(* a transcript that breaks this (normalize.go:58, the repair of orphans,   *)
(* and the adapters' splitting of messages).                                *)
EveryCallAnswered ==
    InFlight =>
      LET At(kind) == {i \in DOMAIN Sent : Sent[i].kind = kind}
          Answers(i) == {j \in At("result") : Sent[j].ref = Sent[i].ref}
          given == {p.ref : p \in ToSet(OnlyOf(FlattenSeq([i \in DOMAIN (history \o input) |->
                                                           (history \o input)[i].parts]), {"result"}))}
      IN /\ Cardinality(At("result")) = Cardinality(At("tool"))
         /\ \A i \in At("tool") :
               /\ Cardinality(Answers(i)) = 1
               /\ \A j \in Answers(i) :
                     /\ j > i /\ \A k \in (i + 1)..j : Sent[k].kind \in {"tool", "result"}
                     /\ Sent[j].given = (Sent[i].ref \in given)
                     /\ model.provider # "gemini" => Sent[j].id = Sent[i].id
         /\ model.provider # "gemini" =>
               \A i, j \in At("tool") : Sent[i].id = Sent[j].id => i = j

(* A result that goes to Gemini goes out under the name of the function that *)
(* was called, whatever id the call got (gemini.go:750: the name is read    *)
(* from the id by "the strict inverse of makeToolCallID").                  *)
ResultsNameTheirCall ==
    InFlight /\ model.provider = "gemini" =>
      \A i, j \in DOMAIN Sent :
          Sent[i].kind = "tool" /\ Sent[j].kind = "result" /\ Sent[i].ref = Sent[j].ref
              => Sent[i].name = Sent[j].name

(* Reasoning goes back to the model it came from, and to no other. No model *)
(* is shown another's, sealed or as plain text (normalize.go:42: it would   *)
(* imitate it), whatever handovers lie between; and a Claude model that     *)
(* thinks in this request gets back every sealed block it wrote, also the   *)
(* ones without text and those recorded under a more specific id, in order: *)
(* a tool loop cannot go on without them.                                   *)
ReasoningStaysWithItsModel ==
    InFlight =>
      LET Own(p) == p.kind = "thinking" /\ p.by = model.line
          thinks == model.off = "omit" \/ wire.thinking.type \notin {"none", "disabled"}
      IN /\ \A i \in DOMAIN Sent :
               Sent[i].kind = "thinking" \/ (Sent[i].kind = "text" /\ Sent[i].text[1] = "thought")
                   => Sent[i].by = model.line
         /\ ResolveProtocol(model) = "anthropic" /\ thinks =>
               SelectSeq(Sent, Own) = SelectSeq(PartsOfKind(history, "thinking"), Own)

(* Whatever models the conversation went through, what the user said and    *)
(* what complete turns answered is on the wire, in the order it was said.   *)
SaidIsSent ==
    InFlight =>
      LET Spoken(p) == p.kind = "text" /\ p.text[1] \in {"said", "answer"}
          said == FlattenSeq([i \in DOMAIN (history \o input) |->
                                LET m == (history \o input)[i]
                                IN IF IsIncompleteTurn(m.stop) THEN <<>> ELSE SelectSeq(m.parts, Spoken)])
          sent == SelectSeq(Sent, Spoken)
      IN [i \in DOMAIN sent |-> sent[i].text] = [i \in DOMAIN said |-> said[i].text]

(* A request holds nothing its provider refuses outright. No message goes   *)
(* out empty; a thinking budget lies between Anthropic's minimum and        *)
(* max_tokens, exclusive, or within Gemini's limit (anthropic.go:715,       *)
(* gemini.go:777); and thinking is not sent back to a Claude model that is  *)
(* told not to think (anthropic.go:509), the late way out of a max_tokens   *)
(* with no room for a budget excepted (anthropic.go:731).                   *)
NothingRejectable ==
    InFlight =>
      /\ \A i \in DOMAIN wire.items : wire.items[i].parts # <<>>
      /\ wire.choice # "none" => wire.tools
      /\ wire.thinking.type = "enabled" =>
            /\ wire.thinking.budget \in AR!MinThinkingBudgetTokens..(wire.maxTokens - 1)
            /\ wire.thinking.budget <= model.maxTokens
      /\ wire.thinking.type = "budget" => wire.thinking.budget \in 1..GR!MaxThinkingBudget
      /\ (\E i \in DOMAIN Sent : Sent[i].kind = "thinking") =>
            \/ wire.thinking.type \in {"enabled", "adaptive", "between_tools"}
            \/ model.off = "omit" \/ wire.maxTokens <= AR!MinThinkingBudgetTokens

(* No transcript of text and tool calls gets stuck: whichever models wrote  *)
(* it, any model can be sent a plain text next and its request ends in it.  *)
CanAlwaysGoOn ==
    Idle /\ ~ Holds(history, "image") /\ ~ Holds(history, "document") =>
      LET next == UserMessage(<<Text>>)
          body == Built(model, RequestFor(model, Append(history, next), PlainSettings))
      IN body.ok /\ body.items # <<>> /\ body.items[Len(body.items)].parts = next.parts
=============================================================================
