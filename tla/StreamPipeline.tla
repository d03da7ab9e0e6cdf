--------------------------- MODULE StreamPipeline ---------------------------
(* One reply on its way from a provider to the caller: the lines of the     *)
(* provider's event stream, the adapter that reads them, StreamWithBound-   *)
(* aries, and a consumer that folds what it is yielded (CollectStream), or  *)
(* reads the adapter's events as they are and goes on after an error line.  *)
(* The connection may be refused or cut, a line may be garbled, the         *)
(* provider may break off with an error event or leave out a line the       *)
(* adapters are written to do without, and the consumer may leave.          *)
EXTENDS AnthropicStream, OpenAICompatStream, ResponsesStream, GeminiStream

CONSTANTS Providers,        \* the adapters under test
          Turns,            \* replies: sequences of block kinds
          BlockIDs,         \* the ids of a reply's blocks, in order
          InputLimits,      \* values of Config.MaxToolInputBytes, in fragments
          MaxFaults,        \* bound on what goes wrong in one stream
          TextFragments     \* in how many deltas a text comes

Adapters == {"anthropic", "openai", "responses", "gemini"}
Kinds    == {"text", "thinking", "tool", "server", "result"}

ASSUME StreamAssumption ==
    /\ Providers \subseteq Adapters
    /\ Turns \subseteq Seq(Kinds)
    /\ \A kinds \in Turns : DOMAIN kinds \subseteq DOMAIN BlockIDs
    /\ IsInjective(BlockIDs) /\ "none" \notin Range(BlockIDs)
    /\ InputLimits \subseteq Nat
    /\ MaxFaults \in Nat
    /\ TextFragments \in Nat

VARIABLES provider, quirk, reply,   \* what this stream is, fixed from the start
          sent,      \* how many lines of each part of the reply were sent
          faults,    \* what may still go wrong
          adapter,   \* the adapter's state
          wrapped, open,            \* StreamWithBoundaries, if in use
          queue,     \* the adapter's yields not yet passed on
          out,       \* the events of one of them not yet taken
          acc,       \* the consumer's StreamAccumulator
          nesting, last, broke,     \* what it saw: boundaries, last type, an error
          phase,     \* "connecting", "reading", "ending", "closed", "left"
          misread    \* history: a garbled line was read; no action looks at it
consumer == <<acc, nesting, last, broke>>
setting == <<provider, quirk, reply, wrapped>>
vars == <<setting, sent, faults, adapter, open, queue, out, consumer, phase, misread>>

-----------------------------------------------------------------------------
(* The provider (external): the lines of a reply. Block i's lines are group *)
(* i, the lines that end the turn are the group after the last block.       *)
BlockOf(kinds, i) ==
    [kind |-> kinds[i],
     id |-> IF provider = "gemini" THEN "f" ELSE BlockIDs[i],
     frags |-> [k \in 1..TextFragments |-> <<BlockIDs[i], k>>]]

Blocks == [i \in DOMAIN reply.kinds |-> BlockOf(reply.kinds, i)]
HasTool(kinds) == \E i \in DOMAIN kinds : kinds[i] = "tool"

Line(type) == [type |-> type, optional |-> FALSE]
Chunk == [type |-> "chunk", optional |-> FALSE, reasoning |-> <<>>, text |-> <<>>,
          calls |-> <<>>, parts |-> <<>>, finish |-> "none", usage |-> FALSE]

AnthropicLines(i, b) ==
    LET delta(k) == CASE b.kind = "text"     -> [index |-> i, type |-> "text_delta", frag |-> b.frags[k], optional |-> FALSE]
                      [] b.kind = "thinking" -> [index |-> i, type |-> "thinking_delta", frag |-> b.frags[k], optional |-> FALSE]
                      [] OTHER               -> [index |-> i, type |-> "input_delta", frag |-> <<b.id, k>>, optional |-> FALSE]
        deltas == CASE b.kind \in {"text", "thinking"} -> TextFragments
                    [] b.kind \in {"tool", "server"}   -> ArgsFragments
                    [] OTHER                           -> 0
    IN [k \in 1..deltas + 2 |->
          CASE k = 1          -> [index |-> i, type |-> "block_start", kind |-> b.kind, id |-> b.id, optional |-> FALSE]
            [] k = deltas + 2 -> [index |-> i, type |-> "block_stop", optional |-> TRUE]
            [] OTHER          -> delta(k - 1)]

OpenAILines(i, b) ==
    LET number == CASE quirk = "noindex" -> Unnumbered [] quirk = "index0" -> 0 [] OTHER -> i
        delta(k) == [index |-> number, id |-> IF k = 1 THEN b.id ELSE "none", frag |-> <<<<b.id, k>>>>]
    IN CASE b.kind = "text"     -> [k \in 1..TextFragments |-> [Chunk EXCEPT !.text = <<b.frags[k]>>]]
         [] b.kind = "thinking" -> [k \in 1..TextFragments |-> [Chunk EXCEPT !.reasoning = <<b.frags[k]>>]]
         [] OTHER               -> [k \in 1..ArgsFragments |-> [Chunk EXCEPT !.calls = <<delta(k)>>]]

ResponsesLines(i, b) ==
    LET item == IF quirk = "noitem" THEN "none" ELSE b.id
        delta(k) == [type |-> "args_delta", item |-> item, index |-> i, frag |-> <<b.id, k>>, optional |-> FALSE]
    IN CASE b.kind = "text"     -> [k \in 1..TextFragments |->
                                     [type |-> "text_delta", frag |-> b.frags[k], optional |-> FALSE]]
         [] b.kind = "thinking" -> [k \in 1..TextFragments |->
                                     [type |-> "reasoning_delta", frag |-> b.frags[k], optional |-> FALSE]]
         [] OTHER ->
              [k \in 1..ArgsFragments + 2 |->
                 CASE k = 1 ->
                        [type |-> "item_added", item |-> b.id, index |-> i, id |-> b.id, optional |-> quirk = "none"]
                   [] k = ArgsFragments + 2 ->
                        [type |-> "args_done", item |-> item, index |-> i, optional |-> FALSE,
                         id   |-> IF quirk = "none" THEN b.id ELSE "none",
                         args |-> IF quirk = "none" THEN WholeArgs(b.id) ELSE <<>>]
                   [] OTHER -> delta(k - 1)]

GeminiParts(b) ==
    IF b.kind = "tool" THEN <<[kind |-> "tool", id |-> b.id]>>
    ELSE [k \in 1..TextFragments |-> [kind |-> b.kind, frag |-> b.frags[k]]]

GeminiLines(b) ==
    IF quirk = "together" THEN <<>>
    ELSE [k \in DOMAIN GeminiParts(b) |-> [Chunk EXCEPT !.parts = <<GeminiParts(b)[k]>>]]

BlockLines(i) ==
    LET b == Blocks[i] IN
    CASE provider = "anthropic" -> AnthropicLines(i, b)
      [] provider = "openai"    -> OpenAILines(i, b)
      [] provider = "responses" -> ResponsesLines(i, b)
      [] provider = "gemini"    -> GeminiLines(b)

(* The finish reason on the wire: Gemini has none for tool calls.           *)
WireStop == IF provider = "gemini" /\ reply.stop = "tool" THEN "end" ELSE reply.stop

EndLines ==
    CASE provider = "anthropic" -> <<[type |-> "message_delta", stop |-> reply.stop, optional |-> FALSE]>>
      [] provider = "openai"    ->
           <<[Chunk EXCEPT !.finish = reply.stop, !.optional = (reply.stop # "max")],
             [Chunk EXCEPT !.usage = TRUE, !.optional = TRUE], Line("[DONE]")>>
      [] provider = "responses" ->
           <<[type |-> "terminal", status |-> IF reply.stop = "max" THEN "incomplete" ELSE "completed",
              optional |-> FALSE]>>
      [] provider = "gemini"    ->
           <<[Chunk EXCEPT !.finish = WireStop, !.usage = TRUE,
                           !.parts = IF quirk = "together"
                                     THEN FlattenSeq([i \in DOMAIN Blocks |-> GeminiParts(Blocks[i])])
                                     ELSE <<>>]>>

StartLines == IF provider = "anthropic" THEN <<Line("message_start")>> ELSE <<>>

Groups  == 0..Len(reply.kinds) + 1
LinesOf(g) == CASE g = 0 -> StartLines
                [] g = Len(reply.kinds) + 1 -> EndLines
                [] OTHER -> BlockLines(g)
Sent(g) == sent[g] = Len(LinesOf(g))

(* Blocks come one after the other, but the deltas of parallel calls may    *)
(* interleave where the protocol tells them apart.                          *)
Interleaves(g, h) ==
    /\ quirk \in {"none", "noitem", "bare_done"}
    /\ provider \in {"openai", "responses"}
    /\ {g, h} \subseteq DOMAIN reply.kinds
    /\ \A i \in g..h : reply.kinds[i] = "tool"

Ready(g) == /\ ~ Sent(g)
            /\ \A h \in 0..(g - 1) : Sent(h) \/ (sent[h] > 0 /\ Interleaves(h, g))

Quirks(p) == CASE p = "openai"    -> {"none", "noindex", "index0"}
               [] p = "responses" -> {"none", "noitem", "bare_done"}
               [] p = "gemini"    -> {"none", "together"}
               [] OTHER           -> {"none"}

Speaks(p, kinds) == p = "anthropic" \/ \A i \in DOMAIN kinds : kinds[i] \in {"text", "thinking", "tool"}

StopsOf(kinds) == IF HasTool(kinds) THEN {"tool"} ELSE {"end", "max"}

-----------------------------------------------------------------------------
(* The adapters, by provider.                                               *)
StartOfAdapter(p, limit) ==
    CASE p = "anthropic" -> AnthropicStart(limit)
      [] p = "openai"    -> OpenAIStart(limit)
      [] p = "responses" -> ResponsesStart(limit)
      [] p = "gemini"    -> GeminiStart(limit)

Read(l) ==
    CASE provider = "anthropic" -> AnthropicLine(adapter, l)
      [] provider = "openai"    -> OpenAILine(adapter, l)
      [] provider = "responses" -> ResponsesLine(adapter, l)
      [] provider = "gemini"    -> GeminiLine(adapter, l)

ReadEnd ==
    CASE provider = "anthropic" -> AnthropicEnd(adapter)
      [] provider = "openai"    -> OpenAIEnd(adapter)
      [] provider = "responses" -> ResponsesEnd(adapter)
      [] provider = "gemini"    -> GeminiEnd(adapter)

(* What Complete returns for the same reply.                                *)
Completed ==
    CASE provider = "anthropic" -> AnthropicResponse(Blocks, reply.stop)
      [] provider = "openai"    -> OpenAIResponse(Blocks, reply.stop)
      [] provider = "responses" ->
           ResponsesResponse(Blocks, IF reply.stop = "max" THEN "incomplete" ELSE "completed")
      [] provider = "gemini"    -> GeminiResponse(Blocks, WireStop)

Init ==
    /\ provider \in Providers
    /\ quirk \in Quirks(provider)
    /\ \E kinds \in Turns : /\ Speaks(provider, kinds)
                            /\ \E stop \in StopsOf(kinds) : reply = [kinds |-> kinds, stop |-> stop]
    /\ sent = [g \in Groups |-> 0]
    /\ faults = MaxFaults
    /\ \E limit \in InputLimits : adapter = StartOfAdapter(provider, limit)
    /\ wrapped \in BOOLEAN
    /\ open = "none" /\ queue = <<>> /\ out = <<>>
    /\ acc = EmptyFold /\ nesting = "none" /\ last = "none" /\ broke = FALSE
    /\ phase = "connecting"
    /\ misread = FALSE

-----------------------------------------------------------------------------
(* What the consumer has been yielded inside: the block that is open, or    *)
(* "ended" after the event that ends a stream, or "broken".                 *)
Nest(b, ev) ==
    CASE ev.type \in {"text_start", "thinking_start", "tool_start"} ->
           IF b = "none" THEN ev.type ELSE "broken"
      [] ev.type = "text_end"     -> IF b = "text_start" THEN "none" ELSE "broken"
      [] ev.type = "thinking_end" -> IF b = "thinking_start" THEN "none" ELSE "broken"
      [] ev.type = "tool_end"     -> IF b = "tool_start" THEN "none" ELSE "broken"
      [] ev.type = "content"      -> IF b = "text_start" THEN b ELSE "broken"
      [] ev.type = "thinking"     -> IF b = "thinking_start" THEN b ELSE "broken"
      [] ev.type = "tool_use"     -> IF b = "tool_start" THEN b ELSE "broken"
      [] ev.type \in {"done", "error", "bare_error"} -> IF b = "none" THEN "ended" ELSE "broken"
      [] OTHER -> IF b \in {"broken", "ended"} THEN "broken" ELSE b

(* The handling of one line: what the adapter yields is passed on event by  *)
(* event; it goes on after an error unless it stopped itself.               *)
Handle(r) ==
    /\ adapter' = r.st
    /\ queue' = r.out
    /\ phase' = IF r.halt THEN "ending" ELSE "reading"
    /\ UNCHANGED <<setting, open, out, consumer>>

(* Stream's own part: a request that cannot be built or sent, or an answer  *)
(* other than 200, is one error and no more.                                *)
Refused == /\ phase = "connecting" /\ faults > 0
           /\ faults' = faults - 1
           /\ Handle([st |-> adapter, out |-> <<BareError>>, halt |-> TRUE])
           /\ UNCHANGED <<sent, misread>>

Accepted == /\ phase = "connecting"
            /\ phase' = "reading"
            /\ UNCHANGED <<setting, sent, faults, adapter, open, queue, out, consumer, misread>>

Reading == phase = "reading" /\ queue = <<>> /\ out = <<>>

Receive(g) == /\ Reading /\ Ready(g)
              /\ Handle(Read(LinesOf(g)[sent[g] + 1]))
              /\ sent' = [sent EXCEPT ![g] = @ + 1]
              /\ UNCHANGED <<faults, misread>>

(* The provider leaves out a line it should have sent.                      *)
LeaveOut(g) == /\ Reading /\ Ready(g) /\ faults > 0
               /\ LinesOf(g)[sent[g] + 1].optional
               /\ sent' = [sent EXCEPT ![g] = @ + 1]
               /\ faults' = faults - 1
               /\ UNCHANGED <<setting, adapter, open, queue, out, consumer, phase, misread>>

Garbled == /\ Reading /\ faults > 0
           /\ Handle(Read(Line("garbled")))
           /\ misread' = TRUE
           /\ faults' = faults - 1
           /\ UNCHANGED sent

ErrorEvent == /\ Reading /\ faults > 0
              /\ provider \in {"anthropic", "responses"}
              /\ Handle(Read(Line("error")))
              /\ faults' = faults - 1
              /\ UNCHANGED <<sent, misread>>

(* The connection ends, early or with a read error.                         *)
Cut == /\ Reading /\ faults > 0
       /\ Handle(ReadEnd)
       /\ faults' = faults - 1
       /\ UNCHANGED <<sent, misread>>

(* The next of the adapter's yields goes to the consumer, through the       *)
(* wrapper if there is one, which ends the stream at the first error.       *)
Passing == phase \in {"reading", "ending"} /\ out = <<>>

Pass == /\ Passing /\ queue # <<>>
        /\ LET ev == Head(queue)
               b  == IF wrapped THEN Bracketed(open, ev)
                     ELSE [open |-> open, out |-> <<ev>>, ends |-> FALSE]
           IN /\ out' = b.out
              /\ open' = b.open
              /\ queue' = IF b.ends THEN <<>> ELSE Tail(queue)
              /\ phase' = IF b.ends THEN "closed" ELSE phase
        /\ UNCHANGED <<setting, sent, faults, adapter, consumer, misread>>

(* The adapter is done: the wrapper closes what is still open.              *)
Finish == /\ Passing /\ phase = "ending" /\ queue = <<>>
          /\ phase' = "closed"
          /\ out' = IF wrapped THEN CloseBlock(open) ELSE <<>>
          /\ open' = "none"
          /\ UNCHANGED <<setting, sent, faults, adapter, queue, consumer, misread>>

(* The consumer takes one event and folds it; Leave is its break.           *)
Take == /\ out # <<>> /\ phase # "left"
        /\ LET ev == Head(out)
           IN /\ acc' = Add(acc, ev)
              /\ nesting' = Nest(nesting, ev)
              /\ last' = ev.type
              /\ broke' = (broke \/ IsFailure(ev))
        /\ out' = Tail(out)
        /\ UNCHANGED <<setting, sent, faults, adapter, open, queue, phase, misread>>

Leave == /\ last # "none" /\ phase \in {"reading", "ending", "closed"}
         /\ phase' = "left"
         /\ queue' = <<>> /\ out' = <<>>
         /\ UNCHANGED <<setting, sent, faults, adapter, open, consumer, misread>>

Next == \/ Refused \/ Accepted \/ Garbled \/ ErrorEvent \/ Cut
        \/ Pass \/ Finish \/ Take \/ Leave
        \/ (\E g \in Groups : Receive(g))
        \/ (\E g \in Groups : LeaveOut(g))

Spec == Init /\ [][Next]_vars

-----------------------------------------------------------------------------
Over == phase = "closed" /\ out = <<>>

WithoutBreaks(text) == SelectSeq(text, LAMBDA f : f # LineBreak)

(* Parallel calls are emitted by the Responses adapter as they finish.      *)
SameCalls(streamed, whole) ==
    IF provider = "responses" THEN Range(streamed) = Range(whole) /\ Len(streamed) = Len(whole)
    ELSE streamed = whole

(* A turn that ends well when streamed folds into the response Complete     *)
(* gives for the same reply: the same text, reasoning, calls in order,      *)
(* stop reason and parts, whichever optional lines were missing and         *)
(* however the deltas of parallel calls were interleaved                    *)
(* (streamblocks.go:22, responses.go:380). Only the line breaks the         *)
(* Responses adapter puts between blocks are Complete's own, and that       *)
(* adapter emits parallel calls in the order they are finished.             *)
StreamedAsCompleted ==
    (Over /\ ~ broke) =>
        LET folded == FoldedResponse(acc) IN
        /\ acc.done
        /\ folded.text = WithoutBreaks(Completed.text)
        /\ folded.thinking = WithoutBreaks(Completed.thinking)
        /\ SameCalls(folded.calls, Completed.calls)
        /\ folded.stop = Completed.stop
        /\ folded.parts = Completed.parts

(* A turn the provider did not end is never taken for a whole one: the      *)
(* terminal event is yielded only after every block was sent, and a stream  *)
(* that closes without it has yielded an error (anthropic.go:1101).         *)
TruncationIsAnError ==
    /\ acc.done => \A i \in DOMAIN reply.kinds : Sent(i)
    /\ Over => (acc.done \/ broke) /\ Collected(acc, broke) # "incomplete"

(* One call's arguments never end up in another's, nor out of order, even   *)
(* in a turn that breaks (openaicompat.go:667, responses.go:187).           *)
ArgsNeverSpliced ==
    \A i \in DOMAIN acc.calls :
        LET c == acc.calls[i]
            own == WholeArgs(IF provider = "gemini" THEN c.id[3] ELSE c.id)
        IN c.input.raw = SubSeq(own, 1, Len(c.input.raw))

(* What is buffered for the calls that are not emitted yet.                 *)
Buffered ==
    CASE provider = "openai"    -> Cardinality(Fragments(adapter.calls, Unemitted(adapter.calls)))
      [] provider = "responses" -> Cardinality(Fragments(adapter.buffers, DOMAIN adapter.buffers))
      [] provider = "anthropic" -> Len(adapter.buf)
      [] OTHER -> 0

(* What is buffered for unfinished calls is counted exactly and stays       *)
(* within the bound, however many calls are in flight: a count that drifted *)
(* would fail a legal stream or let the buffers grow.                       *)
BuffersBounded ==
    /\ Buffered <= adapter.limit
    /\ provider \in {"openai", "responses"} => adapter.pending = Buffered

(* Every boundary opened is closed again, deltas are inside their own       *)
(* block, and nothing is yielded after the event that ended the stream      *)
(* (streamevents.go:50).                                                    *)
BoundariesNest ==
    wrapped => /\ nesting # "broken"
               /\ Over => nesting = "ended"

(* The turn broke after the adapter had read Anthropic's message_start.     *)
BrokeOnceReported == Over /\ broke /\ provider = "anthropic" /\ adapter.started

(* A turn that breaks after message_start still folds into the usage        *)
(* reported so far, the text and reasoning streamed and no call that was    *)
(* not complete, whatever broke it: an error event, too large an input, the *)
(* connection, so that its cost can be recorded (anthropic.go:827,          *)
(* streamfold.go:83). Excepted is a garbled line that ends the stream for   *)
(* its consumer: the adapter yields a bare error for it (anthropic.go:928), *)
(* and who stops there has no usage; who reads on does have it in the end.  *)
BrokenTurnKeepsItsCost ==
    (BrokeOnceReported /\ (wrapped => ~ misread)) =>
        LET folded == FoldedResponse(acc) IN
        /\ folded.usage
        /\ folded.text = acc.text
        /\ folded.thinking = acc.thinking
        /\ folded.calls = acc.calls
=============================================================================
