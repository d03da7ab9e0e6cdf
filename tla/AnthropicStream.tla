--------------------------- MODULE AnthropicStream ---------------------------
(* The Anthropic adapter's reading of a reply: parseStream with its block   *)
(* assembler (streamBlocks), one operator per server-sent event, and        *)
(* parseResponse for the reply that comes whole.                            *)
(*                                                                          *)
(* A handler returns the parser's state after a line, what it yields, in    *)
(* order, and whether it stops reading.                                     *)
EXTENDS NeutralStream

NoIndex == 0

(* call, callIndex and buf: the client tool call whose arguments are coming *)
(* in. blocks: streamBlocks, in the order the blocks were first seen.       *)
AnthropicStart(limit) ==
    [limit |-> limit, started |-> FALSE, usage |-> FALSE, call |-> "none", callIndex |-> NoIndex,
     buf |-> <<>>, blocks |-> <<>>]

Block(index, kind, id) ==
    [index |-> index, kind |-> kind, id |-> id, frags |-> <<>>,
     complete |-> FALSE, open |-> FALSE, input |-> NoInput]

Position(blocks, index) == {i \in DOMAIN blocks : blocks[i].index = index}

(* streamBlocks.get: a delta without its block's start makes the block.     *)
WithBlock(blocks, index, kind) ==
    IF Position(blocks, index) # {} THEN blocks
    ELSE Append(blocks, Block(index, kind, "none"))

Updated(blocks, index, f(_)) ==
    [i \in DOMAIN blocks |-> IF blocks[i].index = index THEN f(blocks[i]) ELSE blocks[i]]

AppendTo(blocks, index, kind, frag) ==
    Updated(WithBlock(blocks, index, kind), index,
            LAMBDA b : [b EXCEPT !.frags = Append(@, frag)])

OpenServerCall(blocks) == {i \in DOMAIN blocks : blocks[i].open}

-----------------------------------------------------------------------------
(* Parts: the neutral form of one block, and of the assembled turn.         *)
ServerCallPart(id, input) == [kind |-> "server", id |-> id, input |-> input]

(* finishServerToolUse: streamed input that does not parse leaves the input *)
(* of the block's start event.                                              *)
FinishedServerCall(b) ==
    [b EXCEPT !.open = FALSE, !.complete = TRUE,
     !.input = IF ParsesAsJSON(b.frags) THEN ToolInput(b.frags) ELSE NoInput]

PartOf(b) ==
    LET f == IF b.open THEN FinishedServerCall(b) ELSE b IN
    CASE f.kind = "tool"   -> [kind |-> "tool", call |-> [id |-> f.id, input |-> f.input]]
      [] f.kind = "server" -> ServerCallPart(f.id, f.input)
      [] f.kind = "result" -> [kind |-> "result", id |-> f.id]
      [] OTHER             -> [kind |-> f.kind, frags |-> f.frags]

(* Faulty: calls whose arguments are still coming in are shown, too.        *)
PartsOfAllBlocks(blocks) == [i \in DOMAIN blocks |-> PartOf(blocks[i])]

(* streamBlocks.parts: a client tool call that was never completed is left  *)
(* out, a text is as long as it got.                                        *)
Parts(blocks) ==
    LET shown == SelectSeq(blocks, LAMBDA b : b.complete \/ b.open \/ b.kind \in {"text", "thinking"})
    IN [i \in DOMAIN shown |-> PartOf(shown[i])]

-----------------------------------------------------------------------------
(* Faulty: the error alone, as before message_start.                        *)
FailBare(s) == Stops(s, <<BareError>>)

(* fail: after message_start the error carries the usage and the content    *)
(* assembled so far.                                                        *)
Fail(s) == Stops(s, <<IF s.started THEN ErrorWith(s.usage, Parts(s.blocks)) ELSE BareError>>)

(* flushToolCall: completes and emits the tool call being read, if any.     *)
FlushToolCall(s) ==
    IF s.call = "none" THEN Goes(s, <<>>)
    ELSE LET call == ToolCall(s.call, s.buf)
             done(b) == [b EXCEPT !.kind = "tool", !.id = s.call, !.complete = TRUE, !.input = call.input]
         IN Goes([s EXCEPT !.call = "none", !.callIndex = NoIndex, !.buf = <<>>,
                           !.blocks = Updated(WithBlock(@, s.callIndex, "tool"), s.callIndex, done)],
                 <<ToolUse(call)>>)

(* flushServerToolUse of the blocks at the given positions (at most one).   *)
FlushServerToolUse(s, at) ==
    LET open == {i \in at : s.blocks[i].open}
    IN IF open = {} THEN Goes(s, <<>>)
       ELSE LET i == CHOOSE i \in open : \A j \in open : i <= j
                b == FinishedServerCall(s.blocks[i])
            IN Goes([s EXCEPT !.blocks[i] = b], <<ServerTool(PartOf(b))>>)

FlushBoth(s, at) ==
    LET tool   == FlushToolCall(s)
        server == FlushServerToolUse(tool.st, at)
    IN Goes(server.st, tool.out \o server.out)

(* message_start: the input counts are reported here.                       *)
OnMessageStart(s) == Goes([s EXCEPT !.started = TRUE, !.usage = TRUE], <<>>)

(* content_block_start: what is still open is flushed first, a server       *)
(* tool's result arrives whole and is emitted at once.                      *)
OnBlockStart(s, index, kind, id) ==
    LET flushed == FlushBoth(s, OpenServerCall(s.blocks))
        fresh(b) == [Block(index, kind, id) EXCEPT !.open = (kind = "server"),
                                                   !.complete = (kind = "result")]
        st == [flushed.st EXCEPT !.blocks = Updated(WithBlock(@, index, kind), index, fresh)]
    IN Goes(IF kind = "tool" THEN [st EXCEPT !.call = id, !.callIndex = index, !.buf = <<>>] ELSE st,
            IF kind = "result" THEN Append(flushed.out, ServerTool([kind |-> "result", id |-> id]))
            ELSE flushed.out)

(* content_block_delta.                                                     *)
OnTextDelta(s, index, f) ==
    Goes([s EXCEPT !.blocks = AppendTo(@, index, "text", f)], <<Content(f)>>)

OnThinkingDelta(s, index, f) ==
    Goes([s EXCEPT !.blocks = AppendTo(@, index, "thinking", f)], <<Thinking(f)>>)

OnInputDelta(s, index, f) ==
    LET at == {i \in Position(s.blocks, index) : s.blocks[i].open} IN
    IF at # {}
    THEN IF \E i \in at : Len(s.blocks[i].frags) + 1 > s.limit THEN Fail(s)
         ELSE Goes([s EXCEPT !.blocks = AppendTo(@, index, "server", f)], <<>>)
    ELSE IF Len(s.buf) + 1 > s.limit THEN Fail(s)
         ELSE Goes([s EXCEPT !.buf = Append(@, f)], <<>>)

OnBlockStop(s, index) == FlushBoth(s, Position(s.blocks, index))

(* Faulty: a call still open at the end of the turn is forgotten.           *)
OnMessageDeltaUnflushed(s, stop) ==
    Stops(s, <<Done(stop, s.usage, Parts(s.blocks))>>)

(* message_delta: the terminal event.                                       *)
OnMessageDelta(s, stop) ==
    LET flushed == FlushBoth(s, OpenServerCall(s.blocks))
    IN Stops(flushed.st, Append(flushed.out, Done(stop, s.usage, Parts(flushed.st.blocks))))

(* A line of the stream, and its end: with neither message_delta nor error  *)
(* the turn was cut off.                                                    *)
AnthropicLine(s, l) ==
    CASE l.type = "message_start" -> OnMessageStart(s)
      [] l.type = "block_start"   -> OnBlockStart(s, l.index, l.kind, l.id)
      [] l.type = "text_delta"    -> OnTextDelta(s, l.index, l.frag)
      [] l.type = "thinking_delta" -> OnThinkingDelta(s, l.index, l.frag)
      [] l.type = "input_delta"   -> OnInputDelta(s, l.index, l.frag)
      [] l.type = "block_stop"    -> OnBlockStop(s, l.index)
      [] l.type = "message_delta" -> OnMessageDelta(s, l.stop)
      [] l.type = "error"         -> Fail(s)
      [] l.type = "garbled"       -> Goes(s, <<BareError>>)

AnthropicEnd(s) == Fail(s)

-----------------------------------------------------------------------------
(* parseResponse and blockPart: the reply that comes whole.                 *)
WholePart(b) ==
    CASE b.kind = "tool"   -> [kind |-> "tool", call |-> [id |-> b.id, input |-> WholeInput(b.id)]]
      [] b.kind = "server" -> ServerCallPart(b.id, WholeInput(b.id))
      [] b.kind = "result" -> [kind |-> "result", id |-> b.id]
      [] OTHER             -> [kind |-> b.kind, frags |-> b.frags]

AnthropicResponse(blocks, stop) ==
    LET parts == [i \in DOMAIN blocks |-> WholePart(blocks[i])]
        flat  == SetParts(parts)
    IN [text |-> flat.text, thinking |-> flat.thinking, calls |-> flat.calls,
        stop |-> stop, usage |-> TRUE, parts |-> parts]
=============================================================================
