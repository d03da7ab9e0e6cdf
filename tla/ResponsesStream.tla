--------------------------- MODULE ResponsesStream ---------------------------
(* The Responses adapter's reading of a reply. Arguments are buffered per   *)
(* output item, which the deltas name by its id or by its output index; the *)
(* done event of an item emits the call.                                    *)
EXTENDS NeutralStream

(* buffers: the calls met so far; keyed: the buffer behind each key, where  *)
(* an item's id and its output index are keys of one buffer once the item   *)
(* has been announced.                                                      *)
ResponsesStart(limit) ==
    [limit |-> limit, buffers |-> <<>>, keyed |-> [k \in {} |-> 0], pending |-> 0, anyCall |-> FALSE]

IndexKey(l) == <<"#", l.index>>
KeyOf(l)    == IF l.item # "none" THEN <<"item", l.item>> ELSE IndexKey(l)

WithKey(keyed, key, b) ==
    [k \in DOMAIN keyed \cup {key} |-> IF k = key THEN b ELSE keyed[k]]

(* pendingFor: the buffer of the item a line names, made when missing.      *)
WithBuffer(s, l) ==
    IF KeyOf(l) \in DOMAIN s.keyed THEN s
    ELSE [s EXCEPT !.buffers = Append(@, [id |-> "none", args |-> <<>>]),
                   !.keyed = WithKey(@, KeyOf(l), Len(s.buffers) + 1)]

OnItemAdded(s, l) ==
    LET w == WithBuffer(s, l)
        b == w.keyed[KeyOf(l)]
    IN Goes([w EXCEPT !.buffers[b].id = l.id, !.keyed = WithKey(@, IndexKey(l), b)], <<>>)

OnArgsDelta(s, l) ==
    LET w == WithBuffer(s, l)
        b == w.keyed[KeyOf(l)]
    IN IF w.pending + 1 > s.limit THEN Stops(w, <<BareError>>)
       ELSE Goes([w EXCEPT !.buffers[b].args = Append(@, l.frag), !.pending = @ + 1], <<>>)

(* The done event's own values come first, the buffered ones stand in. The  *)
(* buffer is given back under both of its keys.                             *)
OnArgsDone(s, l) ==
    LET w    == WithBuffer(s, l)
        b    == w.buffers[w.keyed[KeyOf(l)]]
        args == IF l.args # <<>> THEN l.args ELSE b.args
        id   == IF l.id # "none" THEN l.id ELSE b.id
        kept == DOMAIN w.keyed \ {KeyOf(l), IndexKey(l)}
    IN Goes([w EXCEPT !.pending = @ - Len(b.args), !.anyCall = TRUE,
                      !.buffers[w.keyed[KeyOf(l)]].args = <<>>,
                      !.keyed = [k \in kept |-> @[k]]],
            <<ToolUse(ToolCall(id, args))>>)

(* A call anywhere in the turn makes its stop reason tool_use.              *)
StopReason(status, anyCall) ==
    IF anyCall THEN "tool"
    ELSE CASE status = "completed"  -> "end"
           [] status = "incomplete" -> "max"
           [] OTHER                 -> "error"

ResponsesLine(s, l) ==
    CASE l.type = "text_delta"      -> Goes(s, <<Content(l.frag)>>)
      [] l.type = "reasoning_delta" -> Goes(s, <<Thinking(l.frag)>>)
      [] l.type = "item_added"      -> OnItemAdded(s, l)
      [] l.type = "args_delta"      -> OnArgsDelta(s, l)
      [] l.type = "args_done"       -> OnArgsDone(s, l)
      [] l.type = "terminal"        ->
           Stops(s, <<Done(StopReason(l.status, s.anyCall), TRUE, <<>>)>>)
      [] l.type = "error"           -> Stops(s, <<BareError>>)
      [] l.type = "garbled"         -> Goes(s, <<BareError>>)

ResponsesEnd(s) == Stops(s, <<BareError>>)

-----------------------------------------------------------------------------
(* parseResponse: texts of different blocks are joined by a line break.     *)
LineBreak == <<"line_break", 0>>

Lines(blocks, kind) ==
    LET of == SelectSeq(blocks, LAMBDA b : b.kind = kind)
        Line(i) == IF i = 1 THEN of[i].frags ELSE <<LineBreak>> \o of[i].frags
    IN FlattenSeq([i \in DOMAIN of |-> Line(i)])

ResponsesResponse(blocks, status) ==
    LET tools == SelectSeq(blocks, LAMBDA b : b.kind = "tool")
    IN [text |-> Lines(blocks, "text"), thinking |-> Lines(blocks, "thinking"),
        calls |-> [i \in DOMAIN tools |-> ToolCall(tools[i].id, WholeArgs(tools[i].id))],
        stop |-> StopReason(status, tools # <<>>), usage |-> TRUE, parts |-> <<>>]
=============================================================================
