---------------------------- MODULE NeutralStream ----------------------------
(* The provider-neutral stream: the events an adapter yields, the wrapper   *)
(* that brackets them (StreamWithBoundaries) and the fold that turns them   *)
(* back into a Response (StreamAccumulator, SetParts).                      *)
(*                                                                          *)
(* A text is the sequence of the fragments it was streamed in; a tool       *)
(* call's arguments are the sequence of their fragments <<call, k>>, and    *)
(* they parse as JSON exactly when they are one call's fragments, whole and *)
(* in order (ArgsFragments of them).                                        *)
EXTENDS Integers, Sequences, SequencesExt

CONSTANT ArgsFragments      \* in how many fragments a call's arguments come

ASSUME ArgsFragmentsAssumption == ArgsFragments \in Nat

WholeArgs(call) == [k \in 1..ArgsFragments |-> <<call, k>>]

ParsesAsJSON(raw) == raw # <<>> /\ raw = WholeArgs(raw[1][1])

(* A call's Input: the parsed value, else the raw text.                     *)
ToolInput(raw) == [json |-> ParsesAsJSON(raw), raw |-> raw]

(* The input of a call that arrives whole in a response body, where a call  *)
(* without arguments has the empty object.                                  *)
WholeInput(id) == [json |-> TRUE, raw |-> WholeArgs(id)]
NoInput        == [json |-> TRUE, raw |-> <<>>]

ToolCall(id, raw) == [id |-> id, input |-> ToolInput(raw)]

(* The argument fragments buffered for the calls at the positions live.     *)
Fragments(calls, live) == UNION {{p} \X DOMAIN calls[p].args : p \in live}

(* What an adapter yields. A bare error comes with an empty event; an       *)
(* "error" event comes with an error and what was assembled before it.      *)
Content(f)        == [type |-> "content", frag |-> f]
Thinking(f)       == [type |-> "thinking", frag |-> f]
ToolUse(call)     == [type |-> "tool_use", call |-> call]
ServerTool(part)  == [type |-> "server_tool", part |-> part]
Done(stop, usage, parts) ==
    [type |-> "done", stop |-> stop, usage |-> usage, parts |-> parts]
ErrorWith(usage, parts) == [type |-> "error", usage |-> usage, parts |-> parts]
BareError         == [type |-> "bare_error"]
Boundary(t)       == [type |-> t]

(* What an adapter makes of a line: its state afterwards, what it yields,   *)
(* and whether it stops reading.                                            *)
Goes(s, out)  == [st |-> s, out |-> out, halt |-> FALSE]
Stops(s, out) == [st |-> s, out |-> out, halt |-> TRUE]

IsFailure(ev) == ev.type \in {"error", "bare_error"}

-----------------------------------------------------------------------------
(* StreamWithBoundaries: open is the delta block being bracketed. The       *)
(* result is what the consumer is yielded for one event, in order.          *)
CloseBlock(open) ==
    CASE open = "content"  -> <<Boundary("text_end")>>
      [] open = "thinking" -> <<Boundary("thinking_end")>>
      [] OTHER             -> <<>>

StartOf(type) == Boundary(IF type = "content" THEN "text_start" ELSE "thinking_start")

(* Faulty: an error is passed on with the block before it still open.       *)
BracketedUpToError(open, ev) ==
    IF IsFailure(ev) THEN [open |-> "none", out |-> <<ev>>, ends |-> TRUE]
    ELSE [open |-> ev.type, out |-> IF open = ev.type THEN <<ev>>
                                    ELSE CloseBlock(open) \o <<StartOf(ev.type), ev>>, ends |-> FALSE]

Bracketed(open, ev) ==
    CASE IsFailure(ev) ->
           [open |-> "none", out |-> Append(CloseBlock(open), ev), ends |-> TRUE]
      [] ev.type \in {"content", "thinking"} ->
           [open |-> ev.type, ends |-> FALSE,
            out  |-> IF open = ev.type THEN <<ev>>
                     ELSE CloseBlock(open) \o <<StartOf(ev.type), ev>>]
      [] ev.type = "tool_use" ->
           [open |-> "none", ends |-> FALSE,
            out  |-> CloseBlock(open) \o <<Boundary("tool_start"), ev, Boundary("tool_end")>>]
      [] ev.type = "done" ->
           [open |-> "none", out |-> Append(CloseBlock(open), ev), ends |-> FALSE]
      [] OTHER -> [open |-> open, out |-> <<ev>>, ends |-> FALSE]

-----------------------------------------------------------------------------
(* StreamAccumulator.                                                       *)
EmptyFold ==
    [text |-> <<>>, thinking |-> <<>>, calls |-> <<>>,
     final |-> [stop |-> "none", usage |-> FALSE, parts |-> <<>>], done |-> FALSE]

Add(acc, ev) ==
    CASE ev.type = "content"  -> [acc EXCEPT !.text = Append(@, ev.frag)]
      [] ev.type = "thinking" -> [acc EXCEPT !.thinking = Append(@, ev.frag)]
      [] ev.type = "tool_use" -> [acc EXCEPT !.calls = Append(@, ev.call)]
      [] ev.type = "done"     -> [acc EXCEPT !.done = TRUE,
                                  !.final = [stop |-> ev.stop, usage |-> ev.usage, parts |-> ev.parts]]
      [] ev.type = "error"    -> [acc EXCEPT
                                  !.final = [stop |-> "none", usage |-> ev.usage, parts |-> ev.parts]]
      [] OTHER -> acc

OfKind(parts, kind) == SelectSeq(parts, LAMBDA p : p.kind = kind)

(* SetParts: the flat view of a turn is derived from its parts.             *)
SetParts(parts) ==
    LET texts    == OfKind(parts, "text")
        thoughts == OfKind(parts, "thinking")
        tools    == OfKind(parts, "tool")
    IN [text     |-> FlattenSeq([i \in DOMAIN texts |-> texts[i].frags]),
        thinking |-> FlattenSeq([i \in DOMAIN thoughts |-> thoughts[i].frags]),
        calls    |-> [i \in DOMAIN tools |-> tools[i].call]]

(* The Response of a fold, partial until done: from the assembled parts     *)
(* when the terminal event carries them, else from the deltas.              *)
FoldedResponse(acc) ==
    LET flat == IF acc.final.parts # <<>> THEN SetParts(acc.final.parts)
                ELSE [text |-> acc.text, thinking |-> acc.thinking, calls |-> acc.calls]
    IN [text |-> flat.text, thinking |-> flat.thinking, calls |-> flat.calls,
        stop |-> acc.final.stop, usage |-> acc.final.usage, parts |-> acc.final.parts]

(* CollectStream's verdict at the end of the stream.                        *)
Collected(acc, failed) ==
    IF failed THEN "error" ELSE IF acc.done THEN "ok" ELSE "incomplete"
=============================================================================
