---------------------------- MODULE GeminiStream ----------------------------
(* The Gemini adapter's reading of a reply. Calls arrive whole and without  *)
(* ids: the adapter numbers them within the turn, and infers the tool_use   *)
(* stop reason, which Gemini does not have, from their presence.            *)
EXTENDS NeutralStream

GeminiStart(limit) == [limit |-> limit, next |-> 0, usage |-> FALSE]

(* makeToolCallID.                                                          *)
SyntheticID(index, name) == <<"call", index, name>>

GeminiCall(index, name) == [id |-> SyntheticID(index, name), input |-> WholeInput(name)]

GeminiEvent(p, index) ==
    CASE p.kind = "text"     -> Content(p.frag)
      [] p.kind = "thinking" -> Thinking(p.frag)
      [] OTHER               -> ToolUse(GeminiCall(index, p.id))

CallsAmong(parts, n) == Cardinality({k \in 1..n : parts[k].kind = "tool"})

(* Only a normal end is reclassified: a truncated turn is no tool call.     *)
Inferred(finish, calls) == IF finish = "end" /\ calls > 0 THEN "tool" ELSE finish

(* A chunk: usage, then its parts up to the first call whose arguments are  *)
(* too long, which ends the stream, then the finish reason.                 *)
OnGeminiChunk(s, l) ==
    LET tooLong(k) == l.parts[k].kind = "tool" /\ ArgsFragments > s.limit
        read == Cardinality({k \in DOMAIN l.parts : \A j \in 1..k : ~ tooLong(j)})
        out  == [k \in 1..read |-> GeminiEvent(l.parts[k], s.next + CallsAmong(l.parts, k - 1))]
        st   == [s EXCEPT !.usage = @ \/ l.usage, !.next = @ + CallsAmong(l.parts, read)]
    IN IF read < Len(l.parts) THEN Stops(st, Append(out, BareError))
       ELSE IF l.finish = "none" THEN Goes(st, out)
       ELSE Stops(st, Append(out, Done(Inferred(l.finish, st.next), st.usage, <<>>)))

GeminiLine(s, l) ==
    CASE l.type = "chunk"   -> OnGeminiChunk(s, l)
      [] l.type = "garbled" -> Goes(s, <<BareError>>)

(* Faulty: the end of the stream is taken for the end of the turn.          *)
GeminiEndQuietly(s) == Stops(s, <<>>)

GeminiEnd(s) == Stops(s, <<BareError>>)

-----------------------------------------------------------------------------
(* parseResponse.                                                           *)
GeminiResponse(blocks, finish) ==
    LET of(kind) == SelectSeq(blocks, LAMBDA b : b.kind = kind)
        frags(kind) == FlattenSeq([i \in DOMAIN of(kind) |-> of(kind)[i].frags])
    IN [text |-> frags("text"), thinking |-> frags("thinking"),
        calls |-> [i \in DOMAIN of("tool") |-> GeminiCall(i - 1, of("tool")[i].id)],
        stop |-> Inferred(finish, Len(of("tool"))), usage |-> TRUE, parts |-> <<>>]
=============================================================================
