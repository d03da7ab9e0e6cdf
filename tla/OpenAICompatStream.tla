------------------------- MODULE OpenAICompatStream -------------------------
(* The Chat Completions adapter's reading of a reply. Tool calls are put    *)
(* together from deltas that may interleave; usage comes in a chunk of its  *)
(* own after the finish reason, so reading goes on past it.                 *)
EXTENDS NeutralStream

Unnumbered == 0 - 1         \* a delta without the index field

(* calls: the calls since the last flush, in the order they were first      *)
(* seen; an index stands for the latest call that carried it. pending: what *)
(* is buffered for all unfinished calls together.                           *)
OpenAIStart(limit) ==
    [limit |-> limit, finish |-> "none", usage |-> FALSE, calls |-> <<>>, latest |-> 0,
     pending |-> 0, sawDone |-> FALSE, anyCall |-> FALSE]

EventOf(c) == ToolUse(ToolCall(c.id, c.args))

Unemitted(calls) == {p \in DOMAIN calls : ~ calls[p].emitted}

(* Faulty: the buffer of an emitted call stays counted.                     *)
EmitCallStillCounted(s, p) ==
    IF s.calls[p].emitted THEN Goes(s, <<>>)
    ELSE Goes([s EXCEPT !.calls[p].emitted = TRUE, !.anyCall = TRUE], <<EventOf(s.calls[p])>>)

(* emitCall: a call is emitted once, and its buffer is given back.          *)
EmitCall(s, p) ==
    IF s.calls[p].emitted THEN Goes(s, <<>>)
    ELSE Goes([s EXCEPT !.calls[p].emitted = TRUE, !.anyCall = TRUE,
                        !.pending = @ - Len(s.calls[p].args)],
              <<EventOf(s.calls[p])>>)

(* The events of the unfinished calls, in first-seen order.                 *)
Unfinished(calls) ==
    LET out[n \in 0..Len(calls)] ==
          IF n = 0 THEN <<>>
          ELSE IF calls[n].emitted THEN out[n - 1]
          ELSE Append(out[n - 1], EventOf(calls[n]))
    IN out[Len(calls)]

(* emitAll: the unfinished calls are emitted, each giving back its buffer,  *)
(* and all are forgotten.                                                   *)
EmitAll(s) ==
    Goes([s EXCEPT !.calls = <<>>, !.latest = 0,
                   !.pending = @ - Cardinality(Fragments(s.calls, Unemitted(s.calls))),
                   !.anyCall = @ \/ Unemitted(s.calls) # {}],
         Unfinished(s.calls))

WithCall(s, d) ==
    [s EXCEPT !.calls = Append(@, [id |-> d.id, index |-> d.index, args |-> <<>>, emitted |-> FALSE]),
              !.latest = Len(s.calls) + 1]

CallAt(s, index) ==
    LET at == {p \in DOMAIN s.calls : s.calls[p].index = index}
    IN IF at = {} THEN 0 ELSE Max(at)

(* Faulty: only an id starts a call, everything else continues the latest.  *)
AddressedById(s, d) ==
    IF d.id # "none" /\ \A p \in DOMAIN s.calls : s.calls[p].id # d.id
    THEN Goes(WithCall(s, d), <<>>)
    ELSE Goes(s, <<>>)

(* Which call a delta belongs to: latest is that call afterwards, 0 when    *)
(* there is none to continue.                                               *)
Addressed(s, d) ==
    LET p == CallAt(s, d.index)
        reused == /\ p # 0
                  /\ d.id # "none"
                  /\ s.calls[p].id # "none"
                  /\ d.id # s.calls[p].id
    IN CASE d.index # Unnumbered /\ reused ->
              LET before == EmitCall(s, p) IN Goes(WithCall(before.st, d), before.out)
         [] d.index # Unnumbered /\ p = 0 -> Goes(WithCall(s, d), <<>>)
         [] d.index # Unnumbered /\ p # 0 /\ ~ reused -> Goes([s EXCEPT !.latest = p], <<>>)
         [] d.index = Unnumbered /\ d.id # "none" ->
              LET before == EmitAll(s) IN Goes(WithCall(before.st, d), before.out)
         [] OTHER -> Goes(s, <<>>)

OnToolDelta(s, d) ==
    LET a == Addressed(s, d)
        p == a.st.latest
        named == [a.st EXCEPT !.calls[p].id = IF @ = "none" THEN d.id ELSE @]
    IN IF p = 0 THEN a
       ELSE IF d.frag = <<>> THEN Goes(named, a.out)
       ELSE IF named.pending + Len(d.frag) > s.limit
       THEN Stops(named, Append(a.out, BareError))
       ELSE Goes([named EXCEPT !.calls[p].args = @ \o d.frag, !.pending = @ + Len(d.frag)], a.out)

(* The deltas of a chunk, one after the other until one is refused.         *)
ReadDeltas(s, said, deltas) ==
    LET read[n \in 0..Len(deltas)] ==
          IF n = 0 THEN Goes(s, said)
          ELSE IF read[n - 1].halt THEN read[n - 1]
          ELSE LET r == OnToolDelta(read[n - 1].st, deltas[n])
               IN [r EXCEPT !.out = read[n - 1].out \o @]
    IN read[Len(deltas)]

(* A chunk: usage, then reasoning, text and tool deltas, then the finish    *)
(* reason, which flushes the calls.                                         *)
OnChunk(s, l) ==
    LET said == [i \in DOMAIN l.reasoning |-> Thinking(l.reasoning[i])]
                \o [i \in DOMAIN l.text |-> Content(l.text[i])]
        read == ReadDeltas([s EXCEPT !.usage = @ \/ l.usage], said, l.calls)
        all  == EmitAll([read.st EXCEPT !.finish = l.finish])
    IN IF read.halt \/ l.finish = "none" THEN read
       ELSE Goes(all.st, read.out \o all.out)

(* After the last line: unfinished calls are flushed, [DONE] stands in for  *)
(* a missing finish reason, and without either the turn was cut off.        *)
OpenAIEnd(s) ==
    LET all == EmitAll(s)
        finish == IF s.finish # "none" THEN s.finish
                  ELSE IF ~ s.sawDone THEN "none"
                  ELSE IF all.st.anyCall THEN "tool" ELSE "end"
    IN Stops(all.st, Append(all.out, IF finish # "none" THEN Done(finish, s.usage, <<>>) ELSE BareError))

(* A line that does not parse is noise once the turn has finished.          *)
OpenAILine(s, l) ==
    CASE l.type = "chunk"   -> OnChunk(s, l)
      [] l.type = "garbled" -> Goes(s, IF s.finish # "none" THEN <<>> ELSE <<BareError>>)
      [] l.type = "[DONE]"  -> OpenAIEnd([s EXCEPT !.sawDone = TRUE])

-----------------------------------------------------------------------------
(* parseResponse: the reply that comes whole, as one message.               *)
OpenAIResponse(blocks, stop) ==
    LET of(kind) == SelectSeq(blocks, LAMBDA b : b.kind = kind)
        frags(kind) == FlattenSeq([i \in DOMAIN of(kind) |-> of(kind)[i].frags])
        tools == of("tool")
    IN [text |-> frags("text"), thinking |-> frags("thinking"),
        calls |-> [i \in DOMAIN tools |-> ToolCall(tools[i].id, WholeArgs(tools[i].id))],
        stop |-> stop, usage |-> TRUE, parts |-> <<>>]
=============================================================================
