------------------------------- MODULE Handoff -------------------------------
(* A neutral conversation and what is done to it before each request        *)
(* (normalize.go): the transcript, whichever providers wrote it, becomes    *)
(* one that can be replayed to the model at hand. Nothing here changes the  *)
(* stored transcript.                                                       *)
(*                                                                          *)
(* A tool call's id is what its provider gave it (base) and the "#n" that   *)
(* were appended to it since (copies). Three fields are ghosts, which no    *)
(* code looks at: by, the provider that wrote a part; ref, the number of    *)
(* the call a part belongs to; and given, whether a result is a real one.   *)
EXTENDS Naturals, Sequences
LOCAL INSTANCE SequencesExt
LOCAL INSTANCE FiniteSetsExt
LOCAL INSTANCE TLC

NoProvider == "none"
NoText     == <<>>

ID(base) == [base |-> base, copies |-> <<>>]
NoID     == ID(<<>>)

TextPart(by, t, cited) == [kind |-> "text", by |-> by, text |-> t, cited |-> cited]
ThinkingPart(by, t, signed, redacted) ==
    [kind |-> "thinking", by |-> by, text |-> t, signed |-> signed, redacted |-> redacted]
ToolPart(by, id, name, signed, ref) ==
    [kind |-> "tool", by |-> by, id |-> id, name |-> name, signed |-> signed, ref |-> ref]
ServerPart(by)         == [kind |-> "server", by |-> by]
ResultPart(id, ref, given) == [kind |-> "result", id |-> id, ref |-> ref, given |-> given]
ImagePart              == [kind |-> "image"]
DocumentPart(plain)    == [kind |-> "document", plain |-> plain]

(* A model's id is its line and, when it is named more specifically, its    *)
(* snapshot.                                                                *)
NoModel    == [line |-> "none", snapshot |-> "none"]
UserMessage(parts) ==
    [role |-> "user", provider |-> NoProvider, model |-> NoModel, stop |-> "none", parts |-> parts]

-----------------------------------------------------------------------------
SameModel(a, b) ==
    a.line = b.line /\ (a.snapshot = b.snapshot \/ "none" \in {a.snapshot, b.snapshot})

IsIncompleteTurn(stop) == stop \in {"error", "aborted"}

ForeignProvider(from, to) == from # NoProvider /\ from # to

(* The first "<id>#<n>" not in use.                                         *)
UniqueToolID(id, used) ==
    LET Copy(n) == [id EXCEPT !.copies = Append(@, n)]
        free == {n \in 1..(Cardinality(used) + 1) : Copy(n) \notin used}
    IN Copy(Min(free))

(* Faulty: the results go on naming the id the call had.                    *)
RewrittenToolUnmapped(s, foreign, p) ==
    LET id == IF p.id \in s.used THEN UniqueToolID(p.id, s.used) ELSE p.id
    IN [s EXCEPT !.used = @ \union {id}, !.remap = (p.id :> p.id) @@ @,
                 !.parts = Append(@, [p EXCEPT !.id = id, !.signed = @ /\ ~ foreign])]

(* s: the ids in use, what each original id became last, and the parts      *)
(* kept so far of the message being rewritten.                              *)
RewrittenTool(s, foreign, p) ==
    LET id == IF p.id \in s.used THEN UniqueToolID(p.id, s.used) ELSE p.id
    IN [s EXCEPT !.used = @ \union {id}, !.remap = (p.id :> id) @@ @,
                 !.parts = Append(@, [p EXCEPT !.id = id, !.signed = @ /\ ~ foreign])]

(* Faulty: the model that thought is not looked at, only its provider.      *)
ReplayedThinkingOfProvider(m, provider, model, p) ==
    IF m.provider # NoProvider /\ m.provider = provider /\ (p.redacted \/ p.signed) THEN <<p>>
    ELSE IF p.text # NoText /\ ~ p.redacted THEN <<TextPart(p.by, p.text, FALSE)>>
    ELSE <<>>

(* Faulty: a block without text is dropped although it is signed.           *)
ReplayedThinkingWithText(m, provider, model, p) ==
    IF p.text = NoText THEN <<>>
    ELSE IF model # NoModel /\ m.model # NoModel /\ ~ SameModel(m.model, model) THEN <<>>
    ELSE IF m.provider = provider /\ (p.redacted \/ p.signed) THEN <<p>>
    ELSE IF p.redacted THEN <<>> ELSE <<TextPart(p.by, p.text, FALSE)>>

(* Thinking goes back as it came only to the provider whose signature it    *)
(* carries; elsewhere its text is kept as text, and another model's is      *)
(* dropped.                                                                 *)
ReplayedThinking(m, provider, model, p) ==
    IF model # NoModel /\ m.model # NoModel /\ ~ SameModel(m.model, model) THEN <<>>
    ELSE IF m.provider # NoProvider /\ m.provider = provider /\ (p.redacted \/ p.signed) THEN <<p>>
    ELSE IF p.text # NoText /\ ~ p.redacted THEN <<TextPart(p.by, p.text, FALSE)>>
    ELSE <<>>

(* One part. A call without an id is left as it is and has no results.      *)
RewritePart(s, m, provider, model, p) ==
    LET foreign == ForeignProvider(m.provider, provider)
        Keep(ps) == [s EXCEPT !.parts = @ \o ps]
    IN CASE p.kind = "tool" /\ p.id = NoID -> Keep(<<p>>)
         [] p.kind = "tool" /\ p.id # NoID -> RewrittenTool(s, m.provider # provider, p)
         [] p.kind = "result"   -> IF p.id \in DOMAIN s.remap THEN Keep(<<[p EXCEPT !.id = s.remap[@]]>>) ELSE s
         [] p.kind = "thinking" -> Keep(ReplayedThinking(m, provider, model, p))
         [] p.kind = "server"   -> Keep(IF foreign THEN <<>> ELSE <<p>>)
         [] p.kind = "text"     -> Keep(<<[p EXCEPT !.cited = @ /\ ~ foreign]>>)
         [] OTHER               -> Keep(<<p>>)

(* The forward pass. Incomplete turns and emptied messages are dropped.     *)
Rewritten(msgs, provider, model) ==
    LET Message(s, m) ==
            IF m.role = "assistant" /\ IsIncompleteTurn(m.stop) THEN s
            ELSE LET r == FoldLeft(LAMBDA t, p : RewritePart(t, m, provider, model, p),
                                   [s EXCEPT !.parts = <<>>], m.parts)
                 IN IF r.parts = <<>> THEN r
                    ELSE [r EXCEPT !.out = Append(@, [m EXCEPT !.parts = r.parts])]
    IN FoldLeft(Message, [used |-> {}, remap |-> <<>>, parts |-> <<>>, out |-> <<>>], msgs).out

PartsOfKind(msgs, kind) ==
    SelectSeq(FlattenSeq([i \in DOMAIN msgs |-> msgs[i].parts]), LAMBDA p : p.kind = kind)

(* The repair of orphaned calls: an error result right after the turn of    *)
(* every call with an id that no result of the transcript answers.          *)
Repaired(msgs) ==
    LET results  == PartsOfKind(msgs, "result")
        answered == {results[i].id : i \in DOMAIN results}
        Answer(p) == UserMessage(<<ResultPart(p.id, p.ref, FALSE)>>)
        Orphans(m) == IF m.role # "assistant" THEN <<>>
                      ELSE SelectSeq(m.parts, LAMBDA p : p.kind = "tool" /\ p.id \notin answered \union {NoID})
        After(m) == [i \in DOMAIN Orphans(m) |-> Answer(Orphans(m)[i])]
    IN FlattenSeq([i \in DOMAIN msgs |-> <<msgs[i]>> \o After(msgs[i])])

NormalizeForModel(msgs, provider, model) == Repaired(Rewritten(msgs, provider, model))
=============================================================================
