------------------------ MODULE StreamPipelineProofs ------------------------
(* What is proved of a reply's way through an adapter, the boundary wrapper *)
(* and a consumer, for every reply, interleaving and fault of the model.    *)
EXTENDS StreamPipeline, NaturalsInduction, SequenceTheorems, FiniteSetTheorems, WellFoundedInduction, TLAPS

-----------------------------------------------------------------------------
(* Recursive functions over 0..n: induction, stated of a set of numbers.    *)
LEMMA LeastExists ==
  ASSUME NEW T \in SUBSET Nat, T # {}
  PROVE  \E t \in T : \A u \in T : t <= u
<1> DEFINE R == OpToRel(<, Nat)
<1>1. IsWellFoundedOn(R, Nat)  BY NatLessThanWellFounded
<1> HIDE DEF R
<1>2. PICK t \in T : \A u \in T : ~ (<<u, t>> \in R)  BY <1>1, WFMin
<1>3. ASSUME NEW u \in T, u < t PROVE FALSE
  <2>1. <<u, t>> \in R  BY <1>3 DEF R, OpToRel
  <2> QED BY <1>2, <2>1
<1> QED BY <1>3

LEMMA NatsByStep ==
  ASSUME NEW S \in SUBSET Nat, 0 \in S, \A n \in S : n + 1 \in S
  PROVE  S = Nat
<1>1. ASSUME Nat \ S # {} PROVE FALSE
  <2>1. PICK x \in Nat \ S : \A y \in Nat \ S : x <= y  BY <1>1, LeastExists
  <2>2. x # 0 /\ x - 1 \in Nat /\ x - 1 < x  OBVIOUS
  <2>3. x - 1 \in S  BY <2>1, <2>2
  <2>4. (x - 1) + 1 \in S  BY <2>3
  <2> QED BY <2>2, <2>4
<1> QED BY <1>1

(* The events of the unfinished calls are events of calls.                  *)
Collects(f, calls, n) ==
    f = [m \in 0..n |-> IF m = 0 THEN <<>>
                        ELSE IF calls[m].emitted THEN f[m - 1]
                        ELSE Append(f[m - 1], EventOf(calls[m]))]

LEMMA CollectsExists ==
  ASSUME NEW calls, NEW n \in Nat
  PROVE  \E f : Collects(f, calls, n)
<1> DEFINE T == {m \in Nat : \E f : Collects(f, calls, m)}
<1>1. 0 \in T
  <2>1. Collects([m \in 0..0 |-> <<>>], calls, 0)  BY DEF Collects
  <2> QED BY <2>1
<1>2. ASSUME NEW m \in T PROVE m + 1 \in T
  <2>1. PICK f : Collects(f, calls, m)  OBVIOUS
  <2> DEFINE x == IF calls[m + 1].emitted THEN f[m] ELSE Append(f[m], EventOf(calls[m + 1]))
             g == [i \in 0..(m + 1) |-> IF i = m + 1 THEN x ELSE f[i]]
  <2> HIDE DEF x
  <2>2. \A i \in 0..m : g[i] = f[i]  OBVIOUS
  <2>3. \A i \in 0..(m + 1) : g[i] = IF i = 0 THEN <<>>
                                     ELSE IF calls[i].emitted THEN g[i - 1]
                                     ELSE Append(g[i - 1], EventOf(calls[i]))
    <3> SUFFICES ASSUME NEW i \in 0..(m + 1)
                 PROVE  g[i] = IF i = 0 THEN <<>> ELSE IF calls[i].emitted THEN g[i - 1]
                               ELSE Append(g[i - 1], EventOf(calls[i]))
      OBVIOUS
    <3>1. CASE i = m + 1
      <4>1. g[i] = x /\ i - 1 = m /\ g[i - 1] = f[m] /\ i # 0  BY <3>1, <2>2
      <4> HIDE DEF g
      <4> QED BY <3>1, <4>1 DEF x
    <3>2. CASE i # m + 1
      <4>1. i \in 0..m /\ (i # 0 => i - 1 \in 0..m)  BY <3>2
      <4>2. g[i] = f[i] /\ (i # 0 => g[i - 1] = f[i - 1])  BY <2>2, <4>1
      <4> HIDE DEF g
      <4> QED BY <2>1, <4>1, <4>2 DEF Collects
    <3> QED BY <3>1, <3>2
  <2>4. DOMAIN g = 0..(m + 1) /\ g = [i \in 0..(m + 1) |-> g[i]]  OBVIOUS
  <2> HIDE DEF g
  <2>5. Collects(g, calls, m + 1)  BY <2>3, <2>4 DEF Collects
  <2> QED BY <2>5
<1>3. T \in SUBSET Nat  OBVIOUS
<1> HIDE DEF T
<1>4. T = Nat  BY <1>1, <1>2, <1>3, NatsByStep
<1> QED BY <1>4 DEF T

LEMMA UnfinishedIsSeq ==
  ASSUME NEW calls, Len(calls) \in Nat, NEW S, \A p \in 1..Len(calls) : EventOf(calls[p]) \in S
  PROVE  Unfinished(calls) \in Seq(S)
<1> DEFINE f == CHOOSE f : Collects(f, calls, Len(calls))
<1>1. Collects(f, calls, Len(calls))  BY CollectsExists
<1>2. Unfinished(calls) = f[Len(calls)]  BY DEF Unfinished, Collects
<1> HIDE DEF f
<1> DEFINE T == {m \in Nat : m <= Len(calls) => f[m] \in Seq(S)}
<1>3. 0 \in T  BY <1>1 DEF Collects
<1>4. ASSUME NEW m \in T PROVE m + 1 \in T
  <2> SUFFICES ASSUME m + 1 <= Len(calls) PROVE f[m + 1] \in Seq(S)  OBVIOUS
  <2>1. m + 1 \in 0..Len(calls) /\ m + 1 \in 1..Len(calls) /\ m + 1 # 0 /\ (m + 1) - 1 = m  OBVIOUS
  <2>2. f[m] \in Seq(S) /\ EventOf(calls[m + 1]) \in S  BY <2>1
  <2>3. f[m + 1] = IF calls[m + 1].emitted THEN f[m] ELSE Append(f[m], EventOf(calls[m + 1]))
    BY <1>1, <2>1 DEF Collects
  <2> QED BY <2>2, <2>3
<1>5. T \in SUBSET Nat  OBVIOUS
<1> HIDE DEF T
<1>6. T = Nat  BY <1>3, <1>4, <1>5, NatsByStep
<1> QED BY <1>2, <1>6 DEF T

(* The deltas of a chunk: none, or one.                                     *)
Reads(f, s, said, deltas) ==
    f = [n \in 0..Len(deltas) |->
           IF n = 0 THEN Goes(s, said)
           ELSE IF f[n - 1].halt THEN f[n - 1]
           ELSE LET r == OnToolDelta(f[n - 1].st, deltas[n]) IN [r EXCEPT !.out = f[n - 1].out \o @]]

LEMMA ReadsIsReadDeltas ==
  ASSUME NEW s, NEW said, NEW deltas
  PROVE  ReadDeltas(s, said, deltas) = (CHOOSE f : Reads(f, s, said, deltas))[Len(deltas)]
BY DEF ReadDeltas, Reads

LEMMA NoDeltas ==
  ASSUME NEW s, NEW said, NEW deltas, Len(deltas) = 0
  PROVE  ReadDeltas(s, said, deltas) = Goes(s, said)
<1> DEFINE f == CHOOSE f : Reads(f, s, said, deltas)
<1>1. Reads([n \in 0..Len(deltas) |-> Goes(s, said)], s, said, deltas)  BY DEF Reads
<1>2. Reads(f, s, said, deltas)  BY <1>1
<1>3. ReadDeltas(s, said, deltas) = f[0]  BY ReadsIsReadDeltas
<1> HIDE DEF f
<1> QED BY <1>2, <1>3 DEF Reads

LEMMA OneDelta ==
  ASSUME NEW s, NEW said, NEW deltas, Len(deltas) = 1
  PROVE  LET r == OnToolDelta(s, deltas[1])
         IN ReadDeltas(s, said, deltas) = [r EXCEPT !.out = said \o @]
<1> DEFINE f == CHOOSE f : Reads(f, s, said, deltas)
           r == OnToolDelta(s, deltas[1])
           x == [r EXCEPT !.out = said \o @]
           g == [n \in 0..1 |-> IF n = 0 THEN Goes(s, said) ELSE x]
<1> HIDE DEF r
<1>1. Goes(s, said).st = s /\ Goes(s, said).out = said /\ Goes(s, said).halt = FALSE  BY DEF Goes
<1>2. g[0] = Goes(s, said) /\ g[1] = x  OBVIOUS
<1>3. [r EXCEPT !.out = g[0].out \o @] = x /\ OnToolDelta(g[0].st, deltas[1]) = r /\ ~ g[0].halt
  BY <1>1, <1>2 DEF r
<1> HIDE DEF x
<1>4. g = [n \in 0..1 |-> IF n = 0 THEN Goes(s, said) ELSE IF g[n - 1].halt THEN g[n - 1]
             ELSE LET q == OnToolDelta(g[n - 1].st, deltas[n]) IN [q EXCEPT !.out = g[n - 1].out \o @]]
  <2>1. \A n \in 0..1 : g[n] = IF n = 0 THEN Goes(s, said) ELSE IF g[n - 1].halt THEN g[n - 1]
             ELSE LET q == OnToolDelta(g[n - 1].st, deltas[n]) IN [q EXCEPT !.out = g[n - 1].out \o @]
    <3> SUFFICES ASSUME NEW n \in 0..1, n # 0
                 PROVE  g[n] = IF g[n - 1].halt THEN g[n - 1]
                               ELSE LET q == OnToolDelta(g[n - 1].st, deltas[n]) IN [q EXCEPT !.out = g[n - 1].out \o @]
      BY <1>2
    <3>1. n = 1 /\ n - 1 = 0  OBVIOUS
    <3> HIDE DEF g
    <3> QED BY <1>2, <1>3, <3>1
  <2>2. DOMAIN g = 0..1 /\ g = [n \in 0..1 |-> g[n]]  OBVIOUS
  <2> HIDE DEF g
  <2> QED BY <2>1, <2>2
<1> HIDE DEF g
<1>5. Reads(g, s, said, deltas)  BY <1>4 DEF Reads
<1>6. Reads(f, s, said, deltas)  BY <1>5
<1>7. ReadDeltas(s, said, deltas) = f[1]  BY ReadsIsReadDeltas
<1> HIDE DEF f
<1>8. f[0] = Goes(s, said)  BY <1>6 DEF Reads
<1>9. f[1] = IF f[0].halt THEN f[0] ELSE LET q == OnToolDelta(f[0].st, deltas[1]) IN [q EXCEPT !.out = f[0].out \o @]
  BY <1>6 DEF Reads
<1>10. f[1] = x  BY <1>1, <1>8, <1>9 DEF r, x
<1> QED BY <1>7, <1>10 DEF r, x

(* Flattening sequences of sequences.                                       *)
Flattens(f, seqs, n) ==
    f = [i \in 1..n |-> IF i = 1 THEN seqs[i] ELSE f[i - 1] \o seqs[i]]

LEMMA FlattensExists ==
  ASSUME NEW seqs, NEW n \in Nat
  PROVE  \E f : Flattens(f, seqs, n)
<1> DEFINE T == {m \in Nat : \E f : Flattens(f, seqs, m)}
<1>1. 0 \in T
  <2>1. Flattens([i \in 1..0 |-> 0], seqs, 0)  BY DEF Flattens
  <2> QED BY <2>1
<1>2. ASSUME NEW m \in T PROVE m + 1 \in T
  <2>1. PICK f : Flattens(f, seqs, m)  OBVIOUS
  <2> DEFINE x == IF m + 1 = 1 THEN seqs[m + 1] ELSE f[m] \o seqs[m + 1]
             g == [i \in 1..(m + 1) |-> IF i = m + 1 THEN x ELSE f[i]]
  <2> HIDE DEF x
  <2>2. \A i \in 1..m : g[i] = f[i]  OBVIOUS
  <2>3. \A i \in 1..(m + 1) : g[i] = IF i = 1 THEN seqs[i] ELSE g[i - 1] \o seqs[i]
    <3> SUFFICES ASSUME NEW i \in 1..(m + 1)
                 PROVE  g[i] = IF i = 1 THEN seqs[i] ELSE g[i - 1] \o seqs[i]
      OBVIOUS
    <3>1. CASE i = m + 1
      <4>1. g[i] = x /\ i - 1 = m /\ (i # 1 => i - 1 \in 1..m /\ g[i - 1] = f[m])  BY <3>1, <2>2
      <4> HIDE DEF g
      <4> QED BY <3>1, <4>1 DEF x
    <3>2. CASE i # m + 1
      <4>1. i \in 1..m /\ (i # 1 => i - 1 \in 1..m)  BY <3>2
      <4>2. g[i] = f[i] /\ (i # 1 => g[i - 1] = f[i - 1])  BY <2>2, <4>1
      <4> HIDE DEF g
      <4> QED BY <2>1, <4>1, <4>2 DEF Flattens
    <3> QED BY <3>1, <3>2
  <2>4. DOMAIN g = 1..(m + 1) /\ g = [i \in 1..(m + 1) |-> g[i]]  OBVIOUS
  <2> HIDE DEF g
  <2>5. Flattens(g, seqs, m + 1)  BY <2>3, <2>4 DEF Flattens
  <2> QED BY <2>5
<1>3. T \in SUBSET Nat  OBVIOUS
<1> HIDE DEF T
<1>4. T = Nat  BY <1>1, <1>2, <1>3, NatsByStep
<1> QED BY <1>4 DEF T

LEMMA FlattenedIsSeq ==
  ASSUME NEW S, NEW seqs \in Seq(Seq(S))
  PROVE  FlattenSeq(seqs) \in Seq(S)
<1>1. CASE Len(seqs) = 0
  <2>1. seqs = <<>>  BY <1>1
  <2> QED BY <1>1, <2>1 DEF FlattenSeq
<1>2. CASE Len(seqs) # 0
  <2> DEFINE f == CHOOSE f : Flattens(f, seqs, Len(seqs))
  <2>1. Len(seqs) \in Nat /\ \A i \in 1..Len(seqs) : seqs[i] \in Seq(S)  OBVIOUS
  <2>2. Flattens(f, seqs, Len(seqs))  BY <2>1, FlattensExists
  <2>3. FlattenSeq(seqs) = f[Len(seqs)]  BY <1>2 DEF FlattenSeq, Flattens
  <2> HIDE DEF f
  <2> DEFINE T == {m \in Nat : m + 1 <= Len(seqs) => f[m + 1] \in Seq(S)}
  <2>4. 0 \in T  BY <1>2, <2>1, <2>2 DEF Flattens
  <2>5. ASSUME NEW m \in T PROVE m + 1 \in T
    <3> SUFFICES ASSUME (m + 1) + 1 <= Len(seqs) PROVE f[(m + 1) + 1] \in Seq(S)  OBVIOUS
    <3> DEFINE i == (m + 1) + 1
    <3>1. i \in 1..Len(seqs) /\ i # 1 /\ i - 1 = m + 1 /\ m + 1 <= Len(seqs)  BY <2>1
    <3>2. f[i - 1] \in Seq(S) /\ seqs[i] \in Seq(S)  BY <2>1, <3>1
    <3> HIDE DEF i
    <3>3. f[i] = f[i - 1] \o seqs[i]  BY <2>2, <3>1 DEF Flattens
    <3> QED BY <3>2, <3>3 DEF i
  <2>6. T \in SUBSET Nat  OBVIOUS
  <2> HIDE DEF T
  <2>7. T = Nat  BY <2>4, <2>5, <2>6, NatsByStep
  <2>8. Len(seqs) - 1 \in T /\ (Len(seqs) - 1) + 1 = Len(seqs)  BY <1>2, <2>1, <2>7
  <2> QED BY <2>3, <2>8 DEF T
<1> QED BY <1>1, <1>2

-----------------------------------------------------------------------------
(* What an adapter yields for a line: events of the turn, and at most one   *)
(* event that ends it, the last.                                            *)
PlainTypes == {"content", "thinking", "tool_use", "server_tool"}
EndTypes   == {"done", "error", "bare_error"}

IsSeq(q)  == q \in Seq(Range(q))
Plain(q)  == IsSeq(q) /\ \A e \in Range(q) : e.type \in PlainTypes
Ending(q) == /\ IsSeq(q) /\ q # <<>>
             /\ \A k \in 1..(Len(q) - 1) : q[k].type \in PlainTypes
             /\ q[Len(q)].type \in EndTypes

LEMMA SeqOfOwn ==
  ASSUME NEW S, NEW q \in Seq(S)
  PROVE  IsSeq(q) /\ Range(q) \subseteq S /\ Len(q) \in Nat /\ DOMAIN q = 1..Len(q)
<1>1. Len(q) \in Nat /\ DOMAIN q = 1..Len(q)  OBVIOUS
<1>2. \A k \in 1..Len(q) : q[k] \in S /\ q[k] \in Range(q)  BY <1>1 DEF Range
<1>3. q \in Seq(Range(q))
  <2>1. q = [k \in 1..Len(q) |-> q[k]]  OBVIOUS
  <2> QED BY <1>1, <1>2, <2>1, IsASeq
<1> QED BY <1>1, <1>2, <1>3 DEF IsSeq, Range

LEMMA OwnSeq ==
  ASSUME NEW q, IsSeq(q)
  PROVE  /\ Len(q) \in Nat /\ DOMAIN q = 1..Len(q)
         /\ \A k \in 1..Len(q) : q[k] \in Range(q)
         /\ \A e \in Range(q) : \E k \in 1..Len(q) : e = q[k]
         /\ Len(q) = 0 => q = <<>>
<1>1. q \in Seq(Range(q))  BY DEF IsSeq
<1>2. Len(q) \in Nat /\ DOMAIN q = 1..Len(q)  BY <1>1
<1>3. Len(q) = 0 => q = <<>>  BY <1>1
<1> QED BY <1>2, <1>3 DEF Range

LEMMA NoneSeq ==
  ASSUME NEW q, q = <<>>
  PROVE  IsSeq(q) /\ Range(q) = {} /\ Len(q) = 0
<1>1. \A S : q \in Seq(S)  OBVIOUS
<1>2. PICK S : S = {}  OBVIOUS
<1>3. IsSeq(q) /\ Range(q) \subseteq S  BY <1>1, SeqOfOwn
<1>4. Len(q) = 0  OBVIOUS
<1> QED BY <1>2, <1>3, <1>4

LEMMA OneSeq == ASSUME NEW e PROVE IsSeq(<<e>>) /\ Range(<<e>>) = {e} /\ Len(<<e>>) = 1
<1>1. <<e>> \in Seq({e}) /\ <<e>>[1] = e /\ Len(<<e>>) = 1  OBVIOUS
<1>2. IsSeq(<<e>>) /\ Range(<<e>>) \subseteq {e}  BY <1>1, SeqOfOwn
<1>3. e \in Range(<<e>>)  BY <1>1, <1>2, OwnSeq
<1> QED BY <1>1, <1>2, <1>3

LEMMA ConcatSeq ==
  ASSUME NEW a, NEW b, IsSeq(a), IsSeq(b)
  PROVE  /\ IsSeq(a \o b) /\ Len(a \o b) = Len(a) + Len(b)
         /\ Range(a \o b) = Range(a) \cup Range(b)
         /\ \A k \in 1..Len(a) : (a \o b)[k] = a[k]
         /\ \A k \in 1..Len(b) : (a \o b)[Len(a) + k] = b[k]
<1> DEFINE S == Range(a) \cup Range(b)
<1>1. Range(a) \subseteq S /\ Range(b) \subseteq S  OBVIOUS
<1>2. a \in Seq(Range(a)) /\ b \in Seq(Range(b))  BY DEF IsSeq
<1> HIDE DEF S
<1>3. a \in Seq(S) /\ b \in Seq(S)  BY <1>1, <1>2
<1>4. a \o b \in Seq(S) /\ Len(a) \in Nat /\ Len(b) \in Nat /\ Len(a \o b) = Len(a) + Len(b)  BY <1>3
<1>5. \A k \in 1..Len(a) : (a \o b)[k] = a[k]  BY <1>3, <1>4
<1>6. \A k \in 1..Len(b) : (a \o b)[Len(a) + k] = b[k]
  <2> SUFFICES ASSUME NEW k \in 1..Len(b) PROVE (a \o b)[Len(a) + k] = b[k]  OBVIOUS
  <2>1. Len(a) + k \in 1..(Len(a) + Len(b)) /\ ~ (Len(a) + k <= Len(a)) /\ (Len(a) + k) - Len(a) = k  BY <1>4
  <2> QED BY <1>3, <1>4, <2>1
<1>7. IsSeq(a \o b) /\ Range(a \o b) \subseteq S  BY <1>4, SeqOfOwn
<1>8. ASSUME NEW e \in Range(a) PROVE e \in Range(a \o b)
  <2>1. PICK k \in 1..Len(a) : e = a[k]  BY OwnSeq
  <2>2. k \in 1..Len(a \o b) /\ (a \o b)[k] = e  BY <1>4, <1>5, <2>1
  <2> QED BY <1>7, <2>2, OwnSeq
<1>9. ASSUME NEW e \in Range(b) PROVE e \in Range(a \o b)
  <2>1. PICK k \in 1..Len(b) : e = b[k]  BY OwnSeq
  <2>2. Len(a) + k \in 1..Len(a \o b) /\ (a \o b)[Len(a) + k] = e  BY <1>4, <1>6, <2>1
  <2> QED BY <1>7, <2>2, OwnSeq
<1> QED BY <1>4, <1>5, <1>6, <1>7, <1>8, <1>9 DEF S

LEMMA AppendSeq ==
  ASSUME NEW a, NEW e, IsSeq(a)
  PROVE  /\ IsSeq(Append(a, e)) /\ Len(Append(a, e)) = Len(a) + 1
         /\ Range(Append(a, e)) = Range(a) \cup {e}
         /\ \A k \in 1..Len(a) : Append(a, e)[k] = a[k]
         /\ Append(a, e)[Len(a) + 1] = e
<1> DEFINE S == Range(a) \cup {e}
<1>1. Range(a) \subseteq S /\ e \in S  OBVIOUS
<1>2. a \in Seq(Range(a))  BY DEF IsSeq
<1> HIDE DEF S
<1>3. a \in Seq(S)  BY <1>1, <1>2
<1>4. Append(a, e) \in Seq(S) /\ Len(a) \in Nat /\ Len(Append(a, e)) = Len(a) + 1  BY <1>1, <1>3
<1>5. \A k \in 1..Len(a) : Append(a, e)[k] = a[k]  BY <1>1, <1>3, <1>4
<1>6. Append(a, e)[Len(a) + 1] = e  BY <1>1, <1>3, <1>4
<1>7. IsSeq(Append(a, e)) /\ Range(Append(a, e)) \subseteq S  BY <1>4, SeqOfOwn
<1>8. ASSUME NEW x \in Range(a) PROVE x \in Range(Append(a, e))
  <2>1. PICK k \in 1..Len(a) : x = a[k]  BY OwnSeq
  <2>2. k \in 1..Len(Append(a, e)) /\ Append(a, e)[k] = x  BY <1>4, <1>5, <2>1
  <2> QED BY <1>7, <2>2, OwnSeq
<1>9. e \in Range(Append(a, e))
  <2>1. Len(a) + 1 \in 1..Len(Append(a, e))  BY <1>4
  <2> QED BY <1>6, <1>7, <2>1, OwnSeq
<1> QED BY <1>4, <1>5, <1>6, <1>7, <1>8, <1>9 DEF S

LEMMA TailSeq ==
  ASSUME NEW q, IsSeq(q), q # <<>>
  PROVE  /\ Head(q) = q[1] /\ Head(q) \in Range(q)
         /\ IsSeq(Tail(q)) /\ Len(Tail(q)) = Len(q) - 1 /\ Range(Tail(q)) \subseteq Range(q)
         /\ \A k \in 1..(Len(q) - 1) : Tail(q)[k] = q[k + 1]
<1>1. q \in Seq(Range(q))  BY DEF IsSeq
<1>2. Len(q) \in Nat /\ Len(q) # 0 /\ Head(q) = q[1] /\ 1 \in 1..Len(q)  BY <1>1, OwnSeq
<1>3. Tail(q) \in Seq(Range(q)) /\ Len(Tail(q)) = Len(q) - 1  BY <1>1, <1>2
<1>4. \A k \in 1..(Len(q) - 1) : Tail(q)[k] = q[k + 1]  BY <1>1, <1>2
<1>5. Head(q) \in Range(q)  BY <1>2, OwnSeq
<1>6. IsSeq(Tail(q)) /\ Range(Tail(q)) \subseteq Range(q)  BY <1>3, SeqOfOwn
<1> QED BY <1>2, <1>3, <1>4, <1>5, <1>6

LEMMA PlainNone == ASSUME NEW q, q = <<>> PROVE Plain(q)
BY NoneSeq DEF Plain

LEMMA PlainOne == ASSUME NEW e, e.type \in PlainTypes PROVE Plain(<<e>>)
BY OneSeq DEF Plain

LEMMA PlainFrom ==
  ASSUME NEW S, NEW q \in Seq(S), \A e \in S : e.type \in PlainTypes
  PROVE  Plain(q)
BY SeqOfOwn DEF Plain

LEMMA PlainConcat == ASSUME NEW a, NEW b, Plain(a), Plain(b) PROVE Plain(a \o b)
BY ConcatSeq DEF Plain

LEMMA PlainAppend ==
  ASSUME NEW a, NEW e, Plain(a), e.type \in PlainTypes PROVE Plain(Append(a, e))
BY AppendSeq DEF Plain

LEMMA EndingOne == ASSUME NEW e, e.type \in EndTypes PROVE Ending(<<e>>)
<1>1. IsSeq(<<e>>) /\ Len(<<e>>) = 1 /\ <<e>>[1] = e /\ <<e>> # <<>>  BY OneSeq
<1> QED BY <1>1 DEF Ending

LEMMA EndingAppend ==
  ASSUME NEW a, NEW e, Plain(a), e.type \in EndTypes PROVE Ending(Append(a, e))
<1> DEFINE q == Append(a, e)
<1>1. IsSeq(a) /\ Len(a) \in Nat  BY OwnSeq DEF Plain
<1>2. IsSeq(q) /\ Len(q) = Len(a) + 1 /\ q[Len(a) + 1] = e /\ \A k \in 1..Len(a) : q[k] = a[k]
  BY <1>1, AppendSeq
<1> HIDE DEF q
<1>3. \A k \in 1..(Len(q) - 1) : q[k].type \in PlainTypes
  BY <1>1, <1>2, OwnSeq DEF Plain
<1>4. q # <<>>  BY <1>1, <1>2, NoneSeq
<1> QED BY <1>1, <1>2, <1>3, <1>4 DEF Ending, q

LEMMA EndingConcat == ASSUME NEW a, NEW b, Plain(a), Ending(b) PROVE Ending(a \o b)
<1> DEFINE q == a \o b
<1>1. IsSeq(a) /\ Len(a) \in Nat /\ IsSeq(b) /\ Len(b) \in Nat /\ Len(b) # 0
  BY OwnSeq DEF Plain, Ending
<1>2. IsSeq(q) /\ Len(q) = Len(a) + Len(b) /\ \A k \in 1..Len(a) : q[k] = a[k]  BY <1>1, ConcatSeq
<1>3. \A k \in 1..Len(b) : q[Len(a) + k] = b[k]  BY <1>1, ConcatSeq
<1> HIDE DEF q
<1>4. ASSUME NEW k \in 1..(Len(q) - 1) PROVE q[k].type \in PlainTypes
  <2>1. CASE k <= Len(a)  BY <1>1, <1>2, <2>1, OwnSeq DEF Plain
  <2>2. CASE k > Len(a)
    <3>1. k - Len(a) \in 1..(Len(b) - 1) /\ k - Len(a) \in 1..Len(b) /\ Len(a) + (k - Len(a)) = k
      BY <1>1, <1>2, <2>2
    <3>2. q[k] = b[k - Len(a)]  BY <1>3, <3>1
    <3> QED BY <3>1, <3>2 DEF Ending
  <2> QED BY <1>1, <1>2, <2>1, <2>2
<1>5. q[Len(q)].type \in EndTypes
  <2>1. Len(b) \in 1..Len(b)  BY <1>1
  <2>2. q[Len(q)] = b[Len(b)]  BY <1>2, <1>3, <2>1
  <2> QED BY <2>2 DEF Ending
<1>6. q # <<>>  BY <1>1, <1>2, NoneSeq
<1> QED BY <1>2, <1>4, <1>5, <1>6 DEF Ending, q

LEMMA PlainTail ==
  ASSUME NEW q, Plain(q), q # <<>>
  PROVE  Head(q).type \in PlainTypes /\ Plain(Tail(q))
BY TailSeq DEF Plain

LEMMA EndingTail ==
  ASSUME NEW q, Ending(q)
  PROVE  IF Len(q) = 1 THEN Head(q).type \in EndTypes /\ Tail(q) = <<>>
         ELSE Head(q).type \in PlainTypes /\ Ending(Tail(q)) /\ Tail(q)[Len(Tail(q))] = q[Len(q)]
<1>1. IsSeq(q) /\ q # <<>> /\ Len(q) \in Nat /\ Len(q) # 0  BY OwnSeq DEF Ending
<1>2. Head(q) = q[1] /\ IsSeq(Tail(q)) /\ Len(Tail(q)) = Len(q) - 1
      /\ \A k \in 1..(Len(q) - 1) : Tail(q)[k] = q[k + 1]
  BY <1>1, TailSeq
<1>3. CASE Len(q) = 1
  <2>1. PICK t : t = Tail(q)  OBVIOUS
  <2>2. IsSeq(t) /\ Len(t) = 0  BY <1>2, <1>3, <2>1
  <2>3. Tail(q) = <<>>  BY <2>1, <2>2, OwnSeq
  <2> QED BY <1>2, <1>3, <2>3 DEF Ending
<1>4. CASE Len(q) # 1
  <2> DEFINE t == Tail(q)
  <2>1. t[Len(t)] = q[Len(q)]
    <3>1. Len(q) - 1 \in 1..(Len(q) - 1) /\ (Len(q) - 1) + 1 = Len(q)  BY <1>1, <1>4
    <3> QED BY <1>2, <3>1
  <2>2. ASSUME NEW k \in 1..(Len(t) - 1) PROVE t[k].type \in PlainTypes
    <3>1. k \in 1..(Len(q) - 1) /\ k + 1 \in 1..(Len(q) - 1)  BY <1>1, <1>2
    <3> QED BY <1>2, <3>1 DEF Ending
  <2>3. t # <<>>  BY <1>1, <1>2, <1>4, NoneSeq
  <2>4. 1 \in 1..(Len(q) - 1)  BY <1>1, <1>4
  <2>5. Ending(t)  BY <1>2, <2>1, <2>2, <2>3 DEF Ending
  <2> QED BY <1>2, <1>4, <2>1, <2>4, <2>5 DEF Ending
<1> QED BY <1>3, <1>4

-----------------------------------------------------------------------------
(* Each adapter handles every line as its callers expect: it stops exactly  *)
(* with an event that ends the turn, and an error it goes on after is all   *)
(* it yields for that line. The done event is for lines that end the turn.  *)
HandledWell(r) ==
    /\ r.halt \in BOOLEAN
    /\ IF r.halt THEN Ending(r.out) ELSE Plain(r.out) \/ r.out = <<BareError>>
EndsTurn(r) == r.halt /\ r.out[Len(r.out)].type = "done"

LEMMA GoesWell == ASSUME NEW s, NEW q, Plain(q)
                  PROVE  HandledWell(Goes(s, q)) /\ ~ EndsTurn(Goes(s, q))
BY DEF HandledWell, EndsTurn, Goes

LEMMA StopsWell ==
  ASSUME NEW s, NEW q, Plain(q), NEW e, e.type \in EndTypes
  PROVE  LET r == Stops(s, Append(q, e)) IN HandledWell(r) /\ (EndsTurn(r) <=> e.type = "done")
<1> DEFINE a == Append(q, e)
<1>1. Ending(a)  BY EndingAppend
<1>2. IsSeq(q)  BY DEF Plain
<1>3. Len(a) = Len(q) + 1 /\ a[Len(q) + 1] = e  BY <1>2, AppendSeq
<1> HIDE DEF a
<1>4. Stops(s, a).halt = TRUE /\ Stops(s, a).out = a  BY DEF Stops
<1>5. HandledWell(Stops(s, a)) /\ (EndsTurn(Stops(s, a)) <=> e.type = "done")
  BY <1>1, <1>3, <1>4 DEF HandledWell, EndsTurn
<1> QED BY <1>5 DEF a

LEMMA StopsWithOne ==
  ASSUME NEW s, NEW e, e.type \in EndTypes
  PROVE  LET r == Stops(s, <<e>>) IN HandledWell(r) /\ (EndsTurn(r) <=> e.type = "done")
<1>1. Ending(<<e>>) /\ Len(<<e>>) = 1 /\ <<e>>[1] = e  BY EndingOne
<1> QED BY <1>1 DEF HandledWell, EndsTurn, Stops

LEMMA GoesOnAfterError ==
  ASSUME NEW s PROVE HandledWell(Goes(s, <<BareError>>)) /\ ~ EndsTurn(Goes(s, <<BareError>>))
BY DEF HandledWell, EndsTurn, Goes

LEMMA EventTypes ==
  /\ \A c : ToolUse(c).type = "tool_use"
  /\ \A p : ServerTool(p).type = "server_tool"
  /\ \A f : Content(f).type = "content" /\ Thinking(f).type = "thinking"
  /\ BareError.type = "bare_error"
  /\ \A u, p : ErrorWith(u, p).type = "error"
  /\ \A t, u, p : Done(t, u, p).type = "done"
BY DEF ToolUse, ServerTool, Content, Thinking, BareError, ErrorWith, Done

LEMMA FlushedTool == ASSUME NEW s PROVE Plain(FlushToolCall(s).out)
<1>1. CASE s.call = "none"  BY <1>1, PlainNone DEF FlushToolCall, Goes
<1>2. CASE s.call # "none"
  <2>1. FlushToolCall(s).out = <<ToolUse(ToolCall(s.call, s.buf))>>  BY <1>2 DEF FlushToolCall, Goes
  <2>2. ToolUse(ToolCall(s.call, s.buf)).type \in PlainTypes  BY EventTypes DEF PlainTypes
  <2> QED BY <2>1, <2>2, PlainOne
<1> QED BY <1>1, <1>2

LEMMA FlushedServer == ASSUME NEW s, NEW at PROVE Plain(FlushServerToolUse(s, at).out)
<1> DEFINE o == {i \in at : s.blocks[i].open}
           i == CHOOSE i \in o : \A j \in o : i <= j
           p == PartOf(FinishedServerCall(s.blocks[i]))
<1>1. CASE o = {}  BY <1>1, PlainNone DEF FlushServerToolUse, Goes
<1>2. CASE o # {}
  <2>1. FlushServerToolUse(s, at).out = <<ServerTool(p)>>  BY <1>2 DEF FlushServerToolUse, Goes
  <2> HIDE DEF p
  <2>2. ServerTool(p).type \in PlainTypes  BY EventTypes DEF PlainTypes
  <2> QED BY <2>1, <2>2, PlainOne
<1> QED BY <1>1, <1>2

LEMMA FlushedBoth ==
  ASSUME NEW s, NEW at
  PROVE  /\ Plain(FlushBoth(s, at).out) /\ FlushBoth(s, at).halt = FALSE
         /\ FlushBoth(s, at).out
              = FlushToolCall(s).out \o FlushServerToolUse(FlushToolCall(s).st, at).out
<1>1. FlushBoth(s, at).out = FlushToolCall(s).out \o FlushServerToolUse(FlushToolCall(s).st, at).out
      /\ FlushBoth(s, at).halt = FALSE
  BY DEF FlushBoth, Goes
<1> QED BY <1>1, FlushedTool, FlushedServer, PlainConcat

LEMMA FailsWell == ASSUME NEW s PROVE HandledWell(Fail(s)) /\ ~ EndsTurn(Fail(s)) /\ Fail(s).halt
<1> DEFINE e == IF s.started THEN ErrorWith(s.usage, Parts(s.blocks)) ELSE BareError
<1>1. Fail(s) = Stops(s, <<e>>)  BY DEF Fail
<1>2. e.type \in EndTypes /\ e.type # "done"  BY EventTypes DEF EndTypes
<1> HIDE DEF e
<1>3. Stops(s, <<e>>).halt  BY DEF Stops
<1> QED BY <1>1, <1>2, <1>3, StopsWithOne

AnthropicTypes ==
    {"message_start", "block_start", "text_delta", "thinking_delta", "input_delta", "block_stop",
     "message_delta", "error", "garbled"}

LEMMA AnthropicHandles ==
  ASSUME NEW s, NEW l, l.type \in AnthropicTypes
  PROVE  LET r == AnthropicLine(s, l)
         IN HandledWell(r) /\ (EndsTurn(r) => l.type = "message_delta")
<1> DEFINE r == AnthropicLine(s, l)
<1> SUFFICES HandledWell(r) /\ (EndsTurn(r) => l.type = "message_delta")  OBVIOUS
<1>1. CASE l.type = "message_start"
  <2>1. PICK t : r = Goes(t, <<>>)  BY <1>1 DEF AnthropicLine, OnMessageStart
  <2> QED BY <2>1, PlainNone, GoesWell
<1>2. CASE l.type = "block_start"
  <2> DEFINE f == FlushBoth(s, OpenServerCall(s.blocks))
             e == ServerTool([kind |-> "result", id |-> l.id])
  <2>1. PICK t : r = Goes(t, IF l.kind = "result" THEN Append(f.out, e) ELSE f.out)
    BY <1>2 DEF AnthropicLine, OnBlockStart
  <2>2. Plain(f.out) /\ e.type \in PlainTypes  BY FlushedBoth, EventTypes DEF PlainTypes
  <2> HIDE DEF f, e
  <2>3. Plain(IF l.kind = "result" THEN Append(f.out, e) ELSE f.out)  BY <2>2, PlainAppend
  <2> QED BY <2>1, <2>3, GoesWell
<1>3. CASE l.type = "text_delta"
  <2>1. PICK t : r = Goes(t, <<Content(l.frag)>>)  BY <1>3 DEF AnthropicLine, OnTextDelta
  <2>2. Plain(<<Content(l.frag)>>)  BY EventTypes, PlainOne DEF PlainTypes
  <2> QED BY <2>1, <2>2, GoesWell
<1>4. CASE l.type = "thinking_delta"
  <2>1. PICK t : r = Goes(t, <<Thinking(l.frag)>>)  BY <1>4 DEF AnthropicLine, OnThinkingDelta
  <2>2. Plain(<<Thinking(l.frag)>>)  BY EventTypes, PlainOne DEF PlainTypes
  <2> QED BY <2>1, <2>2, GoesWell
<1>5. CASE l.type = "input_delta"
  <2>1. r = Fail(s) \/ \E t : r = Goes(t, <<>>)  BY <1>5 DEF AnthropicLine, OnInputDelta
  <2> QED BY <2>1, FailsWell, PlainNone, GoesWell
<1>6. CASE l.type = "block_stop"
  <2>1. r = FlushBoth(s, Position(s.blocks, l.index))  BY <1>6 DEF AnthropicLine, OnBlockStop
  <2> QED BY <2>1, FlushedBoth DEF HandledWell, EndsTurn
<1>7. CASE l.type = "message_delta"
  <2> DEFINE f == FlushBoth(s, OpenServerCall(s.blocks))
             e == Done(l.stop, s.usage, Parts(f.st.blocks))
  <2>1. r = Stops(f.st, Append(f.out, e))  BY <1>7 DEF AnthropicLine, OnMessageDelta
  <2>2. Plain(f.out) /\ e.type \in EndTypes  BY FlushedBoth, EventTypes DEF EndTypes
  <2> HIDE DEF f, e
  <2> QED BY <1>7, <2>1, <2>2, StopsWell
<1>8. CASE l.type = "error"
  <2>1. r = Fail(s)  BY <1>8 DEF AnthropicLine
  <2> QED BY <2>1, FailsWell
<1>9. CASE l.type = "garbled"
  <2>1. r = Goes(s, <<BareError>>)  BY <1>9 DEF AnthropicLine
  <2> QED BY <2>1, GoesOnAfterError
<1> HIDE DEF r
<1> QED BY <1>1, <1>2, <1>3, <1>4, <1>5, <1>6, <1>7, <1>8, <1>9 DEF AnthropicTypes

-----------------------------------------------------------------------------
(* The Chat Completions adapter. What its state is made of.                 *)
Names     == Range(BlockIDs) \cup {"none"}
ArgFrags  == Names \X Nat
CallSet   == [id : Names, index : Int, args : Seq(ArgFrags), emitted : BOOLEAN]
DeltaSet  == [index : Int, id : Names, frag : Seq(ArgFrags)]
Finishes  == {"none", "tool", "end", "max"}
OpenAISet == [limit : Nat, finish : Finishes, usage : BOOLEAN, calls : Seq(CallSet), latest : Nat,
              pending : Int, sawDone : BOOLEAN, anyCall : BOOLEAN]
OpenAIOK(s) == s \in OpenAISet /\ s.latest <= Len(s.calls)

LEMMA CallsAre ==
  ASSUME NEW s, OpenAIOK(s)
  PROVE  /\ Len(s.calls) \in Nat /\ DOMAIN s.calls = 1..Len(s.calls)
         /\ \A p \in 1..Len(s.calls) : s.calls[p] \in CallSet
<1>1. s.calls \in Seq(CallSet)  BY DEF OpenAIOK, OpenAISet
<1> QED BY <1>1

LEMMA CallTypes ==
  ASSUME NEW c \in CallSet
  PROVE  c.id \in Names /\ c.index \in Int /\ c.args \in Seq(ArgFrags) /\ Len(c.args) \in Nat /\ c.emitted \in BOOLEAN
BY DEF CallSet

(* Replacing one call.                                                      *)
LEMMA CallReplaced ==
  ASSUME NEW calls \in Seq(CallSet), NEW p \in 1..Len(calls), NEW c \in CallSet
  PROVE  [calls EXCEPT ![p] = c] \in Seq(CallSet) /\ Len([calls EXCEPT ![p] = c]) = Len(calls)
OBVIOUS

LEMMA OpenAIChanged ==
  ASSUME NEW s \in OpenAISet, NEW cs \in Seq(CallSet), NEW y \in Nat, NEW z \in Int, NEW any \in BOOLEAN
  PROVE  [s EXCEPT !.calls = cs, !.latest = y, !.pending = z, !.anyCall = any] \in OpenAISet
BY DEF OpenAISet

Emitted(c) == [c EXCEPT !.emitted = TRUE]
GivesBack(t, s, c) == t.pending = s.pending - Len(c.args)

LEMMA EmitCallIs ==
  ASSUME NEW s, OpenAIOK(s), NEW p \in 1..Len(s.calls)
  PROVE  LET r == EmitCall(s, p)
             c == s.calls[p]
         IN /\ r.halt = FALSE
            /\ OpenAIOK(r.st) /\ r.st.limit = s.limit /\ r.st.latest = s.latest
            /\ r.st.finish = s.finish /\ r.st.sawDone = s.sawDone
            /\ Len(r.st.calls) = Len(s.calls)
            /\ r.st.calls[p] = Emitted(c)
            /\ \A q \in 1..Len(s.calls) : q # p => r.st.calls[q] = s.calls[q]
            /\ c.emitted => r.out = <<>> /\ r.st = s
            /\ ~ c.emitted => r.out = <<EventOf(c)>>
            /\ ~ c.emitted => GivesBack(r.st, s, c)
<1> DEFINE r == EmitCall(s, p)
           c == s.calls[p]
<1>1. s \in OpenAISet /\ s.calls \in Seq(CallSet) /\ c \in CallSet  BY CallsAre DEF OpenAIOK, OpenAISet
<1>2. c.emitted \in BOOLEAN /\ Len(c.args) \in Int  BY <1>1, CallTypes
<1>3. CASE c.emitted
  <2>1. r = Goes(s, <<>>)  BY <1>3 DEF EmitCall
  <2>2. r.st = s /\ r.out = <<>> /\ r.halt = FALSE  BY <2>1 DEF Goes
  <2>3. c = [c EXCEPT !.emitted = TRUE]  BY <1>1, <1>2, <1>3 DEF CallSet
  <2> HIDE DEF r
  <2>4. r.st.calls[p] = Emitted(c)  BY <2>2, <2>3 DEF Emitted
  <2> QED BY <1>3, <2>2, <2>4 DEF r, c, Emitted
<1>4. CASE ~ c.emitted
  <2> DEFINE d == [c EXCEPT !.emitted = TRUE]
             cs == [s.calls EXCEPT ![p] = d]
             t == [s EXCEPT !.calls = cs, !.anyCall = TRUE, !.pending = @ - Len(c.args)]
  <2>1. r = Goes(t, <<EventOf(c)>>)  BY <1>4 DEF EmitCall
  <2>2. r.st = t /\ r.out = <<EventOf(c)>> /\ r.halt = FALSE  BY <2>1 DEF Goes
  <2>3. d \in CallSet  BY <1>1 DEF CallSet
  <2> HIDE DEF d
  <2>4. cs \in Seq(CallSet) /\ Len(cs) = Len(s.calls)  BY <1>1, <2>3, CallReplaced
  <2>5. cs[p] = d /\ \A q \in 1..Len(s.calls) : q # p => cs[q] = s.calls[q]  BY <1>1
  <2> HIDE DEF cs
  <2>9. PICK n \in Int : n = s.pending - Len(c.args)  BY <1>1, <1>2 DEF OpenAISet
  <2>10. t = [s EXCEPT !.calls = cs, !.anyCall = TRUE, !.pending = n]  BY <2>9
  <2>6. t \in OpenAISet /\ t.calls = cs /\ t.latest = s.latest /\ t.limit = s.limit
        /\ t.pending = s.pending - Len(c.args) /\ t.finish = s.finish /\ t.sawDone = s.sawDone
    <3> HIDE DEF t, c
    <3> QED BY <1>1, <2>4, <2>9, <2>10 DEF OpenAISet
  <2>7. OpenAIOK(t)  BY <2>4, <2>6 DEF OpenAIOK
  <2> HIDE DEF t, r
  <2> QED BY <1>4, <2>2, <2>4, <2>5, <2>6, <2>7 DEF d, r, Emitted, GivesBack
<1> QED BY <1>2, <1>3, <1>4

(* What the unfinished calls have buffered is finite.                       *)
LEMMA HeldIsFinite ==
  ASSUME NEW s, OpenAIOK(s), NEW F, F = Fragments(s.calls, Unemitted(s.calls))
  PROVE  IsFiniteSet(F) /\ Cardinality(F) \in Nat
<1>1. PICK cs : cs = s.calls  OBVIOUS
<1>2. PICK n : n = Len(s.calls)  OBVIOUS
<1>3. n \in Nat /\ DOMAIN cs = 1..n /\ \A p \in 1..n : cs[p] \in CallSet  BY <1>1, <1>2, CallsAre
<1>4. PICK L : L = Unemitted(cs)  OBVIOUS
<1>5. L \subseteq 1..n  BY <1>3, <1>4 DEF Unemitted
<1>6. IsFiniteSet(1..n)  BY <1>3, FS_Interval
<1>7. IsFiniteSet(L)  BY <1>5, <1>6, FS_Subset
<1> DEFINE S == {{p} \X DOMAIN cs[p].args : p \in L}
           f == [p \in L |-> {p} \X DOMAIN cs[p].args]
<1>8. F = UNION S  BY <1>1, <1>4 DEF Fragments
<1>9. f \in Surjection(L, S)  BY Zenon DEF Surjection
<1> HIDE DEF f
<1>10. IsFiniteSet(S)  BY <1>7, <1>9, FS_Surjection
<1>11. \A T \in S : IsFiniteSet(T)
  <2> SUFFICES ASSUME NEW p \in L PROVE IsFiniteSet({p} \X DOMAIN cs[p].args)  OBVIOUS
  <2>1. PICK args : args = cs[p].args  OBVIOUS
  <2>2. args \in Seq(ArgFrags)  BY <1>3, <1>5, <2>1, CallTypes
  <2>3. PICK m \in Nat : DOMAIN args = 1..m  BY <2>2
  <2>4. IsFiniteSet(1..m)  BY FS_Interval
  <2>6. IsFiniteSet({p})  BY FS_Singleton
  <2>5. IsFiniteSet({p} \X (1..m))  BY <2>4, <2>6, FS_Product
  <2> QED BY <2>1, <2>3, <2>5
<1> HIDE DEF S
<1>12. IsFiniteSet(F)  BY <1>8, <1>10, <1>11, FS_UNION
<1> QED BY <1>12, FS_CardinalityType

LEMMA EmitAllIs ==
  ASSUME NEW s, OpenAIOK(s)
  PROVE  LET r == EmitAll(s)
         IN /\ r.halt = FALSE /\ r.out = Unfinished(s.calls)
            /\ OpenAIOK(r.st) /\ r.st.limit = s.limit /\ r.st.latest = 0 /\ r.st.calls = <<>>
            /\ r.st.pending = s.pending - Cardinality(Fragments(s.calls, Unemitted(s.calls)))
            /\ r.st.finish = s.finish /\ r.st.sawDone = s.sawDone /\ r.st.usage = s.usage
            /\ Plain(r.out)
<1>1. s \in OpenAISet  BY DEF OpenAIOK
<1>7. PICK c : c = Cardinality(Fragments(s.calls, Unemitted(s.calls)))  OBVIOUS
<1>8. c \in Nat  BY <1>7, HeldIsFinite
<1> DEFINE t == [s EXCEPT !.calls = <<>>, !.latest = 0, !.pending = @ - c,
                          !.anyCall = @ \/ Unemitted(s.calls) # {}]
<1>2. EmitAll(s).st = t /\ EmitAll(s).halt = FALSE /\ EmitAll(s).out = Unfinished(s.calls)
  BY <1>7 DEF EmitAll, Goes
<1>3. t \in OpenAISet
  <2>1. (s.anyCall \/ Unemitted(s.calls) # {}) \in BOOLEAN  BY Zenon
  <2>2. PICK any \in BOOLEAN : any = (s.anyCall \/ Unemitted(s.calls) # {})  BY <2>1
  <2>9. <<>> \in Seq(CallSet)  OBVIOUS
  <2>3. PICK cs \in Seq(CallSet) : cs = <<>>  BY <2>9, Zenon
  <2>6. PICK z \in Int : z = s.pending - c  BY <1>1, <1>8 DEF OpenAISet
  <2>4. t = [s EXCEPT !.calls = cs, !.latest = 0, !.pending = z, !.anyCall = any]  BY <2>2, <2>3, <2>6
  <2>5. 0 \in Nat  OBVIOUS
  <2> HIDE DEF t
  <2> QED BY <1>1, <2>4, <2>5, OpenAIChanged, Zenon
<1>4. t.limit = s.limit /\ t.latest = 0 /\ t.calls = <<>> /\ t.pending = s.pending - c
      /\ t.finish = s.finish /\ t.sawDone = s.sawDone /\ t.usage = s.usage
  BY <1>1 DEF OpenAISet
<1>5. OpenAIOK(t)  BY <1>3, <1>4 DEF OpenAIOK
<1> HIDE DEF t
<1>6. Plain(Unfinished(s.calls))
  <2> DEFINE S == {EventOf(s.calls[p]) : p \in 1..Len(s.calls)}
  <2>1. \A e \in S : e.type \in PlainTypes  BY EventTypes DEF EventOf, PlainTypes
  <2>2. Len(s.calls) \in Nat /\ \A p \in 1..Len(s.calls) : EventOf(s.calls[p]) \in S  BY CallsAre
  <2> HIDE DEF S
  <2>3. Unfinished(s.calls) \in Seq(S)  BY <2>2, UnfinishedIsSeq
  <2> QED BY <2>1, <2>3, PlainFrom
<1> QED BY <1>2, <1>4, <1>5, <1>6, <1>7

LEMMA LargestExists ==
  ASSUME NEW n \in Nat, NEW S \in SUBSET (1..n), S # {}
  PROVE  Max(S) \in S /\ \A y \in S : y <= Max(S)
<1> DEFINE T == {n - x : x \in S}
<1>1. T \in SUBSET Nat  OBVIOUS
<1>8. PICK x0 \in S : TRUE  OBVIOUS
<1>9. n - x0 \in T  OBVIOUS
<1> HIDE DEF T
<1>2. PICK t \in T : \A u \in T : t <= u  BY <1>1, <1>9, LeastExists
<1>3. PICK x \in S : t = n - x  BY <1>2 DEF T
<1>4. ASSUME NEW y \in S PROVE x >= y
  <2>1. n - y \in T  BY DEF T
  <2>2. n - x <= n - y /\ x \in Int /\ y \in Int  BY <1>2, <1>3, <2>1
  <2> QED BY <2>2
<1>5. \E z \in S : \A y \in S : z >= y  BY <1>4
<1>6. Max(S) \in S /\ \A y \in S : Max(S) >= y  BY <1>5 DEF Max
<1>7. \A y \in S : y \in Int  OBVIOUS
<1> QED BY <1>6, <1>7

LEMMA CallAtIs ==
  ASSUME NEW s, OpenAIOK(s), NEW index
  PROVE  LET p == CallAt(s, index)
         IN \/ p = 0 /\ \A q \in 1..Len(s.calls) : s.calls[q].index # index
            \/ /\ p \in 1..Len(s.calls) /\ s.calls[p].index = index
               /\ \A q \in 1..Len(s.calls) : s.calls[q].index = index => q <= p
<1> DEFINE at == {p \in DOMAIN s.calls : s.calls[p].index = index}
<1>1. Len(s.calls) \in Nat /\ DOMAIN s.calls = 1..Len(s.calls)  BY CallsAre
<1>2. CASE at = {}
  <2>1. CallAt(s, index) = 0  BY <1>2 DEF CallAt
  <2> QED BY <1>1, <1>2, <2>1
<1>3. CASE at # {}
  <2>1. CallAt(s, index) = Max(at)  BY <1>3 DEF CallAt
  <2>2. at \in SUBSET (1..Len(s.calls))  BY <1>1
  <2> HIDE DEF at
  <2>3. Max(at) \in at /\ \A y \in at : y <= Max(at)  BY <1>1, <1>3, <2>2, LargestExists
  <2> QED BY <1>1, <2>1, <2>3 DEF at
<1> QED BY <1>2, <1>3

(* A delta's call: the latest at its index, or a new one.                   *)
Fresh(d) == [id |-> d.id, index |-> d.index, args |-> <<>>, emitted |-> FALSE]
Reuses(s, d) == LET p == CallAt(s, d.index)
                IN p # 0 /\ d.id # "none" /\ s.calls[p].id # "none" /\ d.id # s.calls[p].id

LEMMA AddressedIs ==
  ASSUME NEW s, OpenAIOK(s), NEW d \in DeltaSet
  PROVE  LET a == Addressed(s, d)
             p == CallAt(s, d.index)
         IN /\ d.index # Unnumbered /\ Reuses(s, d) =>
                  a = Goes(WithCall(EmitCall(s, p).st, d), EmitCall(s, p).out)
            /\ d.index # Unnumbered /\ p = 0 => a = Goes(WithCall(s, d), <<>>)
            /\ d.index # Unnumbered /\ p # 0 /\ ~ Reuses(s, d) => a = Goes([s EXCEPT !.latest = p], <<>>)
            /\ d.index = Unnumbered /\ d.id # "none" => a = Goes(WithCall(EmitAll(s).st, d), EmitAll(s).out)
            /\ d.index = Unnumbered /\ d.id = "none" => a = Goes(s, <<>>)
<1> DEFINE a == Addressed(s, d)
           p == CallAt(s, d.index)
<1> SUFFICES /\ d.index # Unnumbered /\ Reuses(s, d) =>
                  a = Goes(WithCall(EmitCall(s, p).st, d), EmitCall(s, p).out)
             /\ d.index # Unnumbered /\ p = 0 => a = Goes(WithCall(s, d), <<>>)
             /\ d.index # Unnumbered /\ p # 0 /\ ~ Reuses(s, d) => a = Goes([s EXCEPT !.latest = p], <<>>)
             /\ d.index = Unnumbered /\ d.id # "none" => a = Goes(WithCall(EmitAll(s).st, d), EmitAll(s).out)
             /\ d.index = Unnumbered /\ d.id = "none" => a = Goes(s, <<>>)
  OBVIOUS
<1>1. Reuses(s, d) => p # 0  BY DEF Reuses
<1>2. a = CASE d.index # Unnumbered /\ Reuses(s, d) ->
                 Goes(WithCall(EmitCall(s, p).st, d), EmitCall(s, p).out)
            [] d.index # Unnumbered /\ p = 0 -> Goes(WithCall(s, d), <<>>)
            [] d.index # Unnumbered /\ p # 0 /\ ~ Reuses(s, d) -> Goes([s EXCEPT !.latest = p], <<>>)
            [] d.index = Unnumbered /\ d.id # "none" -> Goes(WithCall(EmitAll(s).st, d), EmitAll(s).out)
            [] OTHER -> Goes(s, <<>>)
  BY DEF Addressed, Reuses
<1> HIDE DEF a, p
<1>3. CASE d.index # Unnumbered /\ Reuses(s, d)  BY <1>1, <1>2, <1>3
<1>4. CASE d.index # Unnumbered /\ p = 0  BY <1>1, <1>2, <1>4
<1>5. CASE d.index # Unnumbered /\ p # 0 /\ ~ Reuses(s, d)  BY <1>1, <1>2, <1>5
<1>6. CASE d.index = Unnumbered /\ d.id # "none"  BY <1>1, <1>2, <1>6
<1>7. CASE d.index = Unnumbered /\ d.id = "none"  BY <1>1, <1>2, <1>7
<1> QED BY <1>1, <1>3, <1>4, <1>5, <1>6, <1>7

LEMMA WithCallIs ==
  ASSUME NEW s, OpenAIOK(s), NEW d \in DeltaSet
  PROVE  LET t == WithCall(s, d)
         IN /\ OpenAIOK(t) /\ t.limit = s.limit /\ t.finish = s.finish /\ t.sawDone = s.sawDone
            /\ t.pending = s.pending
            /\ Len(t.calls) = Len(s.calls) + 1 /\ t.latest = Len(s.calls) + 1
            /\ t.calls[Len(s.calls) + 1] = Fresh(d)
            /\ \A q \in 1..Len(s.calls) : t.calls[q] = s.calls[q]
<1> DEFINE n == Len(s.calls) + 1
           cs == Append(s.calls, Fresh(d))
           t == [s EXCEPT !.calls = cs, !.latest = n]
<1>1. s \in OpenAISet /\ s.calls \in Seq(CallSet) /\ Len(s.calls) \in Nat
  BY CallsAre DEF OpenAIOK, OpenAISet
<1>2. Fresh(d) \in CallSet
  <2>1. <<>> \in Seq(ArgFrags)  OBVIOUS
  <2> QED BY <2>1 DEF Fresh, CallSet, DeltaSet
<1>3. cs \in Seq(CallSet) /\ Len(cs) = n /\ n \in Nat /\ cs[n] = Fresh(d) /\ \A q \in 1..Len(s.calls) : cs[q] = s.calls[q]
  BY <1>1, <1>2
<1>4. WithCall(s, d) = t  BY DEF WithCall, Fresh
<1> HIDE DEF cs, n
<1>5. t \in OpenAISet  BY <1>1, <1>3 DEF OpenAISet
<1>6. t.calls = cs /\ t.latest = n /\ t.limit = s.limit /\ t.finish = s.finish /\ t.sawDone = s.sawDone
      /\ t.pending = s.pending
  BY <1>1 DEF OpenAISet
<1> HIDE DEF t
<1>7. OpenAIOK(t)  BY <1>3, <1>5, <1>6 DEF OpenAIOK
<1> QED BY <1>3, <1>4, <1>6, <1>7 DEF n

LEMMA AddressedOK ==
  ASSUME NEW s, OpenAIOK(s), NEW d \in DeltaSet
  PROVE  LET a == Addressed(s, d)
         IN /\ a.halt = FALSE /\ OpenAIOK(a.st) /\ Plain(a.out)
            /\ a.st.limit = s.limit /\ a.st.finish = s.finish /\ a.st.sawDone = s.sawDone
<1> DEFINE a == Addressed(s, d)
           p == CallAt(s, d.index)
           Ok(x) == /\ x.halt = FALSE /\ OpenAIOK(x.st) /\ Plain(x.out)
                    /\ x.st.limit = s.limit /\ x.st.finish = s.finish /\ x.st.sawDone = s.sawDone
<1> SUFFICES Ok(a)  OBVIOUS
<1>1. p = 0 \/ p \in 1..Len(s.calls)  BY CallAtIs
<1>2. CASE d.index # Unnumbered /\ Reuses(s, d)
  <2> DEFINE e == EmitCall(s, p)
             w == WithCall(e.st, d)
  <2>1. p \in 1..Len(s.calls)  BY <1>1, <1>2 DEF Reuses
  <2> HIDE DEF p
  <2>2. OpenAIOK(e.st) /\ e.st.limit = s.limit /\ e.st.finish = s.finish /\ e.st.sawDone = s.sawDone
    BY <2>1, EmitCallIs
  <2>3. e.out = <<>> \/ e.out = <<EventOf(s.calls[p])>>
    <3>1. CASE s.calls[p].emitted  BY <3>1 DEF EmitCall, Goes
    <3>2. CASE ~ s.calls[p].emitted  BY <3>2 DEF EmitCall, Goes
    <3> QED BY <3>1, <3>2
  <2>4. EventOf(s.calls[p]).type \in PlainTypes  BY EventTypes DEF EventOf, PlainTypes
  <2>5. Plain(e.out)  BY <2>3, <2>4, PlainNone, PlainOne
  <2> HIDE DEF e
  <2>6. OpenAIOK(w) /\ w.limit = s.limit /\ w.finish = s.finish /\ w.sawDone = s.sawDone
    BY <2>2, WithCallIs
  <2> HIDE DEF w
  <2>7. a = Goes(w, e.out)  BY <1>2, AddressedIs DEF w, e, p
  <2> HIDE DEF a
  <2> QED BY <2>5, <2>6, <2>7 DEF Goes
<1>3. CASE d.index # Unnumbered /\ p = 0
  <2>1. a = Goes(WithCall(s, d), <<>>)  BY <1>3, AddressedIs
  <2> HIDE DEF a
  <2> QED BY <2>1, WithCallIs, PlainNone DEF Goes
<1>4. CASE d.index # Unnumbered /\ p # 0 /\ ~ Reuses(s, d)
  <2> DEFINE t == [s EXCEPT !.latest = p]
  <2>1. a = Goes(t, <<>>)  BY <1>4, AddressedIs
  <2>2. p \in 1..Len(s.calls) /\ Len(s.calls) \in Nat  BY <1>1, <1>4, CallsAre
  <2> HIDE DEF p
  <2>3. p \in Nat /\ p <= Len(s.calls)  BY <2>2
  <2>4. t \in OpenAISet /\ t.latest = p /\ t.calls = s.calls /\ t.limit = s.limit /\ t.finish = s.finish
        /\ t.sawDone = s.sawDone
    BY <2>3 DEF OpenAIOK, OpenAISet
  <2> HIDE DEF a, t
  <2> QED BY <2>1, <2>3, <2>4, PlainNone DEF Goes, OpenAIOK
<1>5. CASE d.index = Unnumbered /\ d.id # "none"
  <2> DEFINE e == EmitAll(s)
             w == WithCall(e.st, d)
  <2>1. OpenAIOK(e.st) /\ e.st.limit = s.limit /\ e.st.finish = s.finish /\ e.st.sawDone = s.sawDone /\ Plain(e.out)
    BY EmitAllIs
  <2> HIDE DEF e
  <2>2. OpenAIOK(w) /\ w.limit = s.limit /\ w.finish = s.finish /\ w.sawDone = s.sawDone
    BY <2>1, WithCallIs
  <2> HIDE DEF w
  <2>3. a = Goes(w, e.out)  BY <1>5, AddressedIs DEF w, e
  <2> HIDE DEF a
  <2> QED BY <2>1, <2>2, <2>3 DEF Goes
<1>6. CASE d.index = Unnumbered /\ d.id = "none"
  <2>1. a = Goes(s, <<>>)  BY <1>6, AddressedIs
  <2> HIDE DEF a
  <2> QED BY <2>1, PlainNone DEF Goes
<1> HIDE DEF a, p, Ok
<1> QED BY <1>2, <1>3, <1>4, <1>5, <1>6

(* A delta read: its call has the id and the fragment as well, unless the   *)
(* bound is reached.                                                        *)
Named(c, d) == [c EXCEPT !.id = IF @ = "none" THEN d.id ELSE @]

LEMMA ToolDeltaIs ==
  ASSUME NEW s, OpenAIOK(s), NEW d \in DeltaSet
  PROVE  LET a == Addressed(s, d)
             r == OnToolDelta(s, d)
             p == a.st.latest
             n == Named(a.st.calls[p], d)
         IN \/ p = 0 /\ r = a
            \/ /\ p \in 1..Len(a.st.calls)
               /\ OpenAIOK(r.st) /\ r.st.limit = s.limit /\ r.st.latest = p
               /\ r.st.finish = s.finish /\ r.st.sawDone = s.sawDone
               /\ Len(r.st.calls) = Len(a.st.calls)
               /\ \A q \in 1..Len(a.st.calls) : q # p => r.st.calls[q] = a.st.calls[q]
               /\ \/ /\ r.halt = TRUE /\ r.out = Append(a.out, BareError)
                     /\ r.st.calls[p] = n /\ r.st.pending = a.st.pending
                  \/ /\ r.halt = FALSE /\ r.out = a.out
                     /\ r.st.calls[p] = [n EXCEPT !.args = @ \o d.frag]
                     /\ r.st.pending = a.st.pending + Len(d.frag)
                     /\ d.frag = <<>> \/ r.st.pending <= s.limit
<1> DEFINE a == Addressed(s, d)
           p == a.st.latest
           c == a.st.calls[p]
           n == Named(c, d)
           m == [a.st EXCEPT !.calls[p].id = IF @ = "none" THEN d.id ELSE @]
           f == [m EXCEPT !.calls[p].args = @ \o d.frag, !.pending = @ + Len(d.frag)]
           r == OnToolDelta(s, d)
           Same(t) == /\ OpenAIOK(t) /\ t.limit = s.limit /\ t.latest = p
                      /\ t.finish = s.finish /\ t.sawDone = s.sawDone
                      /\ Len(t.calls) = Len(a.st.calls)
                      /\ \A q \in 1..Len(a.st.calls) : q # p => t.calls[q] = a.st.calls[q]
<1>1. OpenAIOK(a.st) /\ a.st.limit = s.limit /\ a.st.finish = s.finish /\ a.st.sawDone = s.sawDone
  BY AddressedOK
<1>2. r = IF p = 0 THEN a
          ELSE IF d.frag = <<>> THEN Goes(m, a.out)
          ELSE IF m.pending + Len(d.frag) > s.limit THEN Stops(m, Append(a.out, BareError))
          ELSE Goes(f, a.out)
  BY DEF OnToolDelta
<1>3. CASE p = 0  BY <1>2, <1>3
<1>4. CASE p # 0
  <2>1. a.st \in OpenAISet /\ p \in 1..Len(a.st.calls) /\ a.st.calls \in Seq(CallSet) /\ Len(a.st.calls) \in Nat
    BY <1>1, <1>4 DEF OpenAIOK, OpenAISet
  <2>2. c \in CallSet /\ n \in CallSet /\ n.args = c.args
    <3>1. c \in CallSet  BY <2>1
    <3> HIDE DEF c
    <3>2. n \in CallSet /\ n.args = c.args  BY <3>1 DEF CallSet, DeltaSet, Named
    <3> QED BY <3>1, <3>2
  <2> DEFINE cs == [a.st.calls EXCEPT ![p] = n]
  <2>3. m = [a.st EXCEPT !.calls = cs]  BY <2>1 DEF Named, OpenAISet
  <2>4. cs \in Seq(CallSet) /\ Len(cs) = Len(a.st.calls) /\ cs[p] = n
        /\ \A q \in 1..Len(a.st.calls) : q # p => cs[q] = a.st.calls[q]
    <3> HIDE DEF n
    <3> QED BY <2>1, <2>2
  <2> HIDE DEF cs
  <2>5. m \in OpenAISet /\ m.calls = cs /\ m.pending = a.st.pending /\ m.latest = p /\ m.limit = a.st.limit
        /\ m.finish = a.st.finish /\ m.sawDone = a.st.sawDone
    <3> HIDE DEF m
    <3> QED BY <2>1, <2>3, <2>4 DEF OpenAISet
  <2>6. Same(m)
    <3> HIDE DEF m, a
    <3> QED BY <1>1, <2>1, <2>4, <2>5 DEF OpenAIOK
  <2>7. d.frag \in Seq(ArgFrags) /\ Len(d.frag) \in Nat  BY DEF DeltaSet
  <2> DEFINE e == [n EXCEPT !.args = @ \o d.frag]
             es == [m.calls EXCEPT ![p] = e]
             k == m.pending + Len(d.frag)
  <2>8. e \in CallSet
    <3> HIDE DEF n
    <3>1. n.args \in Seq(ArgFrags)  BY <2>2 DEF CallSet
    <3>4. n.args \o d.frag \in Seq(ArgFrags)  BY <2>7, <3>1
    <3>2. PICK x \in Seq(ArgFrags) : x = n.args \o d.frag  BY <3>4
    <3>3. e = [n EXCEPT !.args = x]  BY <3>2
    <3> HIDE DEF e
    <3> QED BY <2>2, <3>3 DEF CallSet
  <2>9. k \in Int /\ m.pending \in Int
    <3> HIDE DEF m
    <3> QED BY <2>5, <2>7 DEF OpenAISet
  <2>10. f = [m EXCEPT !.calls = es, !.pending = k]
    <3> HIDE DEF m, n
    <3> QED BY <2>1, <2>4, <2>5 DEF OpenAISet
  <2>11. es \in Seq(CallSet) /\ Len(es) = Len(a.st.calls) /\ es[p] = e
        /\ \A q \in 1..Len(a.st.calls) : q # p => es[q] = a.st.calls[q]
    <3> HIDE DEF e, m
    <3> QED BY <2>1, <2>4, <2>5, <2>8
  <2> HIDE DEF es, k
  <2>12. f \in OpenAISet /\ f.calls = es /\ f.pending = k /\ f.latest = p /\ f.limit = m.limit
         /\ f.finish = m.finish /\ f.sawDone = m.sawDone
    <3> HIDE DEF m, f
    <3> QED BY <2>5, <2>9, <2>10, <2>11 DEF OpenAISet
  <2>13. Same(f)
    <3> HIDE DEF m, a, f
    <3> QED BY <1>1, <2>1, <2>5, <2>11, <2>12 DEF OpenAIOK
  <2> HIDE DEF Same, m, f, a, c, n
  <2>14. CASE d.frag = <<>>
    <3>1. r = Goes(m, a.out)  BY <1>2, <1>4, <2>14
    <3>2. r.st = m /\ r.out = a.out /\ r.halt = FALSE  BY <3>1 DEF Goes
    <3>3. Len(d.frag) = 0 /\ n.args \o d.frag = n.args
      <4>1. n.args \in Seq(ArgFrags)  BY <2>2 DEF CallSet
      <4> QED BY <2>14, <4>1
    <3>4. n = [n EXCEPT !.args = @ \o d.frag]  BY <2>2, <3>3 DEF CallSet
    <3>5. r.st.pending = a.st.pending + Len(d.frag)  BY <2>5, <2>9, <3>2, <3>3
    <3> HIDE DEF r
    <3> QED BY <2>1, <2>4, <2>5, <2>6, <2>14, <3>2, <3>4, <3>5 DEF Same, r, a, c, n
  <2>15. CASE d.frag # <<>> /\ m.pending + Len(d.frag) > s.limit
    <3>1. r = Stops(m, Append(a.out, BareError))  BY <1>2, <1>4, <2>15
    <3>2. r.st = m /\ r.out = Append(a.out, BareError) /\ r.halt = TRUE  BY <3>1 DEF Stops
    <3> HIDE DEF r
    <3> QED BY <2>1, <2>4, <2>5, <2>6, <3>2 DEF Same, r, a, c, n
  <2>16. CASE d.frag # <<>> /\ ~ (m.pending + Len(d.frag) > s.limit)
    <3>1. r = Goes(f, a.out)  BY <1>2, <1>4, <2>16
    <3>2. r.st = f /\ r.out = a.out /\ r.halt = FALSE  BY <3>1 DEF Goes
    <3>3. f.pending = a.st.pending + Len(d.frag) /\ s.limit \in Nat /\ f.pending <= s.limit
      <4>1. s.limit \in Nat  BY DEF OpenAIOK, OpenAISet
      <4> QED BY <2>5, <2>9, <2>12, <2>16, <4>1 DEF k
    <3> HIDE DEF r
    <3> QED BY <2>1, <2>11, <2>12, <2>13, <3>2, <3>3 DEF Same, r, a, c, n
  <2> QED BY <2>14, <2>15, <2>16
<1> QED BY <1>3, <1>4

(* The same, without what became of the call.                               *)
LEMMA ToolDeltaYields ==
  ASSUME NEW s, OpenAIOK(s), NEW d \in DeltaSet
  PROVE  LET a == Addressed(s, d)
             r == OnToolDelta(s, d)
         IN r = a \/ ( /\ OpenAIOK(r.st) /\ r.st.limit = s.limit /\ r.st.finish = s.finish
                       /\ r.st.sawDone = s.sawDone
                       /\ \/ r.halt = FALSE /\ r.out = a.out
                          \/ r.halt = TRUE /\ r.out = Append(a.out, BareError) )
<1> DEFINE a == Addressed(s, d)
           r == OnToolDelta(s, d)
           p == a.st.latest
           n == Named(a.st.calls[p], d)
           e == [n EXCEPT !.args = @ \o d.frag]
<1>1. \/ p = 0 /\ r = a
      \/ /\ p \in 1..Len(a.st.calls)
         /\ OpenAIOK(r.st) /\ r.st.limit = s.limit /\ r.st.latest = p
         /\ r.st.finish = s.finish /\ r.st.sawDone = s.sawDone
         /\ Len(r.st.calls) = Len(a.st.calls)
         /\ \A q \in 1..Len(a.st.calls) : q # p => r.st.calls[q] = a.st.calls[q]
         /\ \/ /\ r.halt = TRUE /\ r.out = Append(a.out, BareError)
               /\ r.st.calls[p] = n /\ r.st.pending = a.st.pending
            \/ /\ r.halt = FALSE /\ r.out = a.out
               /\ r.st.calls[p] = e
               /\ r.st.pending = a.st.pending + Len(d.frag)
               /\ d.frag = <<>> \/ r.st.pending <= s.limit
  <2>1. PICK x : x = s  OBVIOUS
  <2>2. OpenAIOK(x)  BY <2>1
  <2> QED BY ToolDeltaIs, Zenon
<1> HIDE DEF e, n, p
<1> QED BY <1>1, Zenon DEF r, a

(* A chunk as the providers send it: at most one tool delta.                *)
IsChunk(l) ==
    /\ l.type = "chunk" /\ l.usage \in BOOLEAN /\ l.finish \in Finishes
    /\ IsSeq(l.reasoning) /\ IsSeq(l.text)
    /\ l.calls \in Seq(DeltaSet) /\ Len(l.calls) <= 1

Told(s, l) == [s EXCEPT !.usage = @ \/ l.usage]
Said(l)    == [i \in DOMAIN l.reasoning |-> Thinking(l.reasoning[i])]
              \o [i \in DOMAIN l.text |-> Content(l.text[i])]

LEMMA ToldIs ==
  ASSUME NEW s, OpenAIOK(s), NEW l
  PROVE  LET t == Told(s, l)
         IN /\ OpenAIOK(t) /\ t.calls = s.calls /\ t.pending = s.pending /\ t.latest = s.latest
            /\ t.limit = s.limit /\ t.finish = s.finish /\ t.sawDone = s.sawDone
<1>1. (s.usage \/ l.usage) \in BOOLEAN  BY Zenon
<1>2. PICK u \in BOOLEAN : u = (s.usage \/ l.usage)  BY <1>1
<1> DEFINE t == [s EXCEPT !.usage = u]
<1>3. Told(s, l) = t  BY <1>2 DEF Told
<1>4. s \in OpenAISet /\ s.latest <= Len(s.calls)  BY DEF OpenAIOK
<1>5. t \in OpenAISet /\ t.calls = s.calls /\ t.pending = s.pending /\ t.latest = s.latest
      /\ t.limit = s.limit /\ t.finish = s.finish /\ t.sawDone = s.sawDone
  BY <1>4 DEF OpenAISet
<1> HIDE DEF t
<1> QED BY <1>3, <1>4, <1>5 DEF OpenAIOK

LEMMA SaidIsPlain ==
  ASSUME NEW l, IsSeq(l.reasoning), IsSeq(l.text)
  PROVE  Plain(Said(l)) /\ \A e \in Range(Said(l)) : e.type \in {"content", "thinking"}
<1> DEFINE a == [i \in DOMAIN l.reasoning |-> Thinking(l.reasoning[i])]
           b == [i \in DOMAIN l.text |-> Content(l.text[i])]
           A == {Thinking(l.reasoning[i]) : i \in DOMAIN l.reasoning}
           B == {Content(l.text[i]) : i \in DOMAIN l.text}
<1>1. \A e \in A \cup B : e.type \in {"content", "thinking"}  BY EventTypes
<1>2. Len(l.reasoning) \in Nat /\ DOMAIN l.reasoning = 1..Len(l.reasoning)
      /\ Len(l.text) \in Nat /\ DOMAIN l.text = 1..Len(l.text)
  BY OwnSeq
<1>3. \A i \in DOMAIN l.reasoning : Thinking(l.reasoning[i]) \in A  OBVIOUS
<1>4. \A i \in DOMAIN l.text : Content(l.text[i]) \in B  OBVIOUS
<1> HIDE DEF A, B
<1>5. a \in Seq(A)  BY <1>2, <1>3
<1>6. b \in Seq(B)  BY <1>2, <1>4
<1>7. Said(l) = a \o b  BY DEF Said
<1> HIDE DEF a, b
<1>8. IsSeq(a) /\ Range(a) \subseteq A /\ IsSeq(b) /\ Range(b) \subseteq B  BY <1>5, <1>6, SeqOfOwn
<1>9. IsSeq(Said(l)) /\ Range(Said(l)) = Range(a) \cup Range(b)  BY <1>7, <1>8, ConcatSeq
<1>10. \A e \in Range(Said(l)) : e.type \in {"content", "thinking"}  BY <1>1, <1>8, <1>9
<1> QED BY <1>9, <1>10 DEF Plain, PlainTypes

LEMMA NoneOrOne == ASSUME NEW n \in Nat, n <= 1 PROVE n = 0 \/ n = 1
OBVIOUS

(* What is read of a chunk before its finish reason.                        *)
ReadOf(s, l) == ReadDeltas(Told(s, l), Said(l), l.calls)

LEMMA ReadOfIs ==
  ASSUME NEW s, OpenAIOK(s), NEW l, IsChunk(l)
  PROVE  LET r == ReadOf(s, l)
             t == OnToolDelta(Told(s, l), l.calls[1])
         IN \/ l.calls = <<>> /\ r = Goes(Told(s, l), Said(l))
            \/ /\ Len(l.calls) = 1 /\ l.calls[1] \in DeltaSet
               /\ r.st = t.st /\ r.halt = t.halt /\ r.out = Said(l) \o t.out
<1>1. l.calls \in Seq(DeltaSet) /\ Len(l.calls) \in Nat /\ Len(l.calls) <= 1  BY DEF IsChunk
<1>2. CASE Len(l.calls) = 0
  <2>1. l.calls = <<>>  BY <1>1, <1>2
  <2> QED BY <1>2, <2>1, NoDeltas DEF ReadOf
<1>3. CASE Len(l.calls) = 1
  <2> DEFINE d == l.calls[1]
             u == Told(s, l)
             t == OnToolDelta(u, d)
             r == ReadOf(s, l)
  <2>1. d \in DeltaSet  BY <1>1, <1>3
  <2>2. r = [t EXCEPT !.out = Said(l) \o @]
    <3>1. PICK v : v = Told(s, l)  OBVIOUS
    <3>2. PICK q : q = Said(l)  OBVIOUS
    <3>3. PICK ds : ds = l.calls  OBVIOUS
    <3>4. Len(ds) = 1  BY <1>3, <3>3
    <3>5. ReadDeltas(v, q, ds) = [OnToolDelta(v, ds[1]) EXCEPT !.out = q \o @]  BY ONLY <3>4, OneDelta
    <3> QED BY <3>1, <3>2, <3>3, <3>5 DEF ReadOf
  <2>3. DOMAIN t = {"st", "out", "halt"}
    <3>1. \A x, q : DOMAIN Goes(x, q) = {"st", "out", "halt"} /\ DOMAIN Stops(x, q) = {"st", "out", "halt"}
      BY DEF Goes, Stops
    <3>2. \E x, q : Addressed(u, d) = Goes(x, q)
      <4> HIDE DEF u, d
      <4> QED BY SMT DEF Addressed
    <3>3. \E x, q : t = Goes(x, q) \/ t = Stops(x, q)  BY <3>2, Zenon DEF OnToolDelta
    <3> HIDE DEF t
    <3> QED BY <3>1, <3>3
  <2> HIDE DEF t, r
  <2>4. r.st = t.st /\ r.halt = t.halt /\ r.out = Said(l) \o t.out  BY <2>2, <2>3
  <2>5. /\ ReadOf(s, l).st = OnToolDelta(Told(s, l), l.calls[1]).st
        /\ ReadOf(s, l).halt = OnToolDelta(Told(s, l), l.calls[1]).halt
        /\ ReadOf(s, l).out = Said(l) \o OnToolDelta(Told(s, l), l.calls[1]).out
    BY <2>4 DEF t, r
  <2> HIDE DEF u, d
  <2> QED BY <1>3, <2>1, <2>5 DEF d
<1>4. PICK cs : cs = l.calls  OBVIOUS
<1>5. Len(cs) \in Nat /\ Len(cs) <= 1  BY <1>1, <1>4
<1>6. Len(cs) = 0 \/ Len(cs) = 1  BY <1>5, NoneOrOne
<1> QED BY <1>2, <1>3, <1>4, <1>6, Zenon

LEMMA ChunkIs ==
  ASSUME NEW s, NEW l
  PROVE  LET r == ReadOf(s, l)
             e == EmitAll([r.st EXCEPT !.finish = l.finish])
         IN OnChunk(s, l) = IF r.halt \/ l.finish = "none" THEN r ELSE Goes(e.st, r.out \o e.out)
BY DEF OnChunk, ReadOf, Told, Said

LEMMA ReadOfWell ==
  ASSUME NEW s, OpenAIOK(s), NEW l, IsChunk(l)
  PROVE  LET r == ReadOf(s, l)
         IN /\ HandledWell(r) /\ ~ EndsTurn(r) /\ (~ r.halt => Plain(r.out)) /\ OpenAIOK(r.st)
            /\ r.st.limit = s.limit /\ r.st.finish = s.finish /\ r.st.sawDone = s.sawDone
<1> DEFINE u == Told(s, l)
           r == ReadOf(s, l)
           d == l.calls[1]
           a == Addressed(u, d)
           t == OnToolDelta(u, d)
<1>1. OpenAIOK(u) /\ u.limit = s.limit /\ u.finish = s.finish /\ u.sawDone = s.sawDone  BY ToldIs
<1>2. Plain(Said(l)) /\ IsSeq(Said(l))  BY SaidIsPlain DEF IsChunk, Plain
<1>3. CASE r = Goes(u, Said(l))
  <2> HIDE DEF u, r
  <2>1. r.st = u /\ r.out = Said(l) /\ r.halt = FALSE  BY <1>3 DEF Goes
  <2>2. HandledWell(r) /\ ~ EndsTurn(r)  BY <1>2, <1>3, GoesWell
  <2> QED BY <1>1, <1>2, <2>1, <2>2 DEF r
<1>4. CASE d \in DeltaSet /\ r.st = t.st /\ r.halt = t.halt /\ r.out = Said(l) \o t.out
  <2> HIDE DEF u, d
  <2>1. a.halt = FALSE /\ OpenAIOK(a.st) /\ Plain(a.out) /\ a.st.limit = u.limit
        /\ a.st.finish = u.finish /\ a.st.sawDone = u.sawDone
    BY <1>1, <1>4, AddressedOK
  <2>2. /\ OpenAIOK(t.st) /\ t.st.limit = u.limit /\ t.st.finish = u.finish /\ t.st.sawDone = u.sawDone
        /\ \/ t.halt = FALSE /\ t.out = a.out
           \/ t.halt = TRUE /\ t.out = Append(a.out, BareError)
    <3>1. t = a \/ ( /\ OpenAIOK(t.st) /\ t.st.limit = u.limit /\ t.st.finish = u.finish
                     /\ t.st.sawDone = u.sawDone
                     /\ \/ t.halt = FALSE /\ t.out = a.out
                        \/ t.halt = TRUE /\ t.out = Append(a.out, BareError) )
      BY <1>1, <1>4, ToolDeltaYields
    <3> QED BY <2>1, <3>1
  <2> HIDE DEF a, t, r
  <2>3. CASE t.halt = FALSE /\ t.out = a.out
    <3>1. Plain(r.out)  BY <1>2, <1>4, <2>1, <2>3, PlainConcat
    <3>2. HandledWell(r) /\ ~ EndsTurn(r)  BY <1>4, <2>3, <3>1 DEF HandledWell, EndsTurn
    <3> QED BY <1>1, <1>4, <2>2, <3>1, <3>2 DEF r
  <2>4. CASE t.halt = TRUE /\ t.out = Append(a.out, BareError)
    <3>1. Ending(t.out) /\ IsSeq(a.out)  BY <2>1, <2>4, EventTypes, EndingAppend DEF EndTypes, Plain
    <3>2. Len(t.out) = Len(a.out) + 1 /\ t.out[Len(a.out) + 1] = BareError  BY <2>4, <3>1, AppendSeq
    <3>3. Ending(r.out)  BY <1>2, <1>4, <3>1, EndingConcat
    <3>4. Len(r.out) = Len(Said(l)) + Len(t.out) /\ Len(t.out) \in 1..Len(t.out)
          /\ r.out[Len(Said(l)) + Len(t.out)] = t.out[Len(t.out)]
      <4>1. Len(a.out) \in Nat /\ IsSeq(t.out)  BY <3>1, OwnSeq DEF Ending
      <4>2. Len(t.out) \in 1..Len(t.out)  BY <3>2, <4>1
      <4> QED BY <1>2, <1>4, <4>1, <4>2, ConcatSeq
    <3>5. r.out[Len(r.out)].type # "done"  BY <3>2, <3>4, EventTypes
    <3>6. HandledWell(r) /\ ~ EndsTurn(r)  BY <1>4, <2>4, <3>3, <3>5 DEF HandledWell, EndsTurn
    <3> QED BY <1>1, <1>4, <2>2, <2>4, <3>6 DEF r
  <2> QED BY <2>2, <2>3, <2>4
<1>5. \/ r = Goes(u, Said(l))
      \/ d \in DeltaSet /\ r.st = t.st /\ r.halt = t.halt /\ r.out = Said(l) \o t.out
  BY ReadOfIs
<1> QED BY <1>3, <1>4, <1>5

LEMMA FinishedIs ==
  ASSUME NEW s, OpenAIOK(s), NEW f \in Finishes
  PROVE  LET t == [s EXCEPT !.finish = f]
         IN /\ OpenAIOK(t) /\ t.calls = s.calls /\ t.limit = s.limit /\ t.pending = s.pending
            /\ t.finish = f /\ t.sawDone = s.sawDone /\ t.latest = s.latest
<1> DEFINE t == [s EXCEPT !.finish = f]
<1>1. s \in OpenAISet  BY DEF OpenAIOK
<1>2. t \in OpenAISet /\ t.calls = s.calls /\ t.limit = s.limit /\ t.pending = s.pending
      /\ t.finish = f /\ t.sawDone = s.sawDone /\ t.latest = s.latest
  BY <1>1 DEF OpenAISet
<1> HIDE DEF t
<1>3. OpenAIOK(t)  BY <1>2 DEF OpenAIOK
<1> QED BY <1>2, <1>3 DEF t

LEMMA ChunkWell ==
  ASSUME NEW s, OpenAIOK(s), NEW l, IsChunk(l)
  PROVE  LET r == OnChunk(s, l)
         IN /\ HandledWell(r) /\ ~ EndsTurn(r) /\ OpenAIOK(r.st) /\ r.st.limit = s.limit
            /\ r.st.sawDone = s.sawDone
            /\ r.st.finish = s.finish \/ (l.finish # "none" /\ r.st.finish = l.finish)
<1> DEFINE q == ReadOf(s, l)
           e == EmitAll([q.st EXCEPT !.finish = l.finish])
           r == OnChunk(s, l)
<1>1. /\ HandledWell(q) /\ ~ EndsTurn(q) /\ (~ q.halt => Plain(q.out)) /\ OpenAIOK(q.st)
      /\ q.st.limit = s.limit /\ q.st.finish = s.finish /\ q.st.sawDone = s.sawDone
  BY ReadOfWell
<1>2. r = IF q.halt \/ l.finish = "none" THEN q ELSE Goes(e.st, q.out \o e.out)  BY ChunkIs
<1>3. CASE q.halt \/ l.finish = "none"  BY <1>1, <1>2, <1>3
<1>4. CASE ~ (q.halt \/ l.finish = "none")
  <2> DEFINE t == [q.st EXCEPT !.finish = l.finish]
  <2>1. OpenAIOK(t) /\ t.limit = s.limit /\ t.finish = l.finish /\ t.sawDone = s.sawDone
    <3>1. l.finish \in Finishes  BY DEF IsChunk
    <3> HIDE DEF q
    <3> QED BY <1>1, <3>1, FinishedIs
  <2> HIDE DEF t, q
  <2>2. OpenAIOK(e.st) /\ e.st.limit = s.limit /\ e.st.finish = l.finish /\ e.st.sawDone = s.sawDone /\ Plain(e.out)
    BY <2>1, EmitAllIs DEF t
  <2> HIDE DEF e
  <2>3. r = Goes(e.st, q.out \o e.out) /\ Plain(q.out)  BY <1>1, <1>2, <1>4
  <2>4. Plain(q.out \o e.out)  BY <2>2, <2>3, PlainConcat
  <2> HIDE DEF r
  <2>5. HandledWell(r) /\ ~ EndsTurn(r) /\ r.st = e.st
    <3>1. PICK x : x = q.out \o e.out  OBVIOUS
    <3>2. HandledWell(Goes(e.st, x)) /\ ~ EndsTurn(Goes(e.st, x))  BY <2>4, <3>1, GoesWell
    <3> QED BY <2>3, <3>1, <3>2 DEF Goes
  <2> QED BY <1>4, <2>2, <2>5 DEF r
<1> QED BY <1>3, <1>4

LEMMA OpenAIEndWell ==
  ASSUME NEW s, OpenAIOK(s)
  PROVE  LET r == OpenAIEnd(s)
         IN /\ HandledWell(r) /\ r.halt /\ OpenAIOK(r.st) /\ r.st.limit = s.limit
            /\ EndsTurn(r) => s.finish # "none" \/ s.sawDone
            /\ r.st.finish = s.finish /\ r.st.sawDone = s.sawDone
            /\ r.st = EmitAll(s).st
            /\ \E e : e.type \in {"done", "bare_error"} /\ r.out = Append(EmitAll(s).out, e)
<1> DEFINE all == EmitAll(s)
           f == IF s.finish # "none" THEN s.finish
                ELSE IF ~ s.sawDone THEN "none" ELSE IF all.st.anyCall THEN "tool" ELSE "end"
           e == IF f # "none" THEN Done(f, s.usage, <<>>) ELSE BareError
           r == OpenAIEnd(s)
<1>1. r = Stops(all.st, Append(all.out, e))  BY DEF OpenAIEnd
<1>2. OpenAIOK(all.st) /\ all.st.limit = s.limit /\ all.st.finish = s.finish /\ all.st.sawDone = s.sawDone
      /\ Plain(all.out)
  BY EmitAllIs
<1>3. f # "none" => s.finish # "none" \/ s.sawDone  OBVIOUS
<1> HIDE DEF f
<1>4. e.type \in {"done", "bare_error"} /\ (e.type = "done" => s.finish # "none" \/ s.sawDone)
  BY <1>3, EventTypes
<1> HIDE DEF e, all
<1>5. e.type \in EndTypes  BY <1>4 DEF EndTypes
<1>6. HandledWell(r) /\ (EndsTurn(r) <=> e.type = "done")  BY <1>1, <1>2, <1>5, StopsWell
<1>7. r.st = all.st /\ r.halt /\ r.out = Append(all.out, e)  BY <1>1 DEF Stops
<1> HIDE DEF r
<1> QED BY <1>2, <1>4, <1>6, <1>7 DEF r, all

(* The Chat Completions adapter's lines: what ends the turn is a finish     *)
(* reason or [DONE].                                                        *)
OpenAILineOK(l) == IsChunk(l) \/ l.type \in {"garbled", "[DONE]"}
Finished(s)     == s.finish # "none" \/ s.sawDone

LEMMA OpenAIHandles ==
  ASSUME NEW s, OpenAIOK(s), NEW l, OpenAILineOK(l)
  PROVE  LET r == OpenAILine(s, l)
         IN /\ HandledWell(r) /\ OpenAIOK(r.st) /\ r.st.limit = s.limit
            /\ EndsTurn(r) => Finished(r.st)
            /\ Finished(r.st) => \/ Finished(s) \/ l.type = "[DONE]"
                                 \/ l.type = "chunk" /\ l.finish # "none"
<1> DEFINE r == OpenAILine(s, l)
<1>1. CASE IsChunk(l)
  <2>1. r = OnChunk(s, l)  BY <1>1 DEF OpenAILine, IsChunk
  <2> HIDE DEF r
  <2> QED BY <1>1, <2>1, ChunkWell DEF Finished, IsChunk, r
<1>2. CASE l.type = "garbled"
  <2> DEFINE q == IF s.finish # "none" THEN <<>> ELSE <<BareError>>
  <2>1. r = Goes(s, q)  BY <1>2 DEF OpenAILine
  <2>2. HandledWell(Goes(s, q)) /\ ~ EndsTurn(Goes(s, q))
    <3>1. q = <<>> \/ q = <<BareError>>  OBVIOUS
    <3> HIDE DEF q
    <3>2. CASE q = <<>>  BY <3>2, PlainNone, GoesWell
    <3>3. CASE q = <<BareError>>  BY <3>3, GoesOnAfterError
    <3> QED BY <3>1, <3>2, <3>3
  <2>3. r.st = s  BY <2>1 DEF Goes
  <2> HIDE DEF r
  <2> QED BY <2>1, <2>2, <2>3 DEF r
<1>3. CASE l.type = "[DONE]"
  <2> DEFINE t == [s EXCEPT !.sawDone = TRUE]
  <2>1. s \in OpenAISet  BY DEF OpenAIOK
  <2>2. t \in OpenAISet /\ t.calls = s.calls /\ t.latest = s.latest /\ t.limit = s.limit /\ t.sawDone
    BY <2>1 DEF OpenAISet
  <2> HIDE DEF t
  <2>3. OpenAIOK(t)  BY <2>2 DEF OpenAIOK
  <2>4. r = OpenAIEnd(t)  BY <1>3 DEF OpenAILine, IsChunk, t
  <2> HIDE DEF r
  <2>5. HandledWell(r) /\ OpenAIOK(r.st) /\ r.st.limit = t.limit /\ r.st.sawDone = t.sawDone
    BY <2>3, <2>4, OpenAIEndWell
  <2> QED BY <1>3, <2>2, <2>5 DEF Finished, r
<1> QED BY <1>1, <1>2, <1>3 DEF OpenAILineOK

-----------------------------------------------------------------------------
(* The Responses and the Gemini adapter.                                    *)
ResponsesTypes ==
    {"text_delta", "reasoning_delta", "item_added", "args_delta", "args_done", "terminal", "error",
     "garbled"}

LEMMA ResponsesHandles ==
  ASSUME NEW s, NEW l, l.type \in ResponsesTypes
  PROVE  LET r == ResponsesLine(s, l)
         IN HandledWell(r) /\ (EndsTurn(r) => l.type = "terminal")
<1> DEFINE r == ResponsesLine(s, l)
<1> SUFFICES HandledWell(r) /\ (EndsTurn(r) => l.type = "terminal")  OBVIOUS
<1>1. CASE l.type = "text_delta"
  <2>1. r = Goes(s, <<Content(l.frag)>>)  BY <1>1 DEF ResponsesLine
  <2> HIDE DEF r
  <2> QED BY <2>1, GoesWell, PlainOne, EventTypes DEF PlainTypes
<1>2. CASE l.type = "reasoning_delta"
  <2>1. r = Goes(s, <<Thinking(l.frag)>>)  BY <1>2 DEF ResponsesLine
  <2> HIDE DEF r
  <2> QED BY <2>1, GoesWell, PlainOne, EventTypes DEF PlainTypes
<1>3. CASE l.type = "item_added"
  <2>1. \E t : r = Goes(t, <<>>)  BY <1>3 DEF ResponsesLine, OnItemAdded
  <2> HIDE DEF r
  <2> QED BY <2>1, GoesWell, PlainNone
<1>4. CASE l.type = "args_delta"
  <2>1. r = OnArgsDelta(s, l)  BY <1>4 DEF ResponsesLine
  <2>2. (\E t : r = Goes(t, <<>>)) \/ (\E t : r = Stops(t, <<BareError>>))  BY <2>1, Zenon DEF OnArgsDelta
  <2> HIDE DEF r
  <2> QED BY <2>2, GoesWell, PlainNone, StopsWithOne, EventTypes DEF EndTypes
<1>5. CASE l.type = "args_done"
  <2>1. r = OnArgsDone(s, l)  BY <1>5 DEF ResponsesLine
  <2>2. \E t, c : r = Goes(t, <<ToolUse(c)>>)  BY <2>1 DEF OnArgsDone
  <2> HIDE DEF r
  <2> QED BY <2>2, GoesWell, PlainOne, EventTypes DEF PlainTypes
<1>6. CASE l.type = "terminal"
  <2>1. PICK e : e = Done(StopReason(l.status, s.anyCall), TRUE, <<>>)  OBVIOUS
  <2>2. r = Stops(s, <<e>>) /\ e.type \in EndTypes  BY <1>6, <2>1, EventTypes DEF ResponsesLine, EndTypes
  <2> HIDE DEF r
  <2> QED BY <1>6, <2>2, StopsWithOne
<1>7. CASE l.type = "error"
  <2>1. r = Stops(s, <<BareError>>)  BY <1>7 DEF ResponsesLine
  <2> HIDE DEF r
  <2> QED BY <2>1, StopsWithOne, EventTypes DEF EndTypes
<1>8. CASE l.type = "garbled"
  <2>1. r = Goes(s, <<BareError>>)  BY <1>8 DEF ResponsesLine
  <2> HIDE DEF r
  <2> QED BY <2>1, GoesOnAfterError
<1> HIDE DEF r
<1> QED BY <1>1, <1>2, <1>3, <1>4, <1>5, <1>6, <1>7, <1>8 DEF ResponsesTypes

LEMMA BareEnd ==
  ASSUME NEW s
  PROVE  LET r == Stops(s, <<BareError>>) IN HandledWell(r) /\ ~ EndsTurn(r) /\ r.halt
BY StopsWithOne, EventTypes DEF EndTypes, Stops

LEMMA GeminiEventTypes ==
  ASSUME NEW p, NEW n PROVE GeminiEvent(p, n).type \in {"content", "thinking", "tool_use"}
<1>1. CASE p.kind = "text"  BY <1>1, EventTypes DEF GeminiEvent
<1>2. CASE p.kind = "thinking"  BY <1>2, EventTypes DEF GeminiEvent
<1>3. CASE p.kind # "text" /\ p.kind # "thinking"
  <2>1. GeminiEvent(p, n) = ToolUse(GeminiCall(n, p.id))  BY <1>3 DEF GeminiEvent
  <2> QED BY <2>1, EventTypes
<1> QED BY <1>1, <1>2, <1>3

(* What a Gemini chunk yields for its parts.                                *)
GeminiRead(s, l) ==
    LET tooLong(k) == l.parts[k].kind = "tool" /\ ArgsFragments > s.limit
    IN Cardinality({k \in DOMAIN l.parts : \A j \in 1..k : ~ tooLong(j)})
GeminiOut(s, l) ==
    [k \in 1..GeminiRead(s, l) |-> GeminiEvent(l.parts[k], s.next + CallsAmong(l.parts, k - 1))]

LEMMA GeminiReads ==
  ASSUME NEW s, NEW l, IsSeq(l.parts)
  PROVE  GeminiRead(s, l) \in Nat /\ GeminiRead(s, l) <= Len(l.parts)
<1> DEFINE T == {k \in DOMAIN l.parts : \A j \in 1..k : ~ (l.parts[j].kind = "tool" /\ ArgsFragments > s.limit)}
<1>1. Len(l.parts) \in Nat /\ DOMAIN l.parts = 1..Len(l.parts)  BY OwnSeq
<1>2. IsFiniteSet(1..Len(l.parts)) /\ Cardinality(1..Len(l.parts)) = Len(l.parts)
  <2>1. PICK n \in Nat : n = Len(l.parts)  BY <1>1
  <2>2. IsFiniteSet(1..n) /\ Cardinality(1..n) = n
    BY FS_Interval
  <2> QED BY <2>1, <2>2
<1>3. T \in SUBSET (1..Len(l.parts))  BY <1>1
<1>4. GeminiRead(s, l) = Cardinality(T)  BY DEF GeminiRead
<1> HIDE DEF T
<1>5. IsFiniteSet(T) /\ Cardinality(T) <= Cardinality(1..Len(l.parts))  BY <1>2, <1>3, FS_Subset
<1>6. Cardinality(T) \in Nat  BY <1>5, FS_CardinalityType
<1> QED BY <1>2, <1>4, <1>5, <1>6

LEMMA GeminiYields ==
  ASSUME NEW s, NEW l, IsSeq(l.parts)
  PROVE  /\ Plain(GeminiOut(s, l)) /\ Len(GeminiOut(s, l)) = GeminiRead(s, l)
         /\ \A e \in Range(GeminiOut(s, l)) : e.type \in {"content", "thinking", "tool_use"}
<1> DEFINE n == GeminiRead(s, l)
           f(k) == GeminiEvent(l.parts[k], s.next + CallsAmong(l.parts, k - 1))
           E == {f(k) : k \in 1..n}
           q == [k \in 1..n |-> f(k)]
<1>1. n \in Nat  BY GeminiReads
<1>2. \A e \in E : e.type \in {"content", "thinking", "tool_use"}  BY GeminiEventTypes
<1>3. \A k \in 1..n : f(k) \in E  OBVIOUS
<1>4. GeminiOut(s, l) = q  BY DEF GeminiOut
<1> HIDE DEF E, f, n
<1>5. q \in Seq(E) /\ Len(q) = n  BY <1>1, <1>3
<1> HIDE DEF q
<1>6. IsSeq(q) /\ Range(q) \subseteq E  BY <1>5, SeqOfOwn
<1>7. \A e \in Range(q) : e.type \in {"content", "thinking", "tool_use"}  BY <1>2, <1>6
<1>8. Plain(q)  BY <1>6, <1>7 DEF Plain, PlainTypes
<1> QED BY <1>4, <1>5, <1>7, <1>8 DEF n

LEMMA GeminiChunkWell ==
  ASSUME NEW s, NEW l, IsSeq(l.parts)
  PROVE  LET r == OnGeminiChunk(s, l)
         IN HandledWell(r) /\ (EndsTurn(r) => l.finish # "none")
<1> DEFINE r == OnGeminiChunk(s, l)
           read == GeminiRead(s, l)
           q == GeminiOut(s, l)
           st == [s EXCEPT !.usage = @ \/ l.usage, !.next = @ + CallsAmong(l.parts, read)]
           e == Done(Inferred(l.finish, st.next), st.usage, <<>>)
<1>1. r = IF read < Len(l.parts) THEN Stops(st, Append(q, BareError))
          ELSE IF l.finish = "none" THEN Goes(st, q) ELSE Stops(st, Append(q, e))
  BY DEF OnGeminiChunk, GeminiRead, GeminiOut
<1>2. Plain(q)  BY GeminiYields
<1>3. e.type = "done" /\ BareError.type = "bare_error"  BY EventTypes
<1> HIDE DEF q, st, e, r, read
<1>4. CASE read < Len(l.parts)
  <2>1. r = Stops(st, Append(q, BareError))  BY <1>1, <1>4
  <2> QED BY <1>2, <1>3, <2>1, StopsWell DEF EndTypes, r
<1>5. CASE ~ (read < Len(l.parts)) /\ l.finish = "none"
  <2>1. r = Goes(st, q)  BY <1>1, <1>5
  <2> QED BY <1>2, <2>1, GoesWell DEF r
<1>6. CASE ~ (read < Len(l.parts)) /\ l.finish # "none"
  <2>1. r = Stops(st, Append(q, e))  BY <1>1, <1>6
  <2> QED BY <1>2, <1>3, <1>6, <2>1, StopsWell DEF EndTypes, r
<1> QED BY <1>4, <1>5, <1>6

LEMMA GeminiHandles ==
  ASSUME NEW s, NEW l, l.type = "garbled" \/ (l.type = "chunk" /\ IsSeq(l.parts))
  PROVE  LET r == GeminiLine(s, l)
         IN HandledWell(r) /\ (EndsTurn(r) => l.type = "chunk" /\ l.finish # "none")
<1> DEFINE r == GeminiLine(s, l)
<1>1. CASE l.type = "garbled"
  <2>1. r = Goes(s, <<BareError>>)  BY <1>1 DEF GeminiLine
  <2> HIDE DEF r
  <2> QED BY <2>1, GoesOnAfterError DEF r
<1>2. CASE l.type = "chunk" /\ IsSeq(l.parts)
  <2>1. r = OnGeminiChunk(s, l)  BY <1>2 DEF GeminiLine
  <2> HIDE DEF r
  <2> QED BY <1>2, <2>1, GeminiChunkWell DEF r
<1> QED BY <1>1, <1>2

-----------------------------------------------------------------------------
(* The lines of a reply. What a stream is stays as it was set up.           *)
SettingOK ==
    /\ provider \in Providers /\ quirk \in Quirks(provider) /\ wrapped \in BOOLEAN
    /\ reply.kinds \in Turns /\ Speaks(provider, reply.kinds)
    /\ reply.stop \in StopsOf(reply.kinds)

LEMMA SettingIs ==
  ASSUME SettingOK
  PROVE  /\ provider \in Adapters
         /\ quirk \in {"none", "noindex", "index0", "noitem", "bare_done", "together"}
         /\ reply.kinds \in Seq(Kinds) /\ Len(reply.kinds) \in Nat
         /\ DOMAIN reply.kinds = 1..Len(reply.kinds)
         /\ \A i \in DOMAIN reply.kinds : reply.kinds[i] \in Kinds /\ BlockIDs[i] \in Range(BlockIDs)
         /\ reply.stop \in {"tool", "end", "max"}
         /\ Groups = 0..(Len(reply.kinds) + 1)
         /\ DOMAIN reply.kinds \subseteq Groups
<1>1. provider \in Adapters  BY StreamAssumption DEF SettingOK
<1>2. quirk \in {"none", "noindex", "index0", "noitem", "bare_done", "together"}
  BY SMT DEF SettingOK, Quirks
<1>3. reply.kinds \in Seq(Kinds) /\ DOMAIN reply.kinds \subseteq DOMAIN BlockIDs
  BY StreamAssumption DEF SettingOK
<1>4. PICK ks \in Seq(Kinds) : ks = reply.kinds  BY <1>3
<1>5. Len(ks) \in Nat /\ DOMAIN ks = 1..Len(ks) /\ \A i \in DOMAIN ks : ks[i] \in Kinds  OBVIOUS
<1>6. \A i \in DOMAIN ks : BlockIDs[i] \in Range(BlockIDs)  BY <1>3, <1>4 DEF Range
<1>7. reply.stop \in {"tool", "end", "max"}  BY SMT DEF SettingOK, StopsOf
<1>8. Groups = 0..(Len(ks) + 1) /\ DOMAIN ks \subseteq 0..(Len(ks) + 1)  BY <1>4, <1>5 DEF Groups
<1> QED BY <1>1, <1>2, <1>4, <1>5, <1>6, <1>7, <1>8

LEMMA BlockIs ==
  ASSUME NEW g \in DOMAIN reply.kinds
  PROVE  /\ Blocks[g].kind = reply.kinds[g]
         /\ Blocks[g].id = IF provider = "gemini" THEN "f" ELSE BlockIDs[g]
         /\ Blocks[g].frags = [k \in 1..TextFragments |-> <<BlockIDs[g], k>>]
BY DEF Blocks, BlockOf

(* A line is one its adapter knows; endsTurn: it ends the turn.             *)
LineOK(l) ==
    CASE provider = "anthropic" -> l.type \in AnthropicTypes
      [] provider = "openai"    -> OpenAILineOK(l)
      [] provider = "responses" -> l.type \in ResponsesTypes
      [] provider = "gemini"    -> l.type = "garbled" \/ (l.type = "chunk" /\ IsSeq(l.parts))
Terminal(l) ==
    CASE provider = "anthropic" -> l.type = "message_delta"
      [] provider = "openai"    -> l.type = "[DONE]" \/ (l.type = "chunk" /\ l.finish # "none")
      [] provider = "responses" -> l.type = "terminal"
      [] provider = "gemini"    -> l.type = "chunk" /\ l.finish # "none"

LEMMA AnthropicBlockLines ==
  ASSUME SettingOK, provider = "anthropic", NEW g \in DOMAIN reply.kinds
  PROVE  /\ IsSeq(BlockLines(g))
         /\ \A k \in 1..Len(BlockLines(g)) : LineOK(BlockLines(g)[k]) /\ ~ Terminal(BlockLines(g)[k])
<1> DEFINE b == Blocks[g]
           n == CASE b.kind \in {"text", "thinking"} -> TextFragments
                  [] b.kind \in {"tool", "server"}   -> ArgsFragments
                  [] OTHER                           -> 0
           delta(k) == CASE b.kind = "text"     -> [index |-> g, type |-> "text_delta", frag |-> b.frags[k], optional |-> FALSE]
                         [] b.kind = "thinking" -> [index |-> g, type |-> "thinking_delta", frag |-> b.frags[k], optional |-> FALSE]
                         [] OTHER               -> [index |-> g, type |-> "input_delta", frag |-> <<b.id, k>>, optional |-> FALSE]
           line(k) == CASE k = 1     -> [index |-> g, type |-> "block_start", kind |-> b.kind, id |-> b.id, optional |-> FALSE]
                        [] k = n + 2 -> [index |-> g, type |-> "block_stop", optional |-> TRUE]
                        [] OTHER     -> delta(k - 1)
           L == {line(k) : k \in 1..(n + 2)}
           q == [k \in 1..(n + 2) |-> line(k)]
<1>1. BlockLines(g) = q  BY DEF BlockLines, AnthropicLines
<1>2. b.kind \in Kinds  BY SettingIs, BlockIs
<1>3. n \in Nat
  <2> HIDE DEF b
  <2> QED BY <1>2, StreamAssumption, ArgsFragmentsAssumption DEF Kinds
<1>4. \A k : delta(k).type \in {"text_delta", "thinking_delta", "input_delta"}
  <2> HIDE DEF b
  <2> QED OBVIOUS
<1> HIDE DEF delta, n, b
<1>5. ASSUME NEW k \in 1..(n + 2) PROVE line(k).type \in AnthropicTypes /\ line(k).type # "message_delta"
  <2>1. CASE k = 1  BY <2>1 DEF AnthropicTypes
  <2>2. CASE k # 1 /\ k = n + 2  BY <2>2 DEF AnthropicTypes
  <2>3. CASE k # 1 /\ k # n + 2
    <3>1. line(k) = delta(k - 1)  BY <2>3
    <3> QED BY <1>4, <3>1 DEF AnthropicTypes
  <2> QED BY <2>1, <2>2, <2>3
<1>6. \A k \in 1..(n + 2) : line(k) \in L  OBVIOUS
<1> HIDE DEF line, L
<1>7. q \in Seq(L) /\ Len(q) = n + 2  BY <1>3, <1>6
<1>8. \A k \in 1..(n + 2) : q[k] = line(k)  OBVIOUS
<1> HIDE DEF q
<1>9. IsSeq(q)  BY <1>7, SeqOfOwn
<1>10. ASSUME NEW k \in 1..Len(BlockLines(g)) PROVE LineOK(BlockLines(g)[k]) /\ ~ Terminal(BlockLines(g)[k])
  <2>1. k \in 1..(n + 2) /\ BlockLines(g)[k] = line(k)  BY <1>1, <1>7, <1>8
  <2> QED BY <1>5, <2>1 DEF LineOK, Terminal
<1> QED BY <1>1, <1>9, <1>10

LEMMA FunSeq ==
  ASSUME NEW n \in Nat, NEW q, q = [k \in 1..n |-> q[k]]
  PROVE  IsSeq(q) /\ Len(q) = n
<1> DEFINE S == {q[k] : k \in 1..n}
<1>1. \A k \in 1..n : q[k] \in S  OBVIOUS
<1> HIDE DEF S
<1>2. q \in Seq(S) /\ Len(q) = n  BY <1>1
<1> QED BY <1>2, SeqOfOwn

LEMMA ChunkParts ==
  /\ Chunk.type = "chunk" /\ Chunk.reasoning = <<>> /\ Chunk.text = <<>> /\ Chunk.calls = <<>>
  /\ Chunk.parts = <<>> /\ Chunk.finish = "none" /\ Chunk.usage = FALSE
BY DEF Chunk

LEMMA TextChunk ==
  ASSUME NEW f, NEW l, l = [Chunk EXCEPT !.text = <<f>>] \/ l = [Chunk EXCEPT !.reasoning = <<f>>]
  PROVE  IsChunk(l) /\ l.finish = "none" /\ l.calls = <<>>
<1>1. IsSeq(<<f>>) /\ IsSeq(<<>>)  BY OneSeq, NoneSeq
<1>2. <<>> \in Seq(DeltaSet) /\ Len(<<>>) = 0  OBVIOUS
<1>3. PICK q : q = <<f>>  OBVIOUS
<1>4. PICK none : none = <<>>  OBVIOUS
<1>5. l.type = "chunk" /\ l.usage = FALSE /\ l.finish = "none" /\ l.calls = none
      /\ l.reasoning \in {q, none} /\ l.text \in {q, none}
  BY <1>3, <1>4 DEF Chunk
<1>6. IsSeq(l.reasoning) /\ IsSeq(l.text)  BY <1>1, <1>3, <1>4, <1>5
<1>7. none \in Seq(DeltaSet) /\ Len(none) <= 1  BY <1>2, <1>4
<1> QED BY <1>4, <1>5, <1>6, <1>7 DEF IsChunk, Finishes

LEMMA DeltaChunk ==
  ASSUME NEW d \in DeltaSet, NEW l, l = [Chunk EXCEPT !.calls = <<d>>]
  PROVE  IsChunk(l) /\ l.finish = "none" /\ Len(l.calls) = 1 /\ l.calls[1] = d
         /\ l.reasoning = <<>> /\ l.text = <<>>
<1>1. IsSeq(<<>>)  BY NoneSeq
<1>2. <<d>> \in Seq(DeltaSet) /\ Len(<<d>>) = 1 /\ <<d>>[1] = d  OBVIOUS
<1>3. PICK ds : ds = <<d>>  OBVIOUS
<1>4. PICK none : none = <<>>  OBVIOUS
<1>5. l.type = "chunk" /\ l.usage = FALSE /\ l.finish = "none" /\ l.calls = ds
      /\ l.reasoning = none /\ l.text = none
  BY <1>3, <1>4 DEF Chunk
<1>6. ds \in Seq(DeltaSet) /\ Len(ds) <= 1 /\ Len(ds) = 1 /\ ds[1] = d  BY <1>2, <1>3
<1> QED BY <1>1, <1>4, <1>5, <1>6 DEF IsChunk, Finishes

(* The deltas of a Chat Completions call.                                   *)
Number(g) == CASE quirk = "noindex" -> Unnumbered [] quirk = "index0" -> 0 [] OTHER -> g
OpenAIDelta(g, k) == [index |-> Number(g), id |-> IF k = 1 THEN BlockIDs[g] ELSE "none",
                      frag |-> <<<<BlockIDs[g], k>>>>]

LEMMA OpenAIDeltaSet ==
  ASSUME SettingOK, NEW g \in DOMAIN reply.kinds, NEW k \in Nat
  PROVE  OpenAIDelta(g, k) \in DeltaSet
<1>1. g \in Nat /\ BlockIDs[g] \in Names  BY SettingIs DEF Names
<1>2. Number(g) \in Int  BY <1>1 DEF Number, Unnumbered
<1>3. (IF k = 1 THEN BlockIDs[g] ELSE "none") \in Names  BY <1>1 DEF Names
<1>4. <<BlockIDs[g], k>> \in ArgFrags  BY <1>1 DEF ArgFrags
<1>5. <<<<BlockIDs[g], k>>>> \in Seq(ArgFrags)  BY <1>4
<1> QED BY <1>2, <1>3, <1>5 DEF DeltaSet, OpenAIDelta

LEMMA OpenAIBlockLines ==
  ASSUME SettingOK, provider = "openai", NEW g \in DOMAIN reply.kinds
  PROVE  /\ IsSeq(BlockLines(g)) /\ reply.kinds[g] \in {"text", "thinking", "tool"}
         /\ reply.kinds[g] = "tool" => Len(BlockLines(g)) = ArgsFragments
         /\ \A k \in 1..Len(BlockLines(g)) :
               LET l == BlockLines(g)[k]
               IN /\ IsChunk(l) /\ LineOK(l) /\ ~ Terminal(l) /\ l.finish = "none"
                  /\ reply.kinds[g] # "tool" => l.calls = <<>>
                  /\ reply.kinds[g] = "tool" => /\ Len(l.calls) = 1 /\ l.calls[1] = OpenAIDelta(g, k)
                                                /\ l.reasoning = <<>> /\ l.text = <<>>
<1> DEFINE b == Blocks[g]
           line(k) == CASE b.kind = "text"     -> [Chunk EXCEPT !.text = <<b.frags[k]>>]
                        [] b.kind = "thinking" -> [Chunk EXCEPT !.reasoning = <<b.frags[k]>>]
                        [] OTHER -> [Chunk EXCEPT !.calls = <<OpenAIDelta(g, k)>>]
           n == IF reply.kinds[g] = "tool" THEN ArgsFragments ELSE TextFragments
           q == [k \in 1..n |-> line(k)]
<1>1. b.kind = reply.kinds[g] /\ b.id = BlockIDs[g]  BY BlockIs
<1>2. reply.kinds[g] \in {"text", "thinking", "tool"}  BY DEF SettingOK, Speaks
<1>3. BlockLines(g) = OpenAILines(g, b)  BY DEF BlockLines
<1>4. BlockLines(g) = q
  <2>1. \A k : [index |-> CASE quirk = "noindex" -> Unnumbered [] quirk = "index0" -> 0 [] OTHER -> g,
                id |-> IF k = 1 THEN b.id ELSE "none", frag |-> <<<<b.id, k>>>>] = OpenAIDelta(g, k)
    BY <1>1 DEF OpenAIDelta, Number
  <2>2. OpenAILines(g, b) = CASE b.kind = "text" -> [k \in 1..TextFragments |-> [Chunk EXCEPT !.text = <<b.frags[k]>>]]
                              [] b.kind = "thinking" -> [k \in 1..TextFragments |-> [Chunk EXCEPT !.reasoning = <<b.frags[k]>>]]
                              [] OTHER -> [k \in 1..ArgsFragments |-> [Chunk EXCEPT !.calls = <<OpenAIDelta(g, k)>>]]
    <3> HIDE DEF b
    <3> QED BY <2>1 DEF OpenAILines
  <2> HIDE DEF b
  <2>3. CASE reply.kinds[g] = "text"  BY <1>1, <1>3, <2>2, <2>3
  <2>4. CASE reply.kinds[g] = "thinking"  BY <1>1, <1>3, <2>2, <2>4
  <2>5. CASE reply.kinds[g] = "tool"  BY <1>1, <1>3, <2>2, <2>5
  <2> QED BY <1>2, <2>3, <2>4, <2>5
<1> HIDE DEF b
<1>5. n \in Nat  BY StreamAssumption, ArgsFragmentsAssumption
<1>6. ASSUME NEW k \in 1..n
      PROVE  /\ IsChunk(line(k)) /\ line(k).finish = "none"
             /\ reply.kinds[g] # "tool" => line(k).calls = <<>>
             /\ reply.kinds[g] = "tool" => /\ Len(line(k).calls) = 1 /\ line(k).calls[1] = OpenAIDelta(g, k)
                                           /\ line(k).reasoning = <<>> /\ line(k).text = <<>>
  <2>1. CASE reply.kinds[g] = "text"
    <3>1. line(k) = [Chunk EXCEPT !.text = <<b.frags[k]>>]  BY <1>1, <2>1
    <3> HIDE DEF line
    <3> QED BY <2>1, <3>1, TextChunk
  <2>2. CASE reply.kinds[g] = "thinking"
    <3>1. line(k) = [Chunk EXCEPT !.reasoning = <<b.frags[k]>>]  BY <1>1, <2>2
    <3> HIDE DEF line
    <3> QED BY <2>2, <3>1, TextChunk
  <2>3. CASE reply.kinds[g] = "tool"
    <3>1. line(k) = [Chunk EXCEPT !.calls = <<OpenAIDelta(g, k)>>]  BY <1>1, <2>3
    <3>2. OpenAIDelta(g, k) \in DeltaSet  BY <1>5, OpenAIDeltaSet
    <3> HIDE DEF line
    <3> QED BY <2>3, <3>1, <3>2, DeltaChunk
  <2> HIDE DEF line
  <2> QED BY <1>2, <2>1, <2>2, <2>3
<1> HIDE DEF line
<1>7. q = [k \in 1..n |-> q[k]] /\ \A k \in 1..n : q[k] = line(k)  OBVIOUS
<1> HIDE DEF q
<1>8. IsSeq(q) /\ Len(q) = n  BY <1>5, <1>7, FunSeq
<1>9. ASSUME NEW k \in 1..n PROVE LineOK(line(k)) /\ ~ Terminal(line(k))
  <2>1. line(k).type = "chunk"  BY <1>6 DEF IsChunk
  <2> QED BY <1>6, <2>1 DEF LineOK, Terminal, OpenAILineOK
<1>10. ASSUME NEW k \in 1..Len(BlockLines(g))
       PROVE  LET l == BlockLines(g)[k]
              IN /\ IsChunk(l) /\ LineOK(l) /\ ~ Terminal(l) /\ l.finish = "none"
                 /\ reply.kinds[g] # "tool" => l.calls = <<>>
                 /\ reply.kinds[g] = "tool" => /\ Len(l.calls) = 1 /\ l.calls[1] = OpenAIDelta(g, k)
                                               /\ l.reasoning = <<>> /\ l.text = <<>>
  <2>1. k \in 1..n /\ BlockLines(g)[k] = line(k)  BY <1>4, <1>7, <1>8
  <2> QED BY <1>6, <1>9, <2>1
<1>11. Len(BlockLines(g)) = n /\ IsSeq(BlockLines(g))  BY <1>4, <1>8
<1> HIDE DEF line
<1> QED BY <1>2, <1>10, <1>11

(* The lines of a call the Responses API streams.                           *)
Item(g) == IF quirk = "noitem" THEN "none" ELSE BlockIDs[g]
AddedLine(g) == [type |-> "item_added", item |-> BlockIDs[g], index |-> g, id |-> BlockIDs[g],
                 optional |-> quirk = "none"]
DeltaLine(g, k) == [type |-> "args_delta", item |-> Item(g), index |-> g, frag |-> <<BlockIDs[g], k>>,
                    optional |-> FALSE]
DoneLine(g) == [type |-> "args_done", item |-> Item(g), index |-> g, optional |-> FALSE,
                id   |-> IF quirk = "none" THEN BlockIDs[g] ELSE "none",
                args |-> IF quirk = "none" THEN WholeArgs(BlockIDs[g]) ELSE <<>>]

LEMMA ResponsesBlockLines ==
  ASSUME SettingOK, provider = "responses", NEW g \in DOMAIN reply.kinds
  PROVE  /\ IsSeq(BlockLines(g)) /\ reply.kinds[g] \in {"text", "thinking", "tool"}
         /\ \A k \in 1..Len(BlockLines(g)) : LineOK(BlockLines(g)[k]) /\ ~ Terminal(BlockLines(g)[k])
         /\ reply.kinds[g] # "tool" =>
              \A k \in 1..Len(BlockLines(g)) : BlockLines(g)[k].type \in {"text_delta", "reasoning_delta"}
         /\ reply.kinds[g] = "tool" =>
              /\ Len(BlockLines(g)) = ArgsFragments + 2
              /\ BlockLines(g)[1] = AddedLine(g)
              /\ \A k \in 1..ArgsFragments : BlockLines(g)[k + 1] = DeltaLine(g, k)
              /\ BlockLines(g)[ArgsFragments + 2] = DoneLine(g)
<1> DEFINE b == Blocks[g]
           line(k) == CASE b.kind = "text"     -> [type |-> "text_delta", frag |-> b.frags[k], optional |-> FALSE]
                        [] b.kind = "thinking" -> [type |-> "reasoning_delta", frag |-> b.frags[k], optional |-> FALSE]
                        [] OTHER -> CASE k = 1 -> AddedLine(g)
                                      [] k = ArgsFragments + 2 -> DoneLine(g)
                                      [] OTHER -> DeltaLine(g, k - 1)
           n == IF reply.kinds[g] = "tool" THEN ArgsFragments + 2 ELSE TextFragments
           q == [k \in 1..n |-> line(k)]
<1>1. b.kind = reply.kinds[g] /\ b.id = BlockIDs[g]  BY BlockIs
<1>2. reply.kinds[g] \in {"text", "thinking", "tool"}  BY DEF SettingOK, Speaks
<1>3. BlockLines(g) = ResponsesLines(g, b)  BY DEF BlockLines
<1>4. BlockLines(g) = q
  <2>1. CASE reply.kinds[g] = "text"
    <3> HIDE DEF b
    <3> QED BY <1>1, <1>3, <2>1 DEF ResponsesLines
  <2>2. CASE reply.kinds[g] = "thinking"
    <3> HIDE DEF b
    <3> QED BY <1>1, <1>3, <2>2 DEF ResponsesLines
  <2>3. CASE reply.kinds[g] = "tool"
    <3> DEFINE t(k) == CASE k = 1 -> AddedLine(g)
                         [] k = ArgsFragments + 2 -> DoneLine(g)
                         [] OTHER -> DeltaLine(g, k - 1)
    <3>1. ResponsesLines(g, b) = [k \in 1..(ArgsFragments + 2) |-> t(k)]
      <4> HIDE DEF b
      <4> QED BY <1>1, <2>3 DEF ResponsesLines, AddedLine, DoneLine, DeltaLine, Item
    <3>2. \A k : line(k) = t(k)
      <4> HIDE DEF b
      <4> QED BY <1>1, <2>3
    <3> HIDE DEF t, line, b
    <3> QED BY <1>3, <2>3, <3>1, <3>2
  <2> QED BY <1>2, <2>1, <2>2, <2>3
<1> HIDE DEF b
<1>5. n \in Nat  BY StreamAssumption, ArgsFragmentsAssumption
<1>6. ASSUME NEW k \in 1..n
      PROVE  /\ line(k).type \in ResponsesTypes /\ line(k).type # "terminal"
             /\ reply.kinds[g] # "tool" => line(k).type \in {"text_delta", "reasoning_delta"}
  <2>1. CASE reply.kinds[g] = "text"  BY <1>1, <2>1 DEF ResponsesTypes
  <2>2. CASE reply.kinds[g] = "thinking"  BY <1>1, <2>2 DEF ResponsesTypes
  <2>3. CASE reply.kinds[g] = "tool"
    <3>1. line(k) = CASE k = 1 -> AddedLine(g)
                      [] k = ArgsFragments + 2 -> DoneLine(g)
                      [] OTHER -> DeltaLine(g, k - 1)
      BY <1>1, <2>3
    <3>2. /\ AddedLine(g).type = "item_added" /\ DoneLine(g).type = "args_done"
          /\ \A x : DeltaLine(g, x).type = "args_delta"
      BY DEF AddedLine, DoneLine, DeltaLine
    <3> HIDE DEF line
    <3> QED BY <2>3, <3>1, <3>2 DEF ResponsesTypes
  <2> HIDE DEF line
  <2> QED BY <1>2, <2>1, <2>2, <2>3
<1>7. reply.kinds[g] = "tool" =>
        /\ line(1) = AddedLine(g) /\ line(ArgsFragments + 2) = DoneLine(g)
        /\ \A k \in 1..ArgsFragments : line(k + 1) = DeltaLine(g, k)
  <2> SUFFICES ASSUME reply.kinds[g] = "tool"
               PROVE  /\ line(1) = AddedLine(g) /\ line(ArgsFragments + 2) = DoneLine(g)
                      /\ \A k \in 1..ArgsFragments : line(k + 1) = DeltaLine(g, k)
    OBVIOUS
  <2>1. ArgsFragments + 2 # 1 /\ \A k \in 1..ArgsFragments : k + 1 # 1 /\ k + 1 # ArgsFragments + 2 /\ (k + 1) - 1 = k
    BY ArgsFragmentsAssumption
  <2>2. line(1) = AddedLine(g)
    <3>1. line(1) = CASE 1 = 1 -> AddedLine(g)
                      [] 1 = ArgsFragments + 2 -> DoneLine(g)
                      [] OTHER -> DeltaLine(g, 1 - 1)
      BY <1>1
    <3>2. 1 = ArgsFragments + 2 <=> FALSE  BY <2>1
    <3> HIDE DEF line
    <3> QED BY <3>1, <3>2
  <2>3. line(ArgsFragments + 2) = DoneLine(g)  BY <1>1, <2>1
  <2>4. ASSUME NEW k \in 1..ArgsFragments PROVE line(k + 1) = DeltaLine(g, k)
    <3>1. line(k + 1) = DeltaLine(g, (k + 1) - 1)  BY <1>1, <2>1
    <3> QED BY <2>1, <3>1
  <2> QED BY <2>2, <2>3, <2>4
<1> HIDE DEF line
<1>8. q = [k \in 1..n |-> q[k]] /\ \A k \in 1..n : q[k] = line(k)  OBVIOUS
<1> HIDE DEF q
<1>9. IsSeq(q) /\ Len(q) = n  BY <1>5, <1>8, FunSeq
<1>10. ASSUME NEW k \in 1..Len(BlockLines(g))
       PROVE  /\ LineOK(BlockLines(g)[k]) /\ ~ Terminal(BlockLines(g)[k])
              /\ reply.kinds[g] # "tool" => BlockLines(g)[k].type \in {"text_delta", "reasoning_delta"}
  <2>1. k \in 1..n /\ BlockLines(g)[k] = line(k)  BY <1>4, <1>8, <1>9
  <2> QED BY <1>6, <2>1 DEF LineOK, Terminal
<1>11. reply.kinds[g] = "tool" =>
         /\ Len(BlockLines(g)) = ArgsFragments + 2
         /\ BlockLines(g)[1] = AddedLine(g)
         /\ \A k \in 1..ArgsFragments : BlockLines(g)[k + 1] = DeltaLine(g, k)
         /\ BlockLines(g)[ArgsFragments + 2] = DoneLine(g)
  BY <1>4, <1>7, <1>8, <1>9, ArgsFragmentsAssumption
<1> QED BY <1>2, <1>4, <1>9, <1>10, <1>11

LEMMA GeminiBlockLines ==
  ASSUME SettingOK, provider = "gemini", NEW g \in DOMAIN reply.kinds
  PROVE  /\ IsSeq(GeminiParts(Blocks[g])) /\ IsSeq(BlockLines(g))
         /\ \A k \in 1..Len(BlockLines(g)) : LineOK(BlockLines(g)[k]) /\ ~ Terminal(BlockLines(g)[k])
<1> DEFINE ps == GeminiParts(Blocks[g])
           q == [k \in 1..Len(ps) |-> [Chunk EXCEPT !.parts = <<ps[k]>>]]
<1>1. IsSeq(ps)
  <2>1. CASE Blocks[g].kind = "tool"  BY <2>1, OneSeq DEF GeminiParts
  <2>2. CASE Blocks[g].kind # "tool"
    <3> DEFINE t == [k \in 1..TextFragments |-> [kind |-> Blocks[g].kind, frag |-> Blocks[g].frags[k]]]
    <3>1. ps = t  BY <2>2 DEF GeminiParts
    <3>2. t = [k \in 1..TextFragments |-> t[k]]  OBVIOUS
    <3> HIDE DEF t, ps
    <3> QED BY <3>1, <3>2, FunSeq, StreamAssumption
  <2> QED BY <2>1, <2>2
<1>2. BlockLines(g) = <<>> \/ BlockLines(g) = q
  <2>1. DOMAIN ps = 1..Len(ps)  BY <1>1, OwnSeq
  <2>2. BlockLines(g) = GeminiLines(Blocks[g])  BY DEF BlockLines
  <2>3. GeminiLines(Blocks[g]) = IF quirk = "together" THEN <<>>
                                 ELSE [k \in DOMAIN ps |-> [Chunk EXCEPT !.parts = <<ps[k]>>]]
    BY DEF GeminiLines
  <2> HIDE DEF ps
  <2> QED BY <2>1, <2>2, <2>3
<1>3. CASE BlockLines(g) = <<>>  BY <1>1, <1>3, NoneSeq
<1>4. CASE BlockLines(g) = q
  <2> HIDE DEF ps
  <2>1. Len(ps) \in Nat  BY <1>1, OwnSeq
  <2>2. ASSUME NEW k \in 1..Len(ps) PROVE LineOK(q[k]) /\ ~ Terminal(q[k])
    <3>1. PICK p : p = <<ps[k]>>  OBVIOUS
    <3>2. q[k] = [Chunk EXCEPT !.parts = p]  BY <3>1
    <3>3. IsSeq(p)  BY <3>1, OneSeq
    <3> HIDE DEF q
    <3>4. q[k].type = "chunk" /\ q[k].parts = p /\ q[k].finish = "none"  BY <3>2 DEF Chunk
    <3> QED BY <3>3, <3>4 DEF LineOK, Terminal
  <2>3. q = [k \in 1..Len(ps) |-> q[k]]  OBVIOUS
  <2> HIDE DEF q
  <2>4. IsSeq(q) /\ Len(q) = Len(ps)  BY <2>1, <2>3, FunSeq
  <2> QED BY <1>1, <1>4, <2>2, <2>4 DEF ps
<1> QED BY <1>2, <1>3, <1>4

LEMMA TogetherIsSeq ==
  ASSUME SettingOK, provider = "gemini"
  PROVE  IsSeq(FlattenSeq([i \in DOMAIN Blocks |-> GeminiParts(Blocks[i])]))
<1> DEFINE n == Len(reply.kinds)
           q == [i \in DOMAIN Blocks |-> GeminiParts(Blocks[i])]
           S == UNION {Range(GeminiParts(Blocks[i])) : i \in 1..n}
<1>1. n \in Nat /\ DOMAIN reply.kinds = 1..n  BY SettingIs
<1>2. DOMAIN Blocks = 1..n  BY <1>1 DEF Blocks
<1>3. ASSUME NEW i \in 1..n PROVE GeminiParts(Blocks[i]) \in Seq(S)
  <2>1. GeminiParts(Blocks[i]) \in Seq(Range(GeminiParts(Blocks[i])))
    BY <1>1, GeminiBlockLines DEF IsSeq
  <2>2. Range(GeminiParts(Blocks[i])) \subseteq S  OBVIOUS
  <2> HIDE DEF S
  <2> QED BY <2>1, <2>2
<1> HIDE DEF S
<1>4. q \in Seq(Seq(S))
  <2>1. q = [i \in 1..n |-> GeminiParts(Blocks[i])]  BY <1>2
  <2> HIDE DEF q, n
  <2> QED BY <1>1, <1>3, <2>1
<1> HIDE DEF q
<1>5. FlattenSeq(q) \in Seq(S)  BY <1>4, FlattenedIsSeq
<1> QED BY <1>5, SeqOfOwn DEF q

LEMMA OpenAIEndLines ==
  ASSUME SettingOK, provider = "openai"
  PROVE  /\ IsSeq(EndLines) /\ Len(EndLines) = 3
         /\ \A k \in 1..3 : LineOK(EndLines[k])
         /\ IsChunk(EndLines[1]) /\ EndLines[1].calls = <<>> /\ EndLines[1].finish # "none"
         /\ IsChunk(EndLines[2]) /\ EndLines[2].calls = <<>> /\ EndLines[2].finish = "none"
         /\ EndLines[3].type = "[DONE]"
<1> DEFINE a == [Chunk EXCEPT !.finish = reply.stop, !.optional = (reply.stop # "max")]
           b == [Chunk EXCEPT !.usage = TRUE, !.optional = TRUE]
           c == Line("[DONE]")
           q == <<a, b, c>>
<1>1. EndLines = q  BY DEF EndLines
<1>2. q \in Seq({a, b, c}) /\ Len(q) = 3 /\ q[1] = a /\ q[2] = b /\ q[3] = c  OBVIOUS
<1>3. PICK none : none = <<>>  OBVIOUS
<1>4. a.type = "chunk" /\ a.usage = FALSE /\ a.finish = reply.stop /\ a.calls = none
      /\ a.reasoning = none /\ a.text = none
  BY <1>3 DEF Chunk
<1>5. b.type = "chunk" /\ b.usage = TRUE /\ b.finish = "none" /\ b.calls = none
      /\ b.reasoning = none /\ b.text = none
  BY <1>3 DEF Chunk
<1>6. c.type = "[DONE]"  BY DEF Line
<1>7. IsSeq(none) /\ Len(none) = 0  BY <1>3, NoneSeq
<1>8. none \in Seq(DeltaSet) /\ Len(none) <= 1
  <2>1. <<>> \in Seq(DeltaSet)  OBVIOUS
  <2> QED BY <1>3, <1>7, <2>1
<1>9. reply.stop \in Finishes /\ reply.stop # "none"  BY SettingIs DEF Finishes
<1> HIDE DEF a, b, c
<1>10. IsChunk(a)  BY <1>4, <1>7, <1>8, <1>9 DEF IsChunk
<1>11. IsChunk(b)  BY <1>5, <1>7, <1>8 DEF IsChunk, Finishes
<1>12. LineOK(a) /\ LineOK(b) /\ LineOK(c)  BY <1>6, <1>10, <1>11 DEF LineOK, OpenAILineOK
<1> HIDE DEF q
<1>13. IsSeq(q)  BY <1>2, SeqOfOwn
<1>14. \A k \in 1..3 : k = 1 \/ k = 2 \/ k = 3  OBVIOUS
<1>15. \A k \in 1..3 : LineOK(q[k])  BY <1>2, <1>12, <1>14
<1> QED BY <1>1, <1>2, <1>3, <1>4, <1>5, <1>6, <1>9, <1>10, <1>11, <1>13, <1>15

LEMMA OneLine ==
  ASSUME NEW l, NEW q, q = <<l>>, LineOK(l)
  PROVE  IsSeq(q) /\ \A k \in 1..Len(q) : LineOK(q[k]) /\ q[k] = l
<1>1. IsSeq(q) /\ Len(q) = 1 /\ q[1] = l  BY OneSeq
<1>2. \A k \in 1..Len(q) : k = 1  BY <1>1
<1> QED BY <1>1, <1>2

LEMMA EndLinesAre ==
  ASSUME SettingOK
  PROVE  IsSeq(EndLines) /\ \A k \in 1..Len(EndLines) : LineOK(EndLines[k])
<1>1. CASE provider = "anthropic"
  <2>1. PICK l : l = [type |-> "message_delta", stop |-> reply.stop, optional |-> FALSE]  OBVIOUS
  <2>2. EndLines = <<l>>  BY <1>1, <2>1 DEF EndLines
  <2>3. LineOK(l)  BY <1>1, <2>1 DEF LineOK, AnthropicTypes
  <2> QED BY <2>2, <2>3, OneLine
<1>2. CASE provider = "openai"
  <2>1. PICK q : q = EndLines  OBVIOUS
  <2>2. IsSeq(q) /\ Len(q) = 3 /\ \A k \in 1..3 : LineOK(q[k])  BY <1>2, <2>1, OpenAIEndLines
  <2> QED BY <2>1, <2>2
<1>3. CASE provider = "responses"
  <2>1. PICK l : l = [type |-> "terminal", status |-> IF reply.stop = "max" THEN "incomplete" ELSE "completed",
                      optional |-> FALSE]
    OBVIOUS
  <2>2. EndLines = <<l>>  BY <1>3, <2>1 DEF EndLines
  <2>3. LineOK(l)  BY <1>3, <2>1 DEF LineOK, ResponsesTypes
  <2> QED BY <2>2, <2>3, OneLine
<1>4. CASE provider = "gemini"
  <2>1. PICK ps : ps = IF quirk = "together"
                       THEN FlattenSeq([i \in DOMAIN Blocks |-> GeminiParts(Blocks[i])]) ELSE <<>>
    OBVIOUS
  <2>2. IsSeq(ps)
    <3>1. CASE quirk = "together"  BY <1>4, <2>1, <3>1, TogetherIsSeq
    <3>2. CASE quirk # "together"  BY <2>1, <3>2, NoneSeq
    <3> QED BY <3>1, <3>2
  <2>3. PICK l : l = [Chunk EXCEPT !.finish = WireStop, !.usage = TRUE, !.parts = ps]  OBVIOUS
  <2>4. EndLines = <<l>>  BY <1>4, <2>1, <2>3 DEF EndLines
  <2>5. l.type = "chunk" /\ l.parts = ps  BY <2>3 DEF Chunk
  <2>6. LineOK(l)  BY <1>4, <2>2, <2>5 DEF LineOK
  <2> QED BY <2>4, <2>6, OneLine
<1> QED BY <1>1, <1>2, <1>3, <1>4, SettingIs DEF Adapters

LEMMA LinesAre ==
  ASSUME SettingOK, NEW g \in Groups
  PROVE  /\ IsSeq(LinesOf(g)) /\ Len(LinesOf(g)) \in Nat
         /\ \A k \in 1..Len(LinesOf(g)) :
               LineOK(LinesOf(g)[k]) /\ (Terminal(LinesOf(g)[k]) => g = Len(reply.kinds) + 1)
<1> SUFFICES /\ IsSeq(LinesOf(g))
             /\ \A k \in 1..Len(LinesOf(g)) :
                   LineOK(LinesOf(g)[k]) /\ (Terminal(LinesOf(g)[k]) => g = Len(reply.kinds) + 1)
  BY OwnSeq
<1>1. g \in 0..(Len(reply.kinds) + 1) /\ Len(reply.kinds) \in Nat /\ DOMAIN reply.kinds = 1..Len(reply.kinds)
  BY SettingIs
<1>2. CASE g = 0
  <2>1. LinesOf(g) = StartLines  BY <1>2 DEF LinesOf
  <2>2. CASE provider = "anthropic"
    <3>1. PICK l : l = Line("message_start")  OBVIOUS
    <3>2. StartLines = <<l>> /\ LineOK(l) /\ ~ Terminal(l)
      BY <2>2, <3>1 DEF StartLines, Line, LineOK, Terminal, AnthropicTypes
    <3> QED BY <2>1, <3>2, OneLine
  <2>3. CASE provider # "anthropic"
    <3>1. StartLines = <<>>  BY <2>3 DEF StartLines
    <3> QED BY <2>1, <3>1, NoneSeq
  <2> QED BY <2>2, <2>3
<1>3. CASE g = Len(reply.kinds) + 1
  <2>1. g # 0  BY <1>1, <1>3
  <2>2. LinesOf(g) = EndLines  BY <1>3, <2>1 DEF LinesOf
  <2> QED BY <1>3, <2>2, EndLinesAre
<1>4. CASE g \in DOMAIN reply.kinds
  <2>1. g # 0 /\ g # Len(reply.kinds) + 1
    <3>1. PICK n \in Nat : n = Len(reply.kinds)  BY <1>1
    <3> QED BY <1>1, <1>4, <3>1
  <2>2. LinesOf(g) = BlockLines(g)  BY <2>1 DEF LinesOf
  <2>3. IsSeq(BlockLines(g)) /\ \A k \in 1..Len(BlockLines(g)) : LineOK(BlockLines(g)[k]) /\ ~ Terminal(BlockLines(g)[k])
    BY <1>4, AnthropicBlockLines, OpenAIBlockLines, ResponsesBlockLines, GeminiBlockLines, SettingIs DEF Adapters
  <2> QED BY <2>2, <2>3
<1> QED
  <2>1. PICK n \in Nat : n = Len(reply.kinds)  BY <1>1
  <2> QED BY <1>1, <1>2, <1>3, <1>4, <2>1

-----------------------------------------------------------------------------
(* The inductive invariant behind TruncationIsAnError and BoundariesNest.   *)
AllSent == \A g \in DOMAIN reply.kinds : Sent(g)

SentOK == sent \in [Groups -> Nat] /\ \A g \in Groups : sent[g] <= Len(LinesOf(g))

FoldOK == DOMAIN acc = {"text", "thinking", "calls", "final", "done"} /\ acc.done \in BOOLEAN

(* What is still queued ends the turn if and only if the adapter stopped.   *)
QueueOK ==
    /\ phase \in {"connecting", "reading", "ending", "closed", "left"}
    /\ phase \in {"connecting", "closed", "left"} => queue = <<>>
    /\ phase = "reading" => Plain(queue) \/ queue = <<BareError>>
    /\ phase = "ending" => queue = <<>> \/ Ending(queue)

EndsWithDone(q) == q # <<>> /\ q[Len(q)].type = "done"
DoneIn(q)       == \E e \in Range(q) : e.type = "done"
EndIn(q)        == \E e \in Range(q) : e.type \in EndTypes

(* The done event is on its way, or to be expected, only after all blocks.  *)
DoneIsLate ==
    \/ EndsWithDone(queue) \/ DoneIn(out) \/ acc.done
    \/ provider = "openai" /\ Finished(adapter)
    => AllSent

Ended == phase = "closed" \/ (phase = "ending" /\ queue = <<>>)

(* The event that ends a stream is not lost on its way to the consumer.     *)
EndArrives == Ended => acc.done \/ broke \/ EndIn(out)

(* What the consumer is inside of once it has taken all that is out.        *)
At(b, q, k)   == IF Len(q) < k THEN b ELSE Nest(b, q[k])
Through(b, q) == At(At(At(At(b, q, 1), q, 2), q, 3), q, 4)

Mark(block) == CASE block = "none"     -> "none"
                 [] block = "content"  -> "text_start"
                 [] block = "thinking" -> "thinking_start"

OutOK == /\ IsSeq(out) /\ Len(out) <= 4
         /\ phase \in {"connecting", "left"} => out = <<>>
         /\ phase = "connecting" => open = "none" /\ nesting = "none"

OpenOK == /\ open \in {"none", "content", "thinking"}
          /\ Ended /\ wrapped => open = "none"

NestingOK == wrapped => /\ nesting # "broken"
                        /\ phase # "left" =>
                             Through(nesting, out) = IF Ended THEN "ended" ELSE Mark(open)

StreamInv ==
    /\ SettingOK /\ SentOK /\ FoldOK /\ QueueOK /\ OutOK /\ OpenOK
    /\ provider = "openai" => OpenAIOK(adapter)
    /\ DoneIsLate /\ EndArrives /\ NestingOK

(* The setting does not change, nor do the lines of the reply.              *)
LEMMA SettingStays ==
  ASSUME UNCHANGED setting
  PROVE  /\ Groups' = Groups /\ DOMAIN reply.kinds' = DOMAIN reply.kinds
         /\ \A g : LinesOf(g)' = LinesOf(g)
         /\ SettingOK => SettingOK'
         /\ reply' = reply /\ provider' = provider /\ quirk' = quirk /\ wrapped' = wrapped
<1>1. reply' = reply /\ provider' = provider /\ quirk' = quirk /\ wrapped' = wrapped  BY DEF setting
<1>2. Blocks' = Blocks  BY <1>1 DEF Blocks, BlockOf
<1>3. \A i, b : OpenAILines(i, b)' = OpenAILines(i, b)  BY <1>1 DEF OpenAILines
<1>4. \A i, b : ResponsesLines(i, b)' = ResponsesLines(i, b)  BY <1>1 DEF ResponsesLines
<1>5. \A b : GeminiLines(b)' = GeminiLines(b)  BY <1>1 DEF GeminiLines
<1>6. \A g : BlockLines(g)' = BlockLines(g)  BY <1>1, <1>2, <1>3, <1>4, <1>5 DEF BlockLines
<1>7. EndLines' = EndLines  BY <1>1, <1>2 DEF EndLines, WireStop
<1>8. StartLines' = StartLines  BY <1>1 DEF StartLines
<1>9. \A g : LinesOf(g)' = LinesOf(g)  BY <1>1, <1>6, <1>7, <1>8 DEF LinesOf
<1>10. Groups' = Groups  BY <1>1 DEF Groups
<1>11. SettingOK => SettingOK'  BY <1>1 DEF SettingOK
<1> QED BY <1>1, <1>9, <1>10, <1>11

(* What reading a line comes to, whatever the adapter.                      *)
LEMMA ReadWell ==
  ASSUME provider \in Adapters, provider = "openai" => OpenAIOK(adapter), NEW l, LineOK(l)
  PROVE  LET r == Read(l)
         IN /\ HandledWell(r)
            /\ EndsTurn(r) => Terminal(l) \/ (provider = "openai" /\ Finished(r.st))
            /\ provider = "openai" => /\ OpenAIOK(r.st) /\ r.st.limit = adapter.limit
                                      /\ Finished(r.st) => Finished(adapter) \/ Terminal(l)
<1> DEFINE r == Read(l)
<1>1. CASE provider = "anthropic"
  <2>1. r = AnthropicLine(adapter, l) /\ l.type \in AnthropicTypes  BY <1>1 DEF Read, LineOK
  <2> HIDE DEF r
  <2> QED BY <1>1, <2>1, AnthropicHandles DEF Terminal, r
<1>2. CASE provider = "openai"
  <2>1. r = OpenAILine(adapter, l) /\ OpenAILineOK(l)  BY <1>2 DEF Read, LineOK
  <2> HIDE DEF r
  <2> QED BY <1>2, <2>1, OpenAIHandles DEF Terminal, r
<1>3. CASE provider = "responses"
  <2>1. r = ResponsesLine(adapter, l) /\ l.type \in ResponsesTypes  BY <1>3 DEF Read, LineOK
  <2> HIDE DEF r
  <2> QED BY <1>3, <2>1, ResponsesHandles DEF Terminal, r
<1>4. CASE provider = "gemini"
  <2>1. r = GeminiLine(adapter, l) /\ (l.type = "garbled" \/ (l.type = "chunk" /\ IsSeq(l.parts)))
    BY <1>4 DEF Read, LineOK
  <2> HIDE DEF r
  <2> QED BY <1>4, <2>1, GeminiHandles DEF Terminal, r
<1> QED BY <1>1, <1>2, <1>3, <1>4 DEF Adapters

LEMMA ReadEndWell ==
  ASSUME provider \in Adapters, provider = "openai" => OpenAIOK(adapter)
  PROVE  LET r == ReadEnd
         IN /\ HandledWell(r)
            /\ EndsTurn(r) => provider = "openai" /\ Finished(adapter)
            /\ provider = "openai" => /\ OpenAIOK(r.st) /\ r.st.limit = adapter.limit
                                      /\ Finished(r.st) => Finished(adapter)
<1> DEFINE r == ReadEnd
<1>1. CASE provider = "anthropic"
  <2>1. r = Fail(adapter)  BY <1>1 DEF ReadEnd, AnthropicEnd
  <2> HIDE DEF r
  <2> QED BY <1>1, <2>1, FailsWell DEF r
<1>2. CASE provider = "openai"
  <2>1. r = OpenAIEnd(adapter)  BY <1>2 DEF ReadEnd
  <2> HIDE DEF r
  <2> QED BY <1>2, <2>1, OpenAIEndWell DEF Finished, r
<1>3. CASE provider \in {"responses", "gemini"}
  <2>1. r = Stops(adapter, <<BareError>>)  BY <1>3 DEF ReadEnd, ResponsesEnd, GeminiEnd
  <2> HIDE DEF r
  <2> QED BY <1>3, <2>1, BareEnd DEF r
<1> QED BY <1>1, <1>2, <1>3 DEF Adapters

LEMMA FaultLines ==
  ASSUME provider \in Adapters
  PROVE  /\ LineOK(Line("garbled")) /\ ~ Terminal(Line("garbled"))
         /\ provider \in {"anthropic", "responses"} => LineOK(Line("error")) /\ ~ Terminal(Line("error"))
<1>1. PICK l : l = Line("garbled")  OBVIOUS
<1>2. l.type = "garbled"  BY <1>1 DEF Line
<1>3. LineOK(l) /\ ~ Terminal(l)
  BY <1>2 DEF LineOK, Terminal, AnthropicTypes, OpenAILineOK, ResponsesTypes, Adapters
<1>4. PICK e : e = Line("error")  OBVIOUS
<1>5. e.type = "error"  BY <1>4 DEF Line
<1>6. provider \in {"anthropic", "responses"} => LineOK(e) /\ ~ Terminal(e)
  BY <1>5 DEF LineOK, Terminal, AnthropicTypes, ResponsesTypes
<1> QED BY <1>1, <1>3, <1>4, <1>6

(* A line sent, or left out.                                                *)
LEMMA OneMoreSent ==
  ASSUME SettingOK, SentOK, UNCHANGED setting, NEW g \in Groups, Ready(g),
         sent' = [sent EXCEPT ![g] = @ + 1]
  PROVE  /\ SentOK' /\ (AllSent => AllSent')
         /\ sent[g] + 1 \in 1..Len(LinesOf(g))
         /\ g = Len(reply.kinds) + 1 => AllSent /\ AllSent'
<1>1. sent[g] \in Nat /\ sent[g] <= Len(LinesOf(g)) /\ sent[g] # Len(LinesOf(g)) /\ Len(LinesOf(g)) \in Nat
  BY LinesAre DEF SentOK, Ready, Sent
<1>2. sent[g] + 1 \in 1..Len(LinesOf(g))  BY <1>1
<1>3. sent' \in [Groups -> Nat] /\ sent'[g] = sent[g] + 1 /\ \A h \in Groups : h # g => sent'[h] = sent[h]
  BY <1>1 DEF SentOK
<1>4. /\ Groups' = Groups /\ DOMAIN reply.kinds' = DOMAIN reply.kinds
      /\ \A h : LinesOf(h)' = LinesOf(h)
  BY SettingStays
<1>5. \A h \in Groups : sent'[h] <= Len(LinesOf(h))  BY <1>2, <1>3 DEF SentOK
<1>6. SentOK'  BY <1>3, <1>4, <1>5 DEF SentOK
<1>7. ASSUME AllSent PROVE AllSent'
  <2>1. \A h \in DOMAIN reply.kinds : h # g  BY <1>1, <1>7 DEF AllSent, Sent
  <2>2. \A h \in DOMAIN reply.kinds : sent'[h] = Len(LinesOf(h))
    BY <1>3, <1>7, <2>1, SettingIs DEF AllSent, Sent
  <2> QED BY <1>4, <2>2 DEF AllSent, Sent
<1>8. ASSUME g = Len(reply.kinds) + 1 PROVE AllSent
  <2>1. PICK n \in Nat : n = Len(reply.kinds)  BY SettingIs
  <2>2. DOMAIN reply.kinds = 1..n /\ g = n + 1  BY <1>8, <2>1, SettingIs
  <2>3. ASSUME NEW h \in 1..n PROVE Sent(h)
    <3>1. h \in 0..(g - 1) /\ g \notin DOMAIN reply.kinds  BY <2>2
    <3> QED BY <3>1 DEF Ready, Interleaves
  <2> QED BY <2>2, <2>3 DEF AllSent
<1> QED BY <1>2, <1>6, <1>7, <1>8

-----------------------------------------------------------------------------
LEMMA HandledQueue ==
  ASSUME NEW r, HandledWell(r)
  PROVE  /\ IsSeq(r.out)
         /\ r.halt => Ending(r.out) /\ r.out # <<>>
         /\ ~ r.halt => (Plain(r.out) \/ r.out = <<BareError>>) /\ ~ EndsWithDone(r.out)
         /\ EndsWithDone(r.out) => EndsTurn(r)
<1>1. CASE r.halt  BY <1>1 DEF HandledWell, Ending, EndsWithDone, EndsTurn
<1>2. CASE ~ r.halt
  <2>1. Plain(r.out) \/ r.out = <<BareError>>  BY <1>2 DEF HandledWell
  <2>2. CASE Plain(r.out)
    <3>1. PICK q : q = r.out  OBVIOUS
    <3>2. IsSeq(q) /\ Plain(q)  BY <2>2, <3>1 DEF Plain
    <3>3. ~ EndsWithDone(q)
      <4>1. SUFFICES ASSUME q # <<>> PROVE q[Len(q)].type # "done"  BY DEF EndsWithDone
      <4>2. Len(q) \in Nat /\ Len(q) # 0 /\ \A k \in 1..Len(q) : q[k] \in Range(q)  BY <3>2, <4>1, OwnSeq
      <4>3. Len(q) \in 1..Len(q)  BY <4>2
      <4>4. q[Len(q)].type \in PlainTypes  BY <3>2, <4>2, <4>3 DEF Plain
      <4> QED BY <4>4 DEF PlainTypes
    <3> QED BY <1>2, <2>1, <3>1, <3>2, <3>3
  <2>3. CASE r.out = <<BareError>>
    <3>1. PICK q : q = <<BareError>>  OBVIOUS
    <3>2. IsSeq(q) /\ Len(q) = 1 /\ q[1] = BareError  BY <3>1, OneSeq
    <3>3. ~ EndsWithDone(q)  BY <3>2, EventTypes DEF EndsWithDone
    <3> QED BY <1>2, <2>3, <3>1, <3>2, <3>3
  <2> QED BY <2>1, <2>2, <2>3
<1> QED BY <1>1, <1>2 DEF HandledWell

(* The actions that handle a line: nothing was queued or out before.        *)
LEMMA HandleKeeps ==
  ASSUME StreamInv, NEW r, Handle(r), HandledWell(r), queue = <<>>, out = <<>>,
         phase \in {"connecting", "reading"},
         SentOK', AllSent => AllSent', EndsTurn(r) => AllSent',
         provider = "openai" => OpenAIOK(r.st) /\ (Finished(r.st) => AllSent')
  PROVE  StreamInv'
<1>1. /\ adapter' = r.st /\ queue' = r.out /\ phase' = IF r.halt THEN "ending" ELSE "reading"
      /\ UNCHANGED setting /\ open' = open /\ out' = out /\ acc' = acc /\ nesting' = nesting /\ last' = last /\ broke' = broke
  BY DEF Handle, consumer
<1>2. SettingOK' /\ provider' = provider /\ wrapped' = wrapped  BY <1>1, SettingStays DEF StreamInv
<1>3. FoldOK'  BY <1>1 DEF StreamInv, FoldOK
<1>4. /\ IsSeq(r.out)
      /\ r.halt => Ending(r.out) /\ r.out # <<>>
      /\ ~ r.halt => (Plain(r.out) \/ r.out = <<BareError>>) /\ ~ EndsWithDone(r.out)
      /\ EndsWithDone(r.out) => EndsTurn(r)
  BY HandledQueue
<1>5. QueueOK'  BY <1>1, <1>4 DEF QueueOK
<1>6. OutOK'
  <2>1. IsSeq(out) /\ Len(out) <= 4  BY DEF StreamInv, OutOK
  <2> QED BY <1>1, <2>1 DEF OutOK
<1>7. ~ Ended'  BY <1>1, <1>4 DEF Ended
<1>8. OpenOK'  BY <1>1, <1>7 DEF StreamInv, OpenOK
<1>9. (provider = "openai" => OpenAIOK(adapter))'  BY <1>1, <1>2
<1>10. DoneIsLate'
  <2>1. ~ DoneIn(out)  BY NoneSeq DEF DoneIn
  <2>2. ~ DoneIn(out')  BY <1>1, <2>1 DEF DoneIn
  <2>3. EndsWithDone(queue') => AllSent'  BY <1>1, <1>4
  <2>4. acc.done => AllSent  BY DEF StreamInv, DoneIsLate
  <2>5. acc'.done => AllSent'  BY <1>1, <2>4
  <2>6. provider' = "openai" /\ Finished(adapter') => AllSent'  BY <1>1, <1>2
  <2> QED BY <2>2, <2>3, <2>5, <2>6 DEF DoneIsLate
<1>11. EndArrives'  BY <1>7 DEF EndArrives
<1>12. NestingOK'
  <2>1. ~ Ended
    <3>1. CASE phase = "connecting"  BY <3>1 DEF Ended
    <3>2. CASE phase = "reading"  BY <3>2 DEF Ended
    <3> QED BY <3>1, <3>2
  <2>2. Through(nesting, out)' = Through(nesting, out)  BY <1>1
  <2>3. wrapped => nesting # "broken" /\ Through(nesting, out) = Mark(open)  BY <2>1 DEF StreamInv, NestingOK
  <2>4. Mark(open)' = Mark(open)  BY <1>1 DEF Mark
  <2> QED BY <1>1, <1>2, <1>7, <2>2, <2>3, <2>4 DEF NestingOK
<1> QED BY <1>2, <1>3, <1>5, <1>6, <1>8, <1>9, <1>10, <1>11, <1>12 DEF StreamInv

LEMMA RefusedKeeps == ASSUME StreamInv, Refused PROVE StreamInv'
<1> DEFINE r == [st |-> adapter, out |-> <<BareError>>, halt |-> TRUE]
<1>1. Handle(r) /\ phase = "connecting" /\ sent' = sent  BY DEF Refused
<1>2. UNCHANGED setting  BY <1>1 DEF Handle
<1>3. HandledWell(r) /\ ~ EndsTurn(r)
  <2>1. r = Stops(adapter, <<BareError>>)  BY DEF Stops
  <2> QED BY <2>1, BareEnd
<1>4. r.st = adapter  OBVIOUS
<1> HIDE DEF r
<1>5. queue = <<>> /\ out = <<>>  BY <1>1 DEF StreamInv, QueueOK, OutOK
<1>6. SentOK' /\ (AllSent => AllSent')
  <2>1. Groups' = Groups /\ DOMAIN reply.kinds' = DOMAIN reply.kinds /\ \A h : LinesOf(h)' = LinesOf(h)
    BY <1>2, SettingStays
  <2> QED BY <1>1, <2>1 DEF StreamInv, SentOK, AllSent, Sent
<1>7. provider = "openai" => OpenAIOK(r.st) /\ (Finished(r.st) => AllSent')
  BY <1>4, <1>6 DEF StreamInv, DoneIsLate
<1> QED BY <1>1, <1>3, <1>5, <1>6, <1>7, HandleKeeps

LEMMA SameSent ==
  ASSUME SentOK, UNCHANGED setting, sent' = sent PROVE SentOK' /\ (AllSent <=> AllSent')
<1>1. Groups' = Groups /\ DOMAIN reply.kinds' = DOMAIN reply.kinds /\ \A h : LinesOf(h)' = LinesOf(h)
  BY SettingStays
<1> QED BY <1>1 DEF SentOK, AllSent, Sent

LEMMA ReceiveKeeps == ASSUME StreamInv, NEW g \in Groups, Receive(g) PROVE StreamInv'
<1> DEFINE k == sent[g] + 1
           l == LinesOf(g)[k]
           r == Read(l)
<1>1. Reading /\ Ready(g) /\ Handle(r) /\ sent' = [sent EXCEPT ![g] = @ + 1]  BY DEF Receive
<1>2. UNCHANGED setting  BY <1>1 DEF Handle
<1>3. queue = <<>> /\ out = <<>> /\ phase = "reading"  BY <1>1 DEF Reading
<1>4. SettingOK /\ SentOK /\ provider \in Adapters /\ (provider = "openai" => OpenAIOK(adapter))
  BY SettingIs DEF StreamInv
<1>5. SentOK' /\ (AllSent => AllSent') /\ k \in 1..Len(LinesOf(g)) /\ (g = Len(reply.kinds) + 1 => AllSent')
  BY <1>1, <1>2, <1>4, OneMoreSent
<1> HIDE DEF k
<1>6. LineOK(l) /\ (Terminal(l) => AllSent')  BY <1>4, <1>5, LinesAre
<1> HIDE DEF l
<1>7. /\ HandledWell(r)
      /\ EndsTurn(r) => Terminal(l) \/ (provider = "openai" /\ Finished(r.st))
      /\ provider = "openai" => OpenAIOK(r.st) /\ (Finished(r.st) => Finished(adapter) \/ Terminal(l))
  BY <1>4, <1>6, ReadWell
<1> HIDE DEF r
<1>8. provider = "openai" /\ Finished(adapter) => AllSent  BY DEF StreamInv, DoneIsLate
<1> QED BY <1>1, <1>3, <1>5, <1>6, <1>7, <1>8, HandleKeeps

LEMMA FaultKeeps ==
  ASSUME StreamInv, Reading, NEW r, Handle(r), sent' = sent, NEW l, LineOK(l) /\ ~ Terminal(l),
         r = Read(l) \/ r = ReadEnd
  PROVE  StreamInv'
<1>1. UNCHANGED setting  BY DEF Handle
<1>2. queue = <<>> /\ out = <<>> /\ phase = "reading"  BY DEF Reading
<1>3. SentOK /\ provider \in Adapters /\ (provider = "openai" => OpenAIOK(adapter))
  BY SettingIs DEF StreamInv
<1>4. SentOK' /\ (AllSent => AllSent')  BY <1>1, <1>3, SameSent
<1>5. /\ HandledWell(r)
      /\ EndsTurn(r) => provider = "openai" /\ (Finished(adapter) \/ Finished(r.st))
      /\ provider = "openai" => OpenAIOK(r.st) /\ (Finished(r.st) => Finished(adapter))
  BY <1>3, ReadWell, ReadEndWell
<1>6. provider = "openai" /\ Finished(adapter) => AllSent  BY DEF StreamInv, DoneIsLate
<1> QED BY <1>2, <1>4, <1>5, <1>6, HandleKeeps

LEMMA GarbledKeeps == ASSUME StreamInv, Garbled PROVE StreamInv'
<1>1. provider \in Adapters  BY SettingIs DEF StreamInv
<1> QED BY <1>1, FaultLines, FaultKeeps DEF Garbled

LEMMA ErrorEventKeeps == ASSUME StreamInv, ErrorEvent PROVE StreamInv'
<1>1. provider \in Adapters  BY SettingIs DEF StreamInv
<1> QED BY <1>1, FaultLines, FaultKeeps DEF ErrorEvent

LEMMA CutKeeps == ASSUME StreamInv, Cut PROVE StreamInv'
<1>1. provider \in Adapters  BY SettingIs DEF StreamInv
<1>2. LineOK(Line("garbled")) /\ ~ Terminal(Line("garbled"))  BY <1>1, FaultLines
<1> QED BY <1>2, FaultKeeps DEF Cut

(* Steps that touch neither what is queued nor the consumer.                *)
LEMMA QuietKeeps ==
  ASSUME StreamInv, UNCHANGED <<setting, adapter, open, queue, out, consumer>>, SentOK', AllSent => AllSent',
         phase' = phase \/ (phase = "connecting" /\ phase' = "reading")
  PROVE  StreamInv'
<1>1. /\ UNCHANGED setting /\ adapter' = adapter /\ open' = open /\ queue' = queue /\ out' = out
      /\ acc' = acc /\ nesting' = nesting /\ broke' = broke
  BY DEF consumer
<1>2. SettingOK' /\ provider' = provider /\ wrapped' = wrapped  BY <1>1, SettingStays DEF StreamInv
<1>3. QueueOK'
  <2>1. CASE phase' = phase  BY <1>1, <2>1 DEF StreamInv, QueueOK
  <2>2. CASE phase = "connecting" /\ phase' = "reading"
    <3>1. queue = <<>>  BY <2>2 DEF StreamInv, QueueOK
    <3> QED BY <1>1, <2>2, <3>1, PlainNone DEF QueueOK
  <2> QED BY <2>1, <2>2
<1>4. FoldOK' /\ OutOK'  BY <1>1 DEF StreamInv, FoldOK, OutOK
<1>5. Ended' <=> Ended  BY <1>1 DEF Ended
<1>6. OpenOK'  BY <1>1, <1>2, <1>5 DEF StreamInv, OpenOK
<1>7. (provider = "openai" => OpenAIOK(adapter))'  BY <1>1, <1>2 DEF StreamInv
<1>8. DoneIsLate'  BY <1>1, <1>2 DEF StreamInv, DoneIsLate, EndsWithDone, DoneIn
<1>9. EndArrives'  BY <1>1, <1>5 DEF StreamInv, EndArrives, EndIn
<1>10. NestingOK'
  <2>1. Through(nesting, out)' = Through(nesting, out) /\ Mark(open)' = Mark(open)  BY <1>1
  <2>2. phase' # "left" => phase # "left"  OBVIOUS
  <2> QED BY <1>1, <1>2, <1>5, <2>1, <2>2 DEF StreamInv, NestingOK
<1> QED BY <1>2, <1>3, <1>4, <1>6, <1>7, <1>8, <1>9, <1>10 DEF StreamInv

LEMMA AcceptedKeeps == ASSUME StreamInv, Accepted PROVE StreamInv'
<1>1. SentOK /\ UNCHANGED setting /\ sent' = sent  BY DEF StreamInv, Accepted
<1> QED BY <1>1, SameSent, QuietKeeps DEF Accepted

LEMMA LeaveOutKeeps == ASSUME StreamInv, NEW g \in Groups, LeaveOut(g) PROVE StreamInv'
<1>1. SettingOK /\ SentOK /\ UNCHANGED setting /\ Ready(g) /\ sent' = [sent EXCEPT ![g] = @ + 1]
  BY DEF StreamInv, LeaveOut
<1> QED BY <1>1, OneMoreSent, QuietKeeps DEF LeaveOut

-----------------------------------------------------------------------------
(* What the wrapper makes of one event.                                     *)
LEMMA FourSteps ==
  ASSUME NEW b, NEW q, IsSeq(q), q # <<>>, Len(q) <= 4
  PROVE  Through(b, q) = Through(Nest(b, Head(q)), Tail(q)) /\ Len(Tail(q)) <= 4 /\ IsSeq(Tail(q))
<1> DEFINE n == Len(q)
           t == Tail(q)
<1>1. n \in Nat /\ n # 0  BY OwnSeq
<1>2. Head(q) = q[1] /\ IsSeq(t) /\ Len(t) = n - 1 /\ \A k \in 1..(n - 1) : t[k] = q[k + 1]  BY TailSeq
<1> HIDE DEF t
<1>3. \A x : \A k \in 1..3 : At(x, t, k) = At(x, q, k + 1)
  <2> SUFFICES ASSUME NEW x, NEW k \in 1..3 PROVE At(x, t, k) = At(x, q, k + 1)  OBVIOUS
  <2>1. CASE Len(t) < k  BY <1>1, <1>2, <2>1 DEF At
  <2>2. CASE ~ (Len(t) < k)
    <3>1. k \in 1..(n - 1) /\ ~ (n < k + 1)  BY <1>1, <1>2, <2>2
    <3> QED BY <1>2, <2>2, <3>1 DEF At
  <2> QED BY <2>1, <2>2
<1>4. \A x : At(x, t, 4) = x  BY <1>1, <1>2 DEF At
<1>5. At(b, q, 1) = Nest(b, Head(q))  BY <1>1, <1>2 DEF At
<1>6. \A x : At(x, t, 1) = At(x, q, 2) /\ At(x, t, 2) = At(x, q, 3) /\ At(x, t, 3) = At(x, q, 4)
  <2>1. 1 \in 1..3 /\ 2 \in 1..3 /\ 3 \in 1..3 /\ 1 + 1 = 2 /\ 2 + 1 = 3 /\ 3 + 1 = 4  OBVIOUS
  <2> QED BY <1>3, <2>1
<1>7. Through(b, q) = Through(Nest(b, Head(q)), t)
  <2> HIDE DEF n
  <2> QED BY <1>4, <1>5, <1>6 DEF Through
<1> QED BY <1>1, <1>2, <1>7 DEF t

LEMMA BrokenStays == ASSUME NEW ev PROVE Nest("broken", ev) = "broken"
BY DEF Nest

LEMMA BrokenThrough == ASSUME NEW q PROVE Through("broken", q) = "broken"
BY BrokenStays DEF Through, At

LEMMA OneOut ==
  ASSUME NEW a, NEW q, q = <<a>>
  PROVE  IsSeq(q) /\ Len(q) = 1 /\ Range(q) = {a} /\ \A x : Through(x, q) = Nest(x, a)
<1>1. IsSeq(q) /\ Len(q) = 1 /\ Range(q) = {a} /\ q[1] = a  BY OneSeq
<1>2. \A x : At(x, q, 1) = Nest(x, a) /\ At(x, q, 2) = x /\ At(x, q, 3) = x /\ At(x, q, 4) = x
  BY <1>1 DEF At
<1> QED BY <1>1, <1>2 DEF Through

LEMMA TwoOut ==
  ASSUME NEW a, NEW b, NEW q, q = <<a, b>>
  PROVE  IsSeq(q) /\ Len(q) = 2 /\ Range(q) = {a, b} /\ q[1] = a /\ q[2] = b /\ \A x : Through(x, q) = Nest(Nest(x, a), b)
<1>1. q \in Seq({a, b}) /\ Len(q) = 2 /\ q[1] = a /\ q[2] = b  OBVIOUS
<1>2. IsSeq(q) /\ Range(q) = {a, b}
  <2>1. IsSeq(q) /\ Range(q) \subseteq {a, b}  BY <1>1, SeqOfOwn
  <2>2. q[1] \in Range(q) /\ q[2] \in Range(q)  BY <1>1, <2>1, OwnSeq
  <2> QED BY <1>1, <2>1, <2>2
<1>3. \A x : At(x, q, 1) = Nest(x, a) /\ At(x, q, 2) = Nest(x, b) /\ At(x, q, 3) = x /\ At(x, q, 4) = x
  BY <1>1 DEF At
<1> QED BY <1>1, <1>2, <1>3 DEF Through

LEMMA ThreeOut ==
  ASSUME NEW a, NEW b, NEW c, NEW q, q = <<a, b, c>>
  PROVE  IsSeq(q) /\ Len(q) = 3 /\ Range(q) = {a, b, c} /\ q[1] = a /\ q[2] = b /\ q[3] = c
         /\ \A x : Through(x, q) = Nest(Nest(Nest(x, a), b), c)
<1>1. q \in Seq({a, b, c}) /\ Len(q) = 3 /\ q[1] = a /\ q[2] = b /\ q[3] = c  OBVIOUS
<1>2. IsSeq(q) /\ Range(q) = {a, b, c}
  <2>1. IsSeq(q) /\ Range(q) \subseteq {a, b, c}  BY <1>1, SeqOfOwn
  <2>2. \A k \in 1..3 : q[k] \in Range(q)  BY <1>1, <2>1, OwnSeq
  <2>3. 1 \in 1..3 /\ 2 \in 1..3 /\ 3 \in 1..3  OBVIOUS
  <2>4. a \in Range(q) /\ b \in Range(q) /\ c \in Range(q)  BY <1>1, <2>2, <2>3
  <2> QED BY <2>1, <2>4
<1>3. \A x : At(x, q, 1) = Nest(x, a) /\ At(x, q, 2) = Nest(x, b) /\ At(x, q, 3) = Nest(x, c) /\ At(x, q, 4) = x
  BY <1>1 DEF At
<1> QED BY <1>1, <1>2, <1>3 DEF Through

LEMMA FourOut ==
  ASSUME NEW a, NEW b, NEW c, NEW d, NEW q, q = <<a, b, c, d>>
  PROVE  IsSeq(q) /\ Len(q) = 4 /\ Range(q) = {a, b, c, d}
         /\ q[1] = a /\ q[2] = b /\ q[3] = c /\ q[4] = d
         /\ \A x : Through(x, q) = Nest(Nest(Nest(Nest(x, a), b), c), d)
<1>1. q \in Seq({a, b, c, d}) /\ Len(q) = 4 /\ q[1] = a /\ q[2] = b /\ q[3] = c /\ q[4] = d  OBVIOUS
<1>2. IsSeq(q) /\ Range(q) = {a, b, c, d}
  <2>1. IsSeq(q) /\ Range(q) \subseteq {a, b, c, d}  BY <1>1, SeqOfOwn
  <2>2. \A k \in 1..4 : q[k] \in Range(q)  BY <1>1, <2>1, OwnSeq
  <2>3. 1 \in 1..4 /\ 2 \in 1..4 /\ 3 \in 1..4 /\ 4 \in 1..4  OBVIOUS
  <2>4. a \in Range(q) /\ b \in Range(q) /\ c \in Range(q) /\ d \in Range(q)  BY <1>1, <2>2, <2>3
  <2> QED BY <2>1, <2>4
<1>3. \A x : At(x, q, 1) = Nest(x, a) /\ At(x, q, 2) = Nest(x, b) /\ At(x, q, 3) = Nest(x, c)
             /\ At(x, q, 4) = Nest(x, d)
  BY <1>1 DEF At
<1> QED BY <1>1, <1>2, <1>3 DEF Through

(* One event more, after what closes the open block.                        *)
BracketedWell(o, ev, b) ==
    /\ b.open \in {"none", "content", "thinking"}
    /\ b.ends <=> IsFailure(ev)
    /\ ev.type \in EndTypes => b.open = "none"
    /\ IsSeq(b.out) /\ Len(b.out) <= 4 /\ b.out # <<>>
    /\ ev \in Range(b.out)
    /\ \A e \in Range(b.out) : e = ev \/ e.type \notin EndTypes \cup {"tool_use"}
    /\ Through(Mark(o), b.out) = IF ev.type \in EndTypes THEN "ended" ELSE Mark(b.open)

LEMMA BoundaryTypes == \A t : Boundary(t).type = t
BY DEF Boundary

LEMMA WrappedWell ==
  ASSUME NEW o, NEW ev, NEW b, NEW q, NEW S,
         b.open \in {"none", "content", "thinking"}, b.ends <=> IsFailure(ev),
         ev.type \in EndTypes => b.open = "none",
         b.out = q, IsSeq(q), Len(q) \in 1..4, Range(q) = S, ev \in S,
         \A e \in S : e = ev \/ e.type \notin EndTypes \cup {"tool_use"},
         Through(Mark(o), q) = IF ev.type \in EndTypes THEN "ended" ELSE Mark(b.open)
  PROVE  BracketedWell(o, ev, b)
<1>1. q # <<>>  BY NoneSeq
<1>2. \A n \in 1..4 : n <= 4  OBVIOUS
<1> QED BY <1>1, <1>2 DEF BracketedWell

LEMMA WrapOne ==
  ASSUME NEW o, NEW ev, NEW b,
         b.open \in {"none", "content", "thinking"}, b.ends <=> IsFailure(ev),
         ev.type \in EndTypes => b.open = "none",
         b.out = <<ev>>,
         Nest(Mark(o), ev) = IF ev.type \in EndTypes THEN "ended" ELSE Mark(b.open)
  PROVE  BracketedWell(o, ev, b)
<1>1. PICK q : q = <<ev>>  OBVIOUS
<1>2. IsSeq(q) /\ Len(q) \in 1..4 /\ Range(q) = {ev} /\ Through(Mark(o), q) = Nest(Mark(o), ev)
  BY <1>1, OneOut
<1> QED BY <1>1, <1>2, WrappedWell

LEMMA WrapTwo ==
  ASSUME NEW o, NEW ev, NEW b, NEW x, x.type \notin EndTypes \cup {"tool_use"},
         b.open \in {"none", "content", "thinking"}, b.ends <=> IsFailure(ev),
         ev.type \in EndTypes => b.open = "none",
         b.out = <<x, ev>>,
         Nest(Nest(Mark(o), x), ev) = IF ev.type \in EndTypes THEN "ended" ELSE Mark(b.open)
  PROVE  BracketedWell(o, ev, b)
<1>1. PICK q : q = <<x, ev>>  OBVIOUS
<1>2. IsSeq(q) /\ Len(q) \in 1..4 /\ Range(q) = {x, ev} /\ Through(Mark(o), q) = Nest(Nest(Mark(o), x), ev)
  BY <1>1, TwoOut
<1> QED BY <1>1, <1>2, WrappedWell

LEMMA WrapThree ==
  ASSUME NEW o, NEW ev, NEW b, NEW x, x.type \notin EndTypes \cup {"tool_use"},
         NEW y, y.type \notin EndTypes \cup {"tool_use"},
         b.open \in {"none", "content", "thinking"}, b.ends <=> IsFailure(ev), ev.type \notin EndTypes,
         \/ b.out = <<x, y, ev>> /\ Nest(Nest(Nest(Mark(o), x), y), ev) = Mark(b.open)
         \/ b.out = <<x, ev, y>> /\ Nest(Nest(Nest(Mark(o), x), ev), y) = Mark(b.open)
  PROVE  BracketedWell(o, ev, b)
<1>1. PICK q : q = b.out  OBVIOUS
<1>2. CASE q = <<x, y, ev>> /\ Nest(Nest(Nest(Mark(o), x), y), ev) = Mark(b.open)
  <2>1. IsSeq(q) /\ Len(q) \in 1..4 /\ Range(q) = {x, y, ev} /\ Through(Mark(o), q) = Mark(b.open)
    BY <1>2, ThreeOut
  <2> QED BY <1>1, <2>1, WrappedWell
<1>3. CASE q = <<x, ev, y>> /\ Nest(Nest(Nest(Mark(o), x), ev), y) = Mark(b.open)
  <2>1. IsSeq(q) /\ Len(q) \in 1..4 /\ Range(q) = {x, ev, y} /\ Through(Mark(o), q) = Mark(b.open)
    BY <1>3, ThreeOut
  <2> QED BY <1>1, <2>1, WrappedWell
<1> QED BY <1>1, <1>2, <1>3

LEMMA WrapFour ==
  ASSUME NEW o, NEW ev, NEW b, NEW w, w.type \notin EndTypes \cup {"tool_use"},
         NEW x, x.type \notin EndTypes \cup {"tool_use"}, NEW y, y.type \notin EndTypes \cup {"tool_use"},
         b.open \in {"none", "content", "thinking"}, b.ends <=> IsFailure(ev), ev.type \notin EndTypes,
         b.out = <<w, x, ev, y>>,
         Nest(Nest(Nest(Nest(Mark(o), w), x), ev), y) = Mark(b.open)
  PROVE  BracketedWell(o, ev, b)
<1>1. PICK q : q = b.out  OBVIOUS
<1>2. IsSeq(q) /\ Len(q) \in 1..4 /\ Range(q) = {w, x, ev, y} /\ Through(Mark(o), q) = Mark(b.open)
  BY <1>1, FourOut
<1> QED BY <1>1, <1>2, WrappedWell

LEMMA JoinedFour ==
  ASSUME NEW a, NEW b, NEW c, NEW d
  PROVE  <<a>> \o <<b, c, d>> = <<a, b, c, d>>
<1>1. PICK p : p = <<a>>  OBVIOUS
<1>2. PICK r : r = <<b, c, d>>  OBVIOUS
<1>3. PICK t : t = <<a, b, c, d>>  OBVIOUS
<1>4. IsSeq(p) /\ Len(p) = 1 /\ p[1] = a  BY <1>1, OneSeq
<1>5. IsSeq(r) /\ Len(r) = 3 /\ r[1] = b /\ r[2] = c /\ r[3] = d  BY <1>2, ThreeOut
<1>6. IsSeq(t) /\ Len(t) = 4 /\ t[1] = a /\ t[2] = b /\ t[3] = c /\ t[4] = d  BY <1>3, FourOut
<1> DEFINE u == p \o r
<1>8. /\ IsSeq(u) /\ Len(u) = 1 + 3
      /\ \A k \in 1..1 : u[k] = p[k]
      /\ \A k \in 1..3 : u[1 + k] = r[k]
  <2>0. IsSeq(p) /\ IsSeq(r)  BY <1>4, <1>5
  <2>1. /\ IsSeq(u) /\ Len(u) = Len(p) + Len(r)
        /\ \A k \in 1..Len(p) : u[k] = p[k]
        /\ \A k \in 1..Len(r) : u[Len(p) + k] = r[k]
    BY <2>0, ConcatSeq
  <2> HIDE DEF u
  <2> QED BY <1>4, <1>5, <2>1
<1> HIDE DEF u
<1>9. 1 \in 1..1 /\ 1 \in 1..3 /\ 2 \in 1..3 /\ 3 \in 1..3 /\ 1 + 1 = 2 /\ 1 + 2 = 3 /\ 1 + 3 = 4  OBVIOUS
<1>10. u[1] = a /\ u[2] = b /\ u[3] = c /\ u[4] = d  BY <1>4, <1>5, <1>8, <1>9
<1>11. \A k \in 1..4 : k = 1 \/ k = 2 \/ k = 3 \/ k = 4  OBVIOUS
<1>12. \A k \in 1..4 : u[k] = t[k]  BY <1>6, <1>10, <1>11
<1>13. u \in Seq(Range(u)) /\ t \in Seq(Range(t)) /\ Len(u) = 4 /\ Len(t) = 4  BY <1>6, <1>8, <1>9 DEF IsSeq
<1>14. u = t  BY <1>12, <1>13
<1> QED BY <1>1, <1>2, <1>3, <1>14 DEF u

LEMMA Joined ==
  ASSUME NEW a, NEW b, NEW c
  PROVE  /\ <<>> \o <<a, b>> = <<a, b>> /\ <<>> \o <<a, b, c>> = <<a, b, c>>
         /\ <<a>> \o <<b, c>> = <<a, b, c>>
         /\ Append(<<>>, a) = <<a>> /\ Append(<<a>>, b) = <<a, b>>
<1>1. <<>> \o <<a, b>> = <<a, b>>  OBVIOUS
<1>2. <<>> \o <<a, b, c>> = <<a, b, c>>  OBVIOUS
<1>3. <<a>> \o <<b, c>> = <<a, b, c>>
  <2>1. PICK p : p = <<a>>  OBVIOUS
  <2>2. PICK r : r = <<b, c>>  OBVIOUS
  <2>3. PICK t : t = <<a, b, c>>  OBVIOUS
  <2>4. IsSeq(p) /\ Len(p) = 1 /\ p[1] = a  BY <2>1, OneSeq
  <2>5. IsSeq(r) /\ Len(r) = 2 /\ r[1] = b /\ r[2] = c  BY <2>2, TwoOut
  <2>6. IsSeq(t) /\ Len(t) = 3 /\ t[1] = a /\ t[2] = b /\ t[3] = c  BY <2>3, ThreeOut
  <2> DEFINE u == p \o r
  <2>7. IsSeq(p) /\ IsSeq(r)  BY <2>4, <2>5
  <2>8. /\ IsSeq(u) /\ Len(u) = Len(p) + Len(r)
        /\ \A k \in 1..Len(p) : u[k] = p[k]
        /\ \A k \in 1..Len(r) : u[Len(p) + k] = r[k]
    BY <2>7, ConcatSeq
  <2> HIDE DEF u
  <2>9. 1 \in 1..1 /\ 1 \in 1..2 /\ 2 \in 1..2 /\ 1 + 1 = 2 /\ 1 + 2 = 3  OBVIOUS
  <2>10. u[1] = a /\ u[2] = b /\ u[3] = c /\ Len(u) = 3  BY <2>4, <2>5, <2>8, <2>9
  <2>11. \A k \in 1..3 : k = 1 \/ k = 2 \/ k = 3  OBVIOUS
  <2>12. \A k \in 1..3 : u[k] = t[k]  BY <2>6, <2>10, <2>11
  <2>13. u \in Seq(Range(u)) /\ t \in Seq(Range(t)) /\ Len(t) = 3  BY <2>6, <2>8 DEF IsSeq
  <2>14. u = t  BY <2>10, <2>12, <2>13
  <2> QED BY <2>1, <2>2, <2>3, <2>14 DEF u
<1>4. Append(<<>>, a) = <<a>>  OBVIOUS
<1>5. Append(<<a>>, b) = <<a, b>>
  <2>1. PICK p : p = <<a>>  OBVIOUS
  <2>2. PICK t : t = <<a, b>>  OBVIOUS
  <2>3. IsSeq(p) /\ Len(p) = 1 /\ p[1] = a  BY <2>1, OneSeq
  <2>4. IsSeq(t) /\ Len(t) = 2 /\ t[1] = a /\ t[2] = b  BY <2>2, TwoOut
  <2> DEFINE u == Append(p, b)
  <2>6. IsSeq(u) /\ Len(u) = Len(p) + 1 /\ (\A k \in 1..Len(p) : u[k] = p[k]) /\ u[Len(p) + 1] = b
    BY <2>3, AppendSeq
  <2> HIDE DEF u
  <2>7. 1 \in 1..1 /\ 1 + 1 = 2  OBVIOUS
  <2>8. u[1] = a /\ u[2] = b /\ Len(u) = 2  BY <2>3, <2>6, <2>7
  <2>9. \A k \in 1..2 : k = 1 \/ k = 2  OBVIOUS
  <2>10. \A k \in 1..2 : u[k] = t[k]  BY <2>4, <2>8, <2>9
  <2>11. u \in Seq(Range(u)) /\ t \in Seq(Range(t))  BY <2>4, <2>6 DEF IsSeq
  <2>12. u = t  BY <2>4, <2>8, <2>10, <2>11
  <2> QED BY <2>1, <2>2, <2>12 DEF u
<1> QED BY <1>1, <1>2, <1>3, <1>4, <1>5

LEMMA BracketedNests ==
  ASSUME NEW o \in {"none", "content", "thinking"}, NEW ev, ev.type \in PlainTypes \cup EndTypes
  PROVE  BracketedWell(o, ev, Bracketed(o, ev))
<1> DEFINE b == Bracketed(o, ev)
<1> SUFFICES BracketedWell(o, ev, b)  OBVIOUS
<1>3. PICK te : te = Boundary("text_end")  OBVIOUS
<1>4. PICK he : he = Boundary("thinking_end")  OBVIOUS
<1>5. te.type = "text_end" /\ he.type = "thinking_end"  BY <1>3, <1>4, BoundaryTypes
<1>6. /\ o = "none" => CloseBlock(o) = <<>> /\ Mark(o) = "none"
      /\ o = "content" => CloseBlock(o) = <<te>> /\ Nest(Mark(o), te) = "none"
      /\ o = "thinking" => CloseBlock(o) = <<he>> /\ Nest(Mark(o), he) = "none"
  BY <1>3, <1>4, <1>5 DEF CloseBlock, Mark, Nest
<1>1. CASE ev.type = "content"
  <2>1. b.open = "content" /\ b.ends = FALSE
        /\ b.out = IF o = "content" THEN <<ev>> ELSE CloseBlock(o) \o <<StartOf("content"), ev>>
    BY <1>1 DEF Bracketed, IsFailure
  <2> HIDE DEF b
  <2>2. PICK st : st = StartOf("content")  OBVIOUS
  <2>3. st.type = "text_start"  BY <2>2, BoundaryTypes DEF StartOf
  <2>4. ev.type \notin EndTypes /\ ~ IsFailure(ev)  BY <1>1 DEF EndTypes, IsFailure
  <2>5. Mark("content") = "text_start"  BY DEF Mark
  <2>6. CASE o = "content"
    <3>1. Nest(Mark(o), ev) = "text_start"  BY <1>1, <2>5, <2>6 DEF Nest
    <3> QED BY <2>1, <2>4, <2>5, <2>6, <3>1, WrapOne
  <2>7. CASE o = "none"
    <3>1. b.out = <<>> \o <<st, ev>>  BY <1>6, <2>1, <2>2, <2>7
    <3>2. b.out = <<st, ev>>  BY <3>1, Joined
    <3>3. Nest(Mark(o), st) = "text_start"  BY <1>6, <2>3, <2>7 DEF Nest
    <3>4. Nest("text_start", ev) = "text_start"  BY <1>1 DEF Nest
    <3>5. st.type \notin EndTypes \cup {"tool_use"}  BY <2>3 DEF EndTypes
    <3> QED BY <2>1, <2>4, <2>5, <3>2, <3>3, <3>4, <3>5, WrapTwo
  <2>8. CASE o = "thinking"
    <3>1. b.out = <<he>> \o <<st, ev>>  BY <1>6, <2>1, <2>2, <2>8
    <3>2. b.out = <<he, st, ev>>  BY <3>1, Joined
    <3>3. Nest(Mark(o), he) = "none" /\ Nest("none", st) = "text_start"  BY <1>6, <2>3, <2>8 DEF Nest
    <3>4. Nest("text_start", ev) = "text_start"  BY <1>1 DEF Nest
    <3>5. st.type \notin EndTypes \cup {"tool_use"} /\ he.type \notin EndTypes \cup {"tool_use"}
      BY <1>5, <2>3 DEF EndTypes
    <3> QED BY <2>1, <2>4, <2>5, <3>2, <3>3, <3>4, <3>5, WrapThree
  <2> QED BY <2>6, <2>7, <2>8
<1>2. CASE ev.type = "thinking"
  <2>1. b.open = "thinking" /\ b.ends = FALSE
        /\ b.out = IF o = "thinking" THEN <<ev>> ELSE CloseBlock(o) \o <<StartOf("thinking"), ev>>
    BY <1>2 DEF Bracketed, IsFailure
  <2> HIDE DEF b
  <2>2. PICK st : st = StartOf("thinking")  OBVIOUS
  <2>3. st.type = "thinking_start"  BY <2>2, BoundaryTypes DEF StartOf
  <2>4. ev.type \notin EndTypes /\ ~ IsFailure(ev)  BY <1>2 DEF EndTypes, IsFailure
  <2>5. Mark("thinking") = "thinking_start"  BY DEF Mark
  <2>6. CASE o = "thinking"
    <3>1. Nest(Mark(o), ev) = "thinking_start"  BY <1>2, <2>5, <2>6 DEF Nest
    <3> QED BY <2>1, <2>4, <2>5, <2>6, <3>1, WrapOne
  <2>7. CASE o = "none"
    <3>1. b.out = <<>> \o <<st, ev>>  BY <1>6, <2>1, <2>2, <2>7
    <3>2. b.out = <<st, ev>>  BY <3>1, Joined
    <3>3. Nest(Mark(o), st) = "thinking_start"  BY <1>6, <2>3, <2>7 DEF Nest
    <3>4. Nest("thinking_start", ev) = "thinking_start"  BY <1>2 DEF Nest
    <3>5. st.type \notin EndTypes \cup {"tool_use"}  BY <2>3 DEF EndTypes
    <3> QED BY <2>1, <2>4, <2>5, <3>2, <3>3, <3>4, <3>5, WrapTwo
  <2>8. CASE o = "content"
    <3>1. b.out = <<te>> \o <<st, ev>>  BY <1>6, <2>1, <2>2, <2>8
    <3>2. b.out = <<te, st, ev>>  BY <3>1, Joined
    <3>3. Nest(Mark(o), te) = "none" /\ Nest("none", st) = "thinking_start"  BY <1>6, <2>3, <2>8 DEF Nest
    <3>4. Nest("thinking_start", ev) = "thinking_start"  BY <1>2 DEF Nest
    <3>5. st.type \notin EndTypes \cup {"tool_use"} /\ te.type \notin EndTypes \cup {"tool_use"}
      BY <1>5, <2>3 DEF EndTypes
    <3> QED BY <2>1, <2>4, <2>5, <3>2, <3>3, <3>4, <3>5, WrapThree
  <2> QED BY <2>6, <2>7, <2>8
<1>7. CASE ev.type = "tool_use"
  <2>1. PICK ts : ts = Boundary("tool_start")  OBVIOUS
  <2>2. PICK tt : tt = Boundary("tool_end")  OBVIOUS
  <2>3. ts.type = "tool_start" /\ tt.type = "tool_end"  BY <2>1, <2>2, BoundaryTypes
  <2>4. b.open = "none" /\ b.ends = FALSE /\ b.out = CloseBlock(o) \o <<ts, ev, tt>>
    BY <1>7, <2>1, <2>2 DEF Bracketed, IsFailure
  <2> HIDE DEF b
  <2>5. Nest("none", ts) = "tool_start" /\ Nest("tool_start", ev) = "tool_start" /\ Nest("tool_start", tt) = "none"
    BY <1>7, <2>3 DEF Nest
  <2>6. ev.type \notin EndTypes /\ ~ IsFailure(ev) /\ Mark("none") = "none"  BY <1>7 DEF EndTypes, IsFailure, Mark
  <2>7. ts.type \notin EndTypes \cup {"tool_use"} /\ tt.type \notin EndTypes \cup {"tool_use"}
        /\ te.type \notin EndTypes \cup {"tool_use"} /\ he.type \notin EndTypes \cup {"tool_use"}
    BY <1>5, <2>3 DEF EndTypes
  <2>8. CASE o = "none"
    <3>1. b.out = <<>> \o <<ts, ev, tt>>  BY <1>6, <2>4, <2>8
    <3>2. b.out = <<ts, ev, tt>>  BY <3>1, Joined
    <3> QED BY <1>6, <2>4, <2>5, <2>6, <2>7, <2>8, <3>2, WrapThree
  <2>9. CASE o = "content"
    <3>1. b.out = <<te>> \o <<ts, ev, tt>>  BY <1>6, <2>4, <2>9
    <3>2. b.out = <<te, ts, ev, tt>>  BY <3>1, JoinedFour
    <3> QED BY <1>6, <2>4, <2>5, <2>6, <2>7, <2>9, <3>2, WrapFour
  <2>10. CASE o = "thinking"
    <3>1. b.out = <<he>> \o <<ts, ev, tt>>  BY <1>6, <2>4, <2>10
    <3>2. b.out = <<he, ts, ev, tt>>  BY <3>1, JoinedFour
    <3> QED BY <1>6, <2>4, <2>5, <2>6, <2>7, <2>10, <3>2, WrapFour
  <2> QED BY <2>8, <2>9, <2>10
<1>8. CASE ev.type \in EndTypes
  <2>1. b.open = "none" /\ (b.ends <=> IsFailure(ev)) /\ b.out = Append(CloseBlock(o), ev)
    <3>1. CASE ev.type = "done"  BY <3>1 DEF Bracketed, IsFailure
    <3>2. CASE ev.type \in {"error", "bare_error"}  BY <3>2 DEF Bracketed, IsFailure
    <3> QED BY <1>8, <3>1, <3>2 DEF EndTypes
  <2> HIDE DEF b
  <2>2. Nest("none", ev) = "ended"  BY <1>8 DEF Nest, EndTypes
  <2>3. te.type \notin EndTypes \cup {"tool_use"} /\ he.type \notin EndTypes \cup {"tool_use"}  BY <1>5 DEF EndTypes
  <2>4. CASE o = "none"
    <3>1. b.out = <<ev>>  BY <1>6, <2>1, <2>4, Joined
    <3> QED BY <1>6, <1>8, <2>1, <2>2, <2>4, <3>1, WrapOne
  <2>5. CASE o = "content"
    <3>1. b.out = <<te, ev>>  BY <1>6, <2>1, <2>5, Joined
    <3> QED BY <1>6, <1>8, <2>1, <2>2, <2>3, <2>5, <3>1, WrapTwo
  <2>6. CASE o = "thinking"
    <3>1. b.out = <<he, ev>>  BY <1>6, <2>1, <2>6, Joined
    <3> QED BY <1>6, <1>8, <2>1, <2>2, <2>3, <2>6, <3>1, WrapTwo
  <2> QED BY <2>4, <2>5, <2>6
<1>9. CASE ev.type = "server_tool"
  <2>1. b.open = o /\ b.ends = FALSE /\ b.out = <<ev>>  BY <1>9 DEF Bracketed, IsFailure
  <2> HIDE DEF b
  <2>2. Nest(Mark(o), ev) = Mark(o)  BY <1>9 DEF Nest, Mark
  <2>3. ev.type \notin EndTypes /\ ~ IsFailure(ev)  BY <1>9 DEF IsFailure, EndTypes
  <2> QED BY <2>1, <2>2, <2>3, WrapOne
<1> HIDE DEF b
<1> QED BY <1>1, <1>2, <1>7, <1>8, <1>9 DEF PlainTypes

(* The first of what is queued, and what is left then.                      *)
LEMMA QueuedEvent ==
  ASSUME QueueOK, queue # <<>>, phase \in {"reading", "ending"}
  PROVE  LET ev == Head(queue)
         IN /\ ev.type \in PlainTypes \cup EndTypes
            /\ phase = "reading" /\ ev.type \in EndTypes => ev = BareError /\ Tail(queue) = <<>>
            /\ phase = "reading" => Plain(Tail(queue))
            /\ phase = "ending" /\ ev.type \in EndTypes => Tail(queue) = <<>>
            /\ phase = "ending" /\ ev.type \notin EndTypes => Ending(Tail(queue))
            /\ ev.type = "done" => EndsWithDone(queue)
            /\ EndsWithDone(Tail(queue)) => EndsWithDone(queue)
<1> DEFINE ev == Head(queue)
           t == Tail(queue)
<1>1. \A x \in PlainTypes : x \notin EndTypes  BY DEF PlainTypes, EndTypes
<1>2. CASE phase = "reading" /\ Plain(queue)
  <2>1. ev.type \in PlainTypes /\ Plain(t)  BY <1>2, PlainTail
  <2>2. ~ EndsWithDone(t)
    <3> HIDE DEF t
    <3>1. SUFFICES ASSUME t # <<>> PROVE t[Len(t)].type # "done"  BY DEF EndsWithDone
    <3>2. IsSeq(t)  BY <2>1 DEF Plain
    <3>3. Len(t) \in 1..Len(t)  BY <3>1, <3>2, OwnSeq
    <3>4. t[Len(t)].type \in PlainTypes  BY <2>1, <3>2, <3>3, OwnSeq DEF Plain
    <3> QED BY <3>4 DEF PlainTypes
  <2>3. ev.type # "done"  BY <2>1 DEF PlainTypes
  <2> QED BY <1>1, <1>2, <2>1, <2>2, <2>3
<1>3. CASE phase = "reading" /\ queue = <<BareError>>
  <2>1. ev = BareError /\ t = <<>>  BY <1>3
  <2>2. ev.type = "bare_error"  BY <2>1, EventTypes
  <2>3. Plain(t) /\ ~ EndsWithDone(t)  BY <2>1, PlainNone DEF EndsWithDone
  <2> QED BY <1>1, <1>3, <2>1, <2>2, <2>3 DEF EndTypes
<1>4. CASE phase = "ending" /\ Ending(queue)
  <2>1. CASE Len(queue) = 1
    <3>1. ev.type \in EndTypes /\ t = <<>>  BY <1>4, <2>1, EndingTail
    <3>2. IsSeq(queue) /\ queue # <<>>  BY <1>4 DEF Ending
    <3>3. ev = queue[1]  BY <3>2, TailSeq
    <3>4. ~ EndsWithDone(t) /\ (ev.type = "done" => EndsWithDone(queue))  BY <2>1, <3>1, <3>2, <3>3 DEF EndsWithDone
    <3> QED BY <1>1, <1>4, <3>1, <3>4
  <2>2. CASE Len(queue) # 1
    <3>1. ev.type \in PlainTypes /\ Ending(t) /\ t[Len(t)] = queue[Len(queue)]  BY <1>4, <2>2, EndingTail
    <3>2. queue # <<>> /\ ev.type # "done"  BY <1>4, <3>1 DEF Ending, PlainTypes
    <3>3. EndsWithDone(t) => EndsWithDone(queue)  BY <3>1, <3>2 DEF EndsWithDone
    <3> QED BY <1>1, <1>4, <3>1, <3>2, <3>3
  <2> QED BY <2>1, <2>2
<1> QED BY <1>2, <1>3, <1>4 DEF QueueOK

LEMMA PassKeeps == ASSUME StreamInv, Pass PROVE StreamInv'
<1> DEFINE ev == Head(queue)
           t == Tail(queue)
           b == IF wrapped THEN Bracketed(open, ev) ELSE [open |-> open, out |-> <<ev>>, ends |-> FALSE]
<1>1. /\ phase \in {"reading", "ending"} /\ out = <<>> /\ queue # <<>>
      /\ out' = b.out /\ open' = b.open
      /\ queue' = IF b.ends THEN <<>> ELSE t
      /\ phase' = IF b.ends THEN "closed" ELSE phase
      /\ UNCHANGED setting /\ sent' = sent /\ adapter' = adapter /\ acc' = acc /\ nesting' = nesting
      /\ broke' = broke
  BY DEF Pass, Passing, consumer
<1>2. /\ ev.type \in PlainTypes \cup EndTypes
      /\ phase = "reading" /\ ev.type \in EndTypes => ev = BareError /\ t = <<>>
      /\ phase = "reading" => Plain(t)
      /\ phase = "ending" /\ ev.type \in EndTypes => t = <<>>
      /\ phase = "ending" /\ ev.type \notin EndTypes => Ending(t)
      /\ ev.type = "done" => EndsWithDone(queue)
      /\ EndsWithDone(t) => EndsWithDone(queue)
  BY <1>1, QueuedEvent DEF StreamInv
<1>3. open \in {"none", "content", "thinking"} /\ wrapped \in BOOLEAN  BY DEF StreamInv, OpenOK, SettingOK
<1> HIDE DEF ev, t
<1>4. wrapped => BracketedWell(open, ev, b)
  <2>1. CASE wrapped
    <3>1. b = Bracketed(open, ev)  BY <2>1
    <3> QED BY <1>2, <1>3, <3>1, BracketedNests
  <2> QED BY <2>1
<1>5. ~ wrapped => b.open = open /\ b.out = <<ev>> /\ b.ends = FALSE  OBVIOUS
<1> HIDE DEF b
<1>6. /\ b.open \in {"none", "content", "thinking"} /\ IsSeq(b.out) /\ Len(b.out) <= 4 /\ ev \in Range(b.out)
      /\ \A e \in Range(b.out) : e = ev \/ e.type \notin EndTypes
  <2>1. CASE wrapped  BY <1>4, <2>1 DEF BracketedWell
  <2>2. CASE ~ wrapped
    <3>1. PICK q : q = <<ev>>  OBVIOUS
    <3>2. IsSeq(q) /\ Len(q) = 1 /\ Range(q) = {ev}  BY <3>1, OneSeq
    <3>3. b.out = q /\ b.open = open  BY <1>5, <2>2, <3>1
    <3>4. ev \in Range(b.out) /\ \A e \in Range(b.out) : e = ev  BY <3>2, <3>3
    <3>5. IsSeq(b.out) /\ Len(b.out) <= 4  BY <3>2, <3>3
    <3> QED BY <1>3, <3>3, <3>4, <3>5
  <2> QED BY <1>3, <2>1, <2>2
<1>7. SettingOK' /\ provider' = provider /\ wrapped' = wrapped  BY <1>1, SettingStays DEF StreamInv
<1>8. SentOK' /\ (AllSent <=> AllSent')  BY <1>1, SameSent DEF StreamInv
<1>9. FoldOK' /\ OutOK'  BY <1>1, <1>6 DEF StreamInv, FoldOK, OutOK
<1>10. b.ends => IsFailure(ev)  BY <1>4, <1>5 DEF BracketedWell
<1>11. IsFailure(ev) => ev.type \in EndTypes /\ ev.type # "done"  BY DEF IsFailure, EndTypes
<1>12. QueueOK'
  <2>1. CASE b.ends  BY <1>1, <2>1 DEF QueueOK
  <2>2. CASE ~ b.ends  BY <1>1, <1>2, <2>2 DEF QueueOK
  <2> QED BY <2>1, <2>2
<1>13. (provider = "openai" => OpenAIOK(adapter))'  BY <1>1, <1>7 DEF StreamInv
<1>14. Ended' => ev.type \in EndTypes
  <2>1. CASE b.ends  BY <1>10, <1>11, <2>1
  <2>2. CASE ~ b.ends
    <3>1. phase' = phase /\ queue' = t  BY <1>1, <2>2
    <3>2. Ended' => phase = "ending" /\ t = <<>>  BY <1>1, <3>1 DEF Ended
    <3>3. ~ Ending(<<>>)  BY DEF Ending
    <3> QED BY <1>2, <3>2, <3>3
  <2> QED BY <2>1, <2>2
<1>15. OpenOK'  BY <1>1, <1>4, <1>6, <1>7, <1>14 DEF OpenOK, BracketedWell
<1>16. DoneIsLate'
  <2>1. EndsWithDone(queue') => AllSent
    <3>1. ~ EndsWithDone(<<>>)  BY DEF EndsWithDone
    <3> QED BY <1>1, <1>2, <3>1 DEF StreamInv, DoneIsLate
  <2>2. DoneIn(out') => AllSent
    <3>1. DoneIn(b.out) => ev.type = "done"  BY <1>6 DEF DoneIn, EndTypes
    <3> QED BY <1>1, <1>2, <3>1 DEF StreamInv, DoneIsLate
  <2>3. acc'.done => AllSent  BY <1>1 DEF StreamInv, DoneIsLate
  <2>4. provider' = "openai" /\ Finished(adapter') => AllSent  BY <1>1, <1>7 DEF StreamInv, DoneIsLate
  <2> QED BY <1>8, <2>1, <2>2, <2>3, <2>4 DEF DoneIsLate
<1>17. EndArrives'
  <2>1. Ended' => EndIn(b.out)  BY <1>6, <1>14 DEF EndIn
  <2> QED BY <1>1, <2>1 DEF EndArrives, EndIn
<1>18. NestingOK'
  <2> SUFFICES ASSUME wrapped
               PROVE  nesting # "broken" /\ Through(nesting, out') = (IF Ended' THEN "ended" ELSE Mark(open'))
    BY <1>1, <1>7 DEF NestingOK
  <2>1. ~ Ended /\ phase # "left"  BY <1>1 DEF Ended
  <2>2. nesting # "broken" /\ Through(nesting, out) = Mark(open)  BY <2>1 DEF StreamInv, NestingOK
  <2>3. Through(nesting, <<>>) = nesting
    <3>1. \A x : At(x, <<>>, 1) = x /\ At(x, <<>>, 2) = x /\ At(x, <<>>, 3) = x /\ At(x, <<>>, 4) = x
      BY DEF At
    <3> QED BY <3>1 DEF Through
  <2>4. nesting = Mark(open)  BY <1>1, <2>2, <2>3
  <2>5. Through(nesting, b.out) = IF ev.type \in EndTypes THEN "ended" ELSE Mark(b.open)
    BY <1>4, <2>4 DEF BracketedWell
  <2>6. ev.type \in EndTypes => Ended'
    <3>1. ASSUME ev.type \in EndTypes, ~ b.ends PROVE Ended'
      <4>1. ~ IsFailure(ev)  BY <1>4, <3>1 DEF BracketedWell
      <4>2. phase = "ending"
        <5>1. BareError.type = "bare_error"  BY EventTypes
        <5> QED BY <1>1, <1>2, <3>1, <4>1, <5>1 DEF IsFailure
      <4> QED BY <1>1, <1>2, <3>1, <4>2 DEF Ended
    <3> QED BY <1>1, <3>1 DEF Ended
  <2> QED BY <1>1, <1>14, <2>2, <2>5, <2>6
<1> QED BY <1>7, <1>8, <1>9, <1>12, <1>13, <1>15, <1>16, <1>17, <1>18 DEF StreamInv

LEMMA FinishKeeps == ASSUME StreamInv, Finish PROVE StreamInv'
<1>1. /\ phase = "ending" /\ queue = <<>> /\ out = <<>> /\ phase' = "closed" /\ open' = "none"
      /\ out' = (IF wrapped THEN CloseBlock(open) ELSE <<>>)
      /\ UNCHANGED setting /\ sent' = sent /\ adapter' = adapter /\ queue' = queue /\ acc' = acc
      /\ nesting' = nesting /\ broke' = broke
  BY DEF Finish, Passing, consumer
<1>2. Ended /\ Ended'  BY <1>1 DEF Ended
<1>3. wrapped => open = "none"  BY <1>2 DEF StreamInv, OpenOK
<1>4. out' = <<>>  BY <1>1, <1>3 DEF CloseBlock
<1>5. SettingOK' /\ provider' = provider /\ wrapped' = wrapped  BY <1>1, SettingStays DEF StreamInv
<1>6. SentOK' /\ (AllSent <=> AllSent')  BY <1>1, SameSent DEF StreamInv
<1>7. FoldOK' /\ QueueOK'  BY <1>1 DEF StreamInv, FoldOK, QueueOK
<1>8. OutOK'
  <2>1. IsSeq(out) /\ Len(out) <= 4  BY DEF StreamInv, OutOK
  <2> QED BY <1>1, <1>4, <2>1 DEF OutOK
<1>9. OpenOK'  BY <1>1 DEF OpenOK
<1>10. (provider = "openai" => OpenAIOK(adapter))'  BY <1>1, <1>5 DEF StreamInv
<1>11. DoneIsLate'  BY <1>1, <1>4, <1>5, <1>6 DEF StreamInv, DoneIsLate, EndsWithDone, DoneIn
<1>12. EndArrives'  BY <1>1, <1>2, <1>4 DEF StreamInv, EndArrives, EndIn
<1>13. NestingOK'
  <2>1. Through(nesting, out') = Through(nesting, out)  BY <1>1, <1>4
  <2> QED BY <1>1, <1>2, <1>5, <2>1 DEF StreamInv, NestingOK
<1> QED BY <1>5, <1>6, <1>7, <1>8, <1>9, <1>10, <1>11, <1>12, <1>13 DEF StreamInv

LEMMA FoldStep ==
  ASSUME FoldOK, NEW ev
  PROVE  /\ DOMAIN Add(acc, ev) = {"text", "thinking", "calls", "final", "done"}
         /\ Add(acc, ev).done = (IF ev.type = "done" THEN TRUE ELSE acc.done)
BY DEF FoldOK, Add

LEMMA TakeKeeps == ASSUME StreamInv, Take PROVE StreamInv'
<1> DEFINE ev == Head(out)
           t == Tail(out)
<1>1. /\ out # <<>> /\ phase # "left" /\ out' = t /\ acc' = Add(acc, ev) /\ nesting' = Nest(nesting, ev)
      /\ broke' = (broke \/ IsFailure(ev)) /\ phase' = phase /\ open' = open /\ queue' = queue
      /\ UNCHANGED setting /\ sent' = sent /\ adapter' = adapter
  BY DEF Take
<1>2. IsSeq(out) /\ Len(out) <= 4  BY DEF StreamInv, OutOK
<1>3. /\ Through(nesting, out) = Through(Nest(nesting, ev), t) /\ Len(t) <= 4 /\ IsSeq(t)
      /\ ev \in Range(out) /\ Range(t) \subseteq Range(out)
      /\ \A e \in Range(out) : e = ev \/ e \in Range(t)
  <2>1. Through(nesting, out) = Through(Nest(nesting, ev), t) /\ Len(t) <= 4 /\ IsSeq(t)
    BY <1>1, <1>2, FourSteps
  <2>2. /\ ev = out[1] /\ ev \in Range(out) /\ Len(t) = Len(out) - 1 /\ Range(t) \subseteq Range(out)
        /\ \A k \in 1..(Len(out) - 1) : t[k] = out[k + 1]
    BY <1>1, <1>2, TailSeq
  <2>3. ASSUME NEW e \in Range(out) PROVE e = ev \/ e \in Range(t)
    <3> HIDE DEF t, ev
    <3>1. Len(out) \in Nat /\ \E k \in 1..Len(out) : e = out[k]  BY <1>2, OwnSeq
    <3>2. PICK k \in 1..Len(out) : e = out[k]  BY <3>1
    <3>3. CASE k = 1  BY <2>2, <3>2, <3>3
    <3>4. CASE k # 1
      <4>1. k - 1 \in 1..(Len(out) - 1) /\ (k - 1) + 1 = k  BY <3>1, <3>4
      <4>2. t[k - 1] = e /\ k - 1 \in 1..Len(t)  BY <2>2, <3>2, <4>1
      <4> QED BY <2>1, <4>2, OwnSeq
    <3> QED BY <3>3, <3>4
  <2> QED BY <2>1, <2>2, <2>3
<1> HIDE DEF ev, t
<1>4. SettingOK' /\ provider' = provider /\ wrapped' = wrapped  BY <1>1, SettingStays DEF StreamInv
<1>5. SentOK' /\ (AllSent <=> AllSent')  BY <1>1, SameSent DEF StreamInv
<1>6. /\ DOMAIN acc' = {"text", "thinking", "calls", "final", "done"}
      /\ acc'.done = (IF ev.type = "done" THEN TRUE ELSE acc.done) /\ acc.done \in BOOLEAN
  BY <1>1, FoldStep DEF StreamInv, FoldOK
<1>7. FoldOK' /\ QueueOK'  BY <1>1, <1>6 DEF StreamInv, FoldOK, QueueOK
<1>8. OutOK'
  <2>1. phase \notin {"connecting", "left"}  BY <1>1 DEF StreamInv, OutOK
  <2> QED BY <1>1, <1>3, <2>1 DEF OutOK
<1>9. Ended' <=> Ended  BY <1>1 DEF Ended
<1>10. OpenOK'  BY <1>1, <1>4, <1>9 DEF StreamInv, OpenOK
<1>11. (provider = "openai" => OpenAIOK(adapter))'  BY <1>1, <1>4 DEF StreamInv
<1>12. DoneIsLate'
  <2>1. DoneIn(t) => DoneIn(out)  BY <1>3 DEF DoneIn
  <2>2. ev.type = "done" => DoneIn(out)  BY <1>3 DEF DoneIn
  <2>3. EndsWithDone(queue) \/ DoneIn(out) \/ acc.done \/ (provider = "openai" /\ Finished(adapter)) => AllSent
    BY DEF StreamInv, DoneIsLate
  <2>4. DoneIn(out') \/ acc'.done => AllSent  BY <1>1, <1>6, <2>1, <2>2, <2>3
  <2>5. EndsWithDone(queue') \/ (provider' = "openai" /\ Finished(adapter')) => AllSent  BY <1>1, <1>4, <2>3
  <2> QED BY <1>5, <2>4, <2>5 DEF DoneIsLate
<1>13. EndArrives'
  <2> SUFFICES ASSUME Ended PROVE acc'.done \/ broke' \/ EndIn(t)  BY <1>1, <1>9 DEF EndArrives, EndIn
  <2>1. acc.done \/ broke \/ EndIn(out)  BY DEF StreamInv, EndArrives
  <2>2. acc.done => acc'.done  BY <1>6
  <2>3. ev.type \in EndTypes => acc'.done \/ broke'  BY <1>1, <1>6 DEF EndTypes, IsFailure
  <2>4. EndIn(out) => ev.type \in EndTypes \/ EndIn(t)  BY <1>3 DEF EndIn
  <2> QED BY <1>1, <2>1, <2>2, <2>3, <2>4
<1>14. NestingOK'
  <2> SUFFICES ASSUME wrapped
               PROVE  /\ nesting' # "broken"
                      /\ Through(nesting', t) = IF Ended THEN "ended" ELSE Mark(open)
    BY <1>1, <1>4, <1>9 DEF NestingOK
  <2>1. Through(nesting, out) = IF Ended THEN "ended" ELSE Mark(open)  BY <1>1 DEF StreamInv, NestingOK
  <2>2. Through(nesting', t) = IF Ended THEN "ended" ELSE Mark(open)  BY <1>1, <1>3, <2>1
  <2>3. open \in {"none", "content", "thinking"}  BY DEF StreamInv, OpenOK
  <2>4. Mark(open) # "broken"  BY <2>3 DEF Mark
  <2>5. Through(nesting', t) # "broken"  BY <2>2, <2>4
  <2> QED BY <2>2, <2>5, BrokenThrough
<1> QED BY <1>4, <1>5, <1>7, <1>8, <1>10, <1>11, <1>12, <1>13, <1>14 DEF StreamInv

LEMMA LeaveKeeps == ASSUME StreamInv, Leave PROVE StreamInv'
<1>1. /\ phase' = "left" /\ queue' = <<>> /\ out' = <<>> /\ open' = open /\ acc' = acc /\ nesting' = nesting
      /\ broke' = broke /\ UNCHANGED setting /\ sent' = sent /\ adapter' = adapter
  BY DEF Leave, consumer
<1>2. SettingOK' /\ provider' = provider /\ wrapped' = wrapped  BY <1>1, SettingStays DEF StreamInv
<1>3. SentOK' /\ (AllSent <=> AllSent')  BY <1>1, SameSent DEF StreamInv
<1>4. FoldOK' /\ QueueOK'  BY <1>1 DEF StreamInv, FoldOK, QueueOK
<1>5. OutOK'
  <2>1. IsSeq(<<>>) /\ Len(<<>>) <= 4  BY NoneSeq
  <2> QED BY <1>1, <2>1 DEF OutOK
<1>6. ~ Ended'  BY <1>1 DEF Ended
<1>7. OpenOK'  BY <1>1, <1>6 DEF StreamInv, OpenOK
<1>8. (provider = "openai" => OpenAIOK(adapter))'  BY <1>1, <1>2 DEF StreamInv
<1>9. DoneIsLate'
  <2>1. ~ EndsWithDone(<<>>) /\ ~ DoneIn(<<>>)  BY NoneSeq DEF EndsWithDone, DoneIn
  <2>2. acc.done \/ (provider = "openai" /\ Finished(adapter)) => AllSent  BY DEF StreamInv, DoneIsLate
  <2>3. ~ EndsWithDone(queue') /\ ~ DoneIn(out')  BY <1>1, <2>1 DEF DoneIn
  <2>4. acc'.done \/ (provider' = "openai" /\ Finished(adapter')) => AllSent  BY <1>1, <1>2, <2>2
  <2> QED BY <1>3, <2>3, <2>4 DEF DoneIsLate
<1>10. EndArrives' /\ NestingOK'  BY <1>1, <1>2, <1>6 DEF StreamInv, EndArrives, NestingOK
<1> QED BY <1>2, <1>3, <1>4, <1>5, <1>7, <1>8, <1>9, <1>10 DEF StreamInv

LEMMA InitStream == ASSUME Init PROVE StreamInv
<1>1. /\ provider \in Providers /\ quirk \in Quirks(provider) /\ wrapped \in BOOLEAN
      /\ sent = [g \in Groups |-> 0] /\ open = "none" /\ queue = <<>> /\ out = <<>>
      /\ acc = EmptyFold /\ nesting = "none" /\ broke = FALSE /\ phase = "connecting"
  BY DEF Init
<1>2. PICK kinds \in Turns : Speaks(provider, kinds)
                             /\ \E stop \in StopsOf(kinds) : reply = [kinds |-> kinds, stop |-> stop]
  BY DEF Init
<1>3. SettingOK  BY <1>1, <1>2 DEF SettingOK
<1>4. SentOK
  <2>1. \A g \in Groups : Len(LinesOf(g)) \in Nat  BY <1>3, LinesAre
  <2>2. \A g \in Groups : sent[g] = 0  BY <1>1
  <2>3. sent \in [Groups -> Nat]  BY <1>1
  <2> QED BY <2>1, <2>2, <2>3 DEF SentOK
<1>5. FoldOK  BY <1>1 DEF FoldOK, EmptyFold
<1>6. QueueOK  BY <1>1 DEF QueueOK
<1>7. OutOK
  <2>1. IsSeq(<<>>) /\ Len(<<>>) <= 4  BY NoneSeq
  <2> QED BY <1>1, <2>1 DEF OutOK
<1>8. ~ Ended  BY <1>1 DEF Ended
<1>9. OpenOK  BY <1>1, <1>8 DEF OpenOK
<1>10. provider = "openai" => OpenAIOK(adapter) /\ ~ Finished(adapter)
  <2> SUFFICES ASSUME provider = "openai" PROVE OpenAIOK(adapter) /\ ~ Finished(adapter)  OBVIOUS
  <2>1. PICK limit \in InputLimits : adapter = StartOfAdapter(provider, limit)  BY DEF Init
  <2>2. adapter = OpenAIStart(limit) /\ limit \in Nat  BY <2>1, StreamAssumption DEF StartOfAdapter
  <2>3. PICK cs : cs = <<>>  OBVIOUS
  <2>4. adapter = [limit |-> limit, finish |-> "none", usage |-> FALSE, calls |-> cs, latest |-> 0,
                   pending |-> 0, sawDone |-> FALSE, anyCall |-> FALSE]
    BY <2>2, <2>3 DEF OpenAIStart
  <2>5. cs \in Seq(CallSet) /\ Len(cs) = 0  BY <2>3
  <2>6. adapter \in OpenAISet  BY <2>2, <2>4, <2>5 DEF OpenAISet, Finishes
  <2>7. adapter.latest <= Len(adapter.calls)  BY <2>4, <2>5
  <2> QED BY <2>4, <2>6, <2>7 DEF OpenAIOK, Finished
<1>11. DoneIsLate
  <2>1. ~ EndsWithDone(<<>>) /\ ~ DoneIn(<<>>)  BY NoneSeq DEF EndsWithDone, DoneIn
  <2>2. ~ acc.done  BY <1>1 DEF EmptyFold
  <2> QED BY <1>1, <1>10, <2>1, <2>2 DEF DoneIsLate
<1>12. EndArrives  BY <1>8 DEF EndArrives
<1>13. NestingOK
  <2>1. Through("none", <<>>) = "none"
    <3>1. \A x : At(x, <<>>, 1) = x /\ At(x, <<>>, 2) = x /\ At(x, <<>>, 3) = x /\ At(x, <<>>, 4) = x
      BY DEF At
    <3> QED BY <3>1 DEF Through
  <2>2. Mark("none") = "none"  BY DEF Mark
  <2> QED BY <1>1, <1>8, <2>1, <2>2 DEF NestingOK
<1> QED BY <1>3, <1>4, <1>5, <1>6, <1>7, <1>9, <1>10, <1>11, <1>12, <1>13 DEF StreamInv

LEMMA StuttersKeep == ASSUME StreamInv, UNCHANGED vars PROVE StreamInv'
<1>1. UNCHANGED setting /\ sent' = sent  BY DEF vars
<1>2. SentOK' /\ (AllSent => AllSent')  BY <1>1, SameSent DEF StreamInv
<1> QED BY <1>2, QuietKeeps DEF vars

LEMMA NextKeeps == ASSUME StreamInv, [Next]_vars PROVE StreamInv'
BY RefusedKeeps, AcceptedKeeps, GarbledKeeps, ErrorEventKeeps, CutKeeps, PassKeeps, FinishKeeps,
   TakeKeeps, LeaveKeeps, ReceiveKeeps, LeaveOutKeeps, StuttersKeep
DEF Next

(* The invariant above holds of every reply, fault and interleaving.        *)
THEOREM StreamIsInvariant == Spec => []StreamInv
<1>1. Init => StreamInv  BY InitStream
<1>2. StreamInv /\ [Next]_vars => StreamInv'  BY NextKeeps
<1> QED BY <1>1, <1>2, PTL DEF Spec

(* A turn the provider did not end is never taken for a whole one           *)
(* (anthropic.go:1101), in whatever order lines arrive, go missing or are   *)
(* garbled, and wherever the connection is cut.                             *)
THEOREM TruncationNeverPasses == Spec => []TruncationIsAnError
<1>1. StreamInv => TruncationIsAnError
  <2> SUFFICES ASSUME StreamInv PROVE TruncationIsAnError  OBVIOUS
  <2>1. acc.done => \A i \in DOMAIN reply.kinds : Sent(i)  BY DEF StreamInv, DoneIsLate, AllSent
  <2>2. ASSUME Over PROVE acc.done \/ broke
    <3>1. Ended /\ out = <<>>  BY <2>2 DEF Over, Ended
    <3>2. ~ EndIn(out)  BY <3>1, NoneSeq DEF EndIn
    <3> QED BY <3>1, <3>2 DEF StreamInv, EndArrives
  <2>3. acc.done \/ broke => Collected(acc, broke) # "incomplete"  BY DEF Collected
  <2> QED BY <2>1, <2>2, <2>3 DEF TruncationIsAnError
<1> QED BY <1>1, StreamIsInvariant, PTL

(* Whatever the adapter yields, the consumer behind the wrapper sees every  *)
(* boundary it was shown closed again, deltas inside their own block and    *)
(* nothing after the event that ends the stream (streamevents.go:50).       *)
THEOREM BoundariesAlwaysNest == Spec => []BoundariesNest
<1>1. StreamInv => BoundariesNest
  <2> SUFFICES ASSUME StreamInv, wrapped PROVE nesting # "broken" /\ (Over => nesting = "ended")
    BY DEF BoundariesNest
  <2>1. nesting # "broken"  BY DEF StreamInv, NestingOK
  <2>2. ASSUME Over PROVE nesting = "ended"
    <3>1. Ended /\ out = <<>> /\ phase = "closed"  BY <2>2 DEF Over, Ended
    <3>2. Through(nesting, <<>>) = "ended"  BY <3>1 DEF StreamInv, NestingOK
    <3>3. \A x : At(x, <<>>, 1) = x /\ At(x, <<>>, 2) = x /\ At(x, <<>>, 3) = x /\ At(x, <<>>, 4) = x
      BY DEF At
    <3> QED BY <3>2, <3>3 DEF Through
  <2> QED BY <2>1, <2>2
<1> QED BY <1>1, StreamIsInvariant, PTL

-----------------------------------------------------------------------------
(* The inductive invariants behind BuffersBounded and ArgsNeverSpliced.     *)
(* First: a call's first n fragments, as they are streamed.                 *)
First(id, n) == [k \in 1..n |-> <<id, k>>]

Tools         == {b \in DOMAIN reply.kinds : reply.kinds[b] = "tool"}
Servers       == {b \in DOMAIN reply.kinds : reply.kinds[b] = "server"}
InProgress(b) == sent[b] > 0 /\ ~ Sent(b)

(* A later line is sent only once the ones before are, or interleaved.      *)
OrderOK == \A g, h \in Groups : g < h /\ sent[h] > 0 => Sent(g) \/ Interleaves(g, h)

Unspliced(c) ==
    c.input.raw = SubSeq(WholeArgs(IF provider = "gemini" THEN c.id[3] ELSE c.id), 1, Len(c.input.raw))
EventsOK(q)  == \A e \in Range(q) : e.type = "tool_use" => Unspliced(e.call)

(* Every call on its way to the consumer, or folded already.                *)
CallsOK == /\ EventsOK(queue) /\ EventsOK(out)
           /\ IsSeq(acc.calls) /\ \A c \in Range(acc.calls) : Unspliced(c)

(* The adapter is read from until its stream has ended.                     *)
Live == phase \in {"connecting", "reading"}

AnthropicFields == {"limit", "started", "usage", "call", "callIndex", "buf", "blocks"}
BlockFields     == {"index", "kind", "id", "frags", "complete", "open", "input"}
AnthropicOK(s)  == /\ DOMAIN s = AnthropicFields /\ s.limit \in Nat
                   /\ IsSeq(s.buf) /\ Len(s.buf) <= s.limit

(* Input is collected in a block itself only for a server's tool.           *)
BlockOK(b)   == DOMAIN b = BlockFields /\ (b.open => b.index \in Servers)
BlocksOK(bs) == IsSeq(bs) /\ \A b \in Range(bs) : BlockOK(b)

(* The call being read is that of the last block begun, as far as it came.  *)
Got(j)          == IF sent[j] - 1 < ArgsFragments THEN sent[j] - 1 ELSE ArgsFragments
ReadsCall(s, j) == /\ s.call = BlockIDs[j] /\ sent[j] > 0
                   /\ s.buf = First(BlockIDs[j], Got(j))
                   /\ \A h \in Groups : h > j => sent[h] = 0
AnthropicFit(s) == BlocksOK(s.blocks) /\ (s.call = "none" \/ \E j \in Tools : ReadsCall(s, j))

(* What is counted is what is there.                                        *)
Counted(s, F) == IsFiniteSet(F) /\ s.pending = Cardinality(F) /\ s.pending <= s.limit

(* Every call kept is one block's, as far as it was sent, and the next      *)
(* delta of a block in progress finds its own call.                         *)
CallOf(c, b)   == c.id = BlockIDs[b] /\ c.index = Number(b) /\ sent[b] > 0 /\ c.args = First(BlockIDs[b], sent[b])
NextCall(s, b) == IF quirk = "noindex" THEN s.latest ELSE CallAt(s, Number(b))
OpenAICounts(s) == Counted(s, Fragments(s.calls, Unemitted(s.calls)))
OpenAIFit(s)   ==
    /\ \A p \in 1..Len(s.calls) : \E b \in Tools : CallOf(s.calls[p], b)
    /\ \A p, q \in 1..Len(s.calls) : p # q => s.calls[p].id # s.calls[q].id
    /\ \A b \in Tools : InProgress(b) => LET p == NextCall(s, b)
                                         IN p \in 1..Len(s.calls) /\ s.calls[p].id = BlockIDs[b] /\ ~ s.calls[p].emitted

ResponsesFields == {"limit", "buffers", "keyed", "pending", "anyCall"}
BufferSet       == [id : Names, args : Seq(ArgFrags)]
ResponsesOK(s)  ==
    /\ DOMAIN s = ResponsesFields /\ s.limit \in Nat /\ s.buffers \in Seq(BufferSet)
    /\ \A k \in DOMAIN s.keyed : s.keyed[k] \in 1..Len(s.buffers)
    /\ Counted(s, Fragments(s.buffers, DOMAIN s.buffers))

(* The key a block's deltas come with means a buffer of its own, which has  *)
(* the block's fragments so far. It may be unknown before the first delta.  *)
ItemKey(b)  == <<"item", BlockIDs[b]>>
PlaceKey(b) == <<"#", b>>
Key(b)      == IF quirk = "noitem" THEN PlaceKey(b) ELSE ItemKey(b)
Has(s, b)   == InProgress(b) /\ Key(b) \in DOMAIN s.keyed
At1(s, b)   == s.buffers[s.keyed[Key(b)]]
ResponsesFit(s) ==
    /\ \A b \in Tools : ItemKey(b) \in DOMAIN s.keyed => sent[b] > 0
    /\ \A b \in Tools : InProgress(b) /\ (quirk # "none" \/ sent[b] > 1) => Key(b) \in DOMAIN s.keyed
    /\ \A b \in Tools : Has(s, b) => /\ At1(s, b).args = First(BlockIDs[b], sent[b] - 1)
                                     /\ quirk # "none" => At1(s, b).id = BlockIDs[b]
    /\ \A b, d \in Tools : b # d /\ Has(s, b) /\ Has(s, d) => s.keyed[Key(b)] # s.keyed[Key(d)]

GeminiOK(s) == DOMAIN s = {"limit", "next", "usage"} /\ s.limit \in Nat

AdapterOK ==
    /\ provider = "anthropic" => AnthropicOK(adapter)
    /\ provider = "openai"    => OpenAICounts(adapter)
    /\ provider = "responses" => ResponsesOK(adapter)
    /\ provider = "gemini"    => GeminiOK(adapter)
AdapterFit ==
    /\ provider = "anthropic" => AnthropicFit(adapter)
    /\ provider = "openai"    => OpenAIFit(adapter)
    /\ provider = "responses" => ResponsesFit(adapter)

CallsInv == OrderOK /\ CallsOK /\ AdapterOK /\ (Live => AdapterFit)

-----------------------------------------------------------------------------
LEMMA SameSeq ==
  ASSUME NEW a, NEW b, IsSeq(a), IsSeq(b), Len(a) = Len(b), \A k \in 1..Len(a) : a[k] = b[k]
  PROVE  a = b
<1> DEFINE S == Range(a) \cup Range(b)
<1>1. Range(a) \subseteq S /\ Range(b) \subseteq S  OBVIOUS
<1>2. a \in Seq(Range(a)) /\ b \in Seq(Range(b))  BY DEF IsSeq
<1> HIDE DEF S
<1>3. a \in Seq(S) /\ b \in Seq(S)  BY <1>1, <1>2
<1> QED BY <1>3, SeqEqual

LEMMA FirstIs ==
  ASSUME NEW id, NEW n \in Nat
  PROVE  /\ IsSeq(First(id, n)) /\ Len(First(id, n)) = n /\ \A k \in 1..n : First(id, n)[k] = <<id, k>>
         /\ First(id, 0) = <<>>
         /\ Append(First(id, n), <<id, n + 1>>) = First(id, n + 1)
<1>1. \A m \in Nat : IsSeq(First(id, m)) /\ Len(First(id, m)) = m /\ \A k \in 1..m : First(id, m)[k] = <<id, k>>
  <2> SUFFICES ASSUME NEW m \in Nat
               PROVE  IsSeq(First(id, m)) /\ Len(First(id, m)) = m /\ \A k \in 1..m : First(id, m)[k] = <<id, k>>
    OBVIOUS
  <2> DEFINE q == First(id, m)
  <2>1. q = [k \in 1..m |-> q[k]] /\ \A k \in 1..m : q[k] = <<id, k>>  BY DEF First
  <2> HIDE DEF q
  <2>2. IsSeq(q) /\ Len(q) = m  BY <2>1, FunSeq
  <2> QED BY <2>1, <2>2 DEF q
<1>2. First(id, 0) = <<>>  BY DEF First
<1> DEFINE q == First(id, n)
           a == Append(q, <<id, n + 1>>)
           z == First(id, n + 1)
<1>3. a = z
  <2>1. IsSeq(q) /\ Len(q) = n /\ \A k \in 1..n : q[k] = <<id, k>>  BY <1>1
  <2>2. n + 1 \in Nat  OBVIOUS
  <2>3. IsSeq(z) /\ Len(z) = n + 1 /\ \A k \in 1..(n + 1) : z[k] = <<id, k>>  BY <1>1, <2>2
  <2> HIDE DEF q, z
  <2>4. IsSeq(a) /\ Len(a) = n + 1 /\ (\A k \in 1..n : a[k] = q[k]) /\ a[n + 1] = <<id, n + 1>>
    BY <2>1, AppendSeq
  <2> HIDE DEF a
  <2>5. \A k \in 1..(n + 1) : k \in 1..n \/ k = n + 1  OBVIOUS
  <2>6. \A k \in 1..(n + 1) : a[k] = z[k]  BY <2>1, <2>3, <2>4, <2>5
  <2> QED BY <2>3, <2>4, <2>6, SameSeq
<1> QED BY <1>1, <1>2, <1>3

LEMMA FirstOfWhole ==
  ASSUME NEW id, NEW n \in Nat, n <= ArgsFragments
  PROVE  SubSeq(WholeArgs(id), 1, n) = First(id, n)
<1> DEFINE w == WholeArgs(id)
           z == First(id, n)
           b == SubSeq(w, 1, n)
<1>1. ArgsFragments \in Nat  BY ArgsFragmentsAssumption
<1>2. \A k \in 1..n : w[k] = <<id, k>>  BY <1>1 DEF WholeArgs
<1>3. IsSeq(z) /\ Len(z) = n /\ \A k \in 1..n : z[k] = <<id, k>>  BY FirstIs
<1>4. PICK S : S = {<<id, k>> : k \in 1..n}  OBVIOUS
<1>5. \A k \in 1..n : w[k] \in S  BY <1>2, <1>4
<1> HIDE DEF w, z
<1>6. b \in Seq(S) /\ Len(b) = (IF 1 <= n THEN n - 1 + 1 ELSE 0) /\ \A k \in 1..(n - 1 + 1) : b[k] = w[1 + k - 1]
  BY <1>5, SubSeqProperties
<1> HIDE DEF b
<1>7. IsSeq(b)  BY <1>6, SeqOfOwn
<1>8. Len(b) = n /\ \A k \in 1..n : b[k] = w[k]
  <2>1. n - 1 + 1 = n /\ \A k \in 1..n : 1 + k - 1 = k  OBVIOUS
  <2> QED BY <1>6, <2>1
<1>9. \A k \in 1..Len(b) : b[k] = z[k]  BY <1>2, <1>3, <1>8
<1>10. b = z  BY <1>3, <1>7, <1>8, <1>9, SameSeq
<1> QED BY <1>10 DEF b, w, z

(* A call that is emitted with a prefix of its own fragments.               *)
LEMMA CallUnspliced ==
  ASSUME provider # "gemini", NEW id, NEW n \in Nat, n <= ArgsFragments, NEW c, c = ToolCall(id, First(id, n))
  PROVE  Unspliced(c)
<1>1. c.id = id /\ c.input.raw = First(id, n)  BY DEF ToolCall, ToolInput
<1>2. Len(First(id, n)) = n  BY FirstIs
<1>3. SubSeq(WholeArgs(id), 1, n) = First(id, n)  BY FirstOfWhole
<1> QED BY <1>1, <1>2, <1>3 DEF Unspliced

LEMMA EventsNone == ASSUME NEW q, q = <<>> PROVE EventsOK(q)
BY NoneSeq DEF EventsOK

LEMMA EventsOne ==
  ASSUME NEW e, e.type # "tool_use" \/ Unspliced(e.call) PROVE EventsOK(<<e>>)
BY OneSeq DEF EventsOK

LEMMA EventsConcat ==
  ASSUME NEW a, NEW b, IsSeq(a), IsSeq(b), EventsOK(a), EventsOK(b) PROVE EventsOK(a \o b)
BY ConcatSeq DEF EventsOK

LEMMA EventsAppend ==
  ASSUME NEW a, NEW e, IsSeq(a), EventsOK(a), e.type # "tool_use" \/ Unspliced(e.call)
  PROVE  EventsOK(Append(a, e))
BY AppendSeq DEF EventsOK

LEMMA EventsPlain ==
  ASSUME NEW q, \A e \in Range(q) : e.type # "tool_use" PROVE EventsOK(q)
BY DEF EventsOK

(* The lines of a block, and what is known when one more of them is sent.   *)
LEMMA BlockGroup ==
  ASSUME SettingOK, NEW g \in DOMAIN reply.kinds
  PROVE  g \in Groups /\ LinesOf(g) = BlockLines(g) /\ g # 0 /\ g # Len(reply.kinds) + 1 /\ g \in Nat
<1>1. PICK n \in Nat : n = Len(reply.kinds)  BY SettingIs
<1>2. DOMAIN reply.kinds = 1..n  BY <1>1, SettingIs
<1>3. g # 0 /\ g # Len(reply.kinds) + 1 /\ g \in Nat /\ g \in Groups  BY <1>1, <1>2, SettingIs
<1> QED BY <1>3 DEF LinesOf

LEMMA SendFacts ==
  ASSUME SettingOK, SentOK, OrderOK, UNCHANGED setting, NEW g \in Groups, Ready(g),
         sent' = [sent EXCEPT ![g] = @ + 1]
  PROVE  /\ sent[g] \in Nat /\ sent'[g] = sent[g] + 1 /\ sent[g] + 1 \in 1..Len(LinesOf(g))
         /\ sent[g] < Len(LinesOf(g)) /\ Len(LinesOf(g)) \in Nat
         /\ \A h \in Groups : h # g => /\ sent'[h] = sent[h]
                                       /\ InProgress(h)' <=> InProgress(h)
         /\ InProgress(g)' <=> sent[g] + 1 # Len(LinesOf(g))
         /\ \A h \in Groups : h < g => Sent(h) \/ (sent[h] > 0 /\ Interleaves(h, g))
         /\ \A h \in Groups : h > g => sent[h] = 0 \/ Interleaves(g, h)
         /\ OrderOK'
<1>1. sent[g] \in Nat /\ sent[g] <= Len(LinesOf(g)) /\ sent[g] # Len(LinesOf(g)) /\ Len(LinesOf(g)) \in Nat
  BY LinesAre DEF SentOK, Ready, Sent
<1>2. sent'[g] = sent[g] + 1 /\ \A h \in Groups : h # g => sent'[h] = sent[h]
  BY <1>1 DEF SentOK
<1>3. Groups' = Groups /\ reply' = reply /\ provider' = provider /\ quirk' = quirk /\ \A h : LinesOf(h)' = LinesOf(h)
  BY SettingStays
<1>4. \A h \in Groups : h # g => (InProgress(h)' <=> InProgress(h)) /\ (Sent(h)' <=> Sent(h))
  BY <1>2, <1>3 DEF InProgress, Sent
<1>5. InProgress(g)' <=> sent[g] + 1 # Len(LinesOf(g))  BY <1>1, <1>2, <1>3 DEF InProgress, Sent
<1>6. \A h \in Groups : h \in Nat  BY SettingIs
<1>7. \A h \in Groups : h < g => Sent(h) \/ (sent[h] > 0 /\ Interleaves(h, g))
  <2> SUFFICES ASSUME NEW h \in Groups, h < g PROVE h \in 0..(g - 1)  BY DEF Ready
  <2> QED BY <1>6
<1>8. \A h \in Groups : h > g => sent[h] = 0 \/ Interleaves(g, h)
  <2> SUFFICES ASSUME NEW h \in Groups, h > g, sent[h] # 0 PROVE Interleaves(g, h)  OBVIOUS
  <2>1. sent[h] > 0 /\ g < h  BY <1>6 DEF SentOK
  <2>2. ~ Sent(g)  BY DEF Ready
  <2> QED BY <2>1, <2>2 DEF OrderOK
<1>9. OrderOK'
  <2> SUFFICES ASSUME NEW a \in Groups, NEW h \in Groups, a < h, sent'[h] > 0
               PROVE  Sent(a)' \/ Interleaves(a, h)'
    BY <1>3 DEF OrderOK
  <2>1. Interleaves(a, h)' <=> Interleaves(a, h)  BY <1>3 DEF Interleaves
  <2>2. a # h  BY <1>6
  <2>3. CASE h = g  BY <1>4, <1>7, <2>1, <2>2, <2>3
  <2>4. CASE a = g
    <3>1. sent'[h] = sent[h] /\ h > g  BY <1>2, <1>6, <2>2, <2>4
    <3> QED BY <1>8, <2>1, <2>4, <3>1
  <2>5. CASE h # g /\ a # g
    <3>1. sent[h] > 0  BY <1>2, <2>5
    <3> QED BY <1>4, <2>1, <2>5, <3>1 DEF OrderOK
  <2> QED BY <2>3, <2>4, <2>5
<1> QED BY <1>1, <1>2, <1>4, <1>5, <1>7, <1>8, <1>9

-----------------------------------------------------------------------------
(* Gemini: calls come whole, nothing is kept between lines.                 *)
LEMMA GeminiEventOK ==
  ASSUME provider = "gemini", NEW p, NEW n
  PROVE  LET e == GeminiEvent(p, n) IN e.type = "tool_use" => Unspliced(e.call)
<1> DEFINE c == GeminiCall(n, p.id)
           e == GeminiEvent(p, n)
<1>1. e.type = "tool_use" => e.call = c  BY EventTypes DEF GeminiEvent, ToolUse
<1>2. c.id[3] = p.id /\ c.input.raw = WholeArgs(p.id)  BY DEF GeminiCall, SyntheticID, WholeInput
<1>3. WholeArgs(p.id) = First(p.id, ArgsFragments)  BY DEF WholeArgs, First
<1>4. ArgsFragments \in Nat  BY ArgsFragmentsAssumption
<1>5. Len(WholeArgs(p.id)) = ArgsFragments  BY <1>3, <1>4, FirstIs
<1>6. ArgsFragments <= ArgsFragments  BY <1>4
<1>7. SubSeq(WholeArgs(p.id), 1, ArgsFragments) = WholeArgs(p.id)  BY <1>3, <1>4, <1>6, FirstOfWhole
<1> HIDE DEF c, e
<1>8. Unspliced(c)  BY <1>2, <1>5, <1>7 DEF Unspliced
<1> QED BY <1>1, <1>8 DEF e

LEMMA GeminiOutOK ==
  ASSUME provider = "gemini", NEW s, NEW l, IsSeq(l.parts)
  PROVE  EventsOK(GeminiOut(s, l))
<1> DEFINE n == GeminiRead(s, l)
           f(k) == GeminiEvent(l.parts[k], s.next + CallsAmong(l.parts, k - 1))
           E == {f(k) : k \in 1..n}
           q == [k \in 1..n |-> f(k)]
<1>1. n \in Nat  BY GeminiReads
<1>2. \A e \in E : e.type = "tool_use" => Unspliced(e.call)  BY GeminiEventOK
<1>3. \A k \in 1..n : f(k) \in E  OBVIOUS
<1>4. GeminiOut(s, l) = q  BY DEF GeminiOut
<1> HIDE DEF E, f, n
<1>5. q \in Seq(E)  BY <1>1, <1>3
<1> HIDE DEF q
<1>6. Range(q) \subseteq E  BY <1>5, SeqOfOwn
<1> QED BY <1>2, <1>4, <1>6 DEF EventsOK

LEMMA GeminiCalls ==
  ASSUME provider = "gemini", NEW s, GeminiOK(s), NEW l,
         l.type = "garbled" \/ (l.type = "chunk" /\ IsSeq(l.parts))
  PROVE  LET r == GeminiLine(s, l) IN EventsOK(r.out) /\ GeminiOK(r.st)
<1> DEFINE r == GeminiLine(s, l)
<1>1. BareError.type # "tool_use"  BY EventTypes
<1>2. CASE l.type = "garbled"
  <2>1. r = Goes(s, <<BareError>>)  BY <1>2 DEF GeminiLine
  <2>2. PICK q : q = <<BareError>>  OBVIOUS
  <2>3. EventsOK(q)  BY <1>1, <2>2, EventsOne
  <2>4. r.out = q /\ r.st = s  BY <2>1, <2>2 DEF Goes
  <2> QED BY <2>3, <2>4
<1>3. CASE l.type = "chunk" /\ IsSeq(l.parts)
  <2> DEFINE read == GeminiRead(s, l)
             q == GeminiOut(s, l)
             st == [s EXCEPT !.usage = @ \/ l.usage, !.next = @ + CallsAmong(l.parts, read)]
             e == Done(Inferred(l.finish, st.next), st.usage, <<>>)
  <2>1. r = OnGeminiChunk(s, l)  BY <1>3 DEF GeminiLine
  <2>2. r = IF read < Len(l.parts) THEN Stops(st, Append(q, BareError))
            ELSE IF l.finish = "none" THEN Goes(st, q) ELSE Stops(st, Append(q, e))
    BY <2>1 DEF OnGeminiChunk, GeminiRead, GeminiOut
  <2>3. GeminiOK(st)
    <3>1. DOMAIN st = DOMAIN s /\ st.limit = s.limit  BY DEF GeminiOK
    <3> QED BY <3>1 DEF GeminiOK
  <2>4. e.type # "tool_use"  BY EventTypes
  <2>5. IsSeq(q)  BY <1>3, GeminiYields DEF Plain
  <2>6. EventsOK(q)  BY <1>3, GeminiOutOK
  <2> HIDE DEF r, st, e, q, read
  <2>7. EventsOK(Append(q, BareError)) /\ EventsOK(Append(q, e))  BY <1>1, <2>4, <2>5, <2>6, EventsAppend
  <2>8. r.st = st /\ (r.out = q \/ r.out = Append(q, e) \/ r.out = Append(q, BareError))
    BY <2>2 DEF Goes, Stops
  <2>9. EventsOK(r.out)  BY <2>6, <2>7, <2>8
  <2> QED BY <2>3, <2>8, <2>9 DEF r
<1> QED BY <1>2, <1>3

-----------------------------------------------------------------------------
(* Counting what is buffered.                                               *)
LEMMA FragmentIn ==
  ASSUME NEW calls, NEW live, NEW x
  PROVE  x \in Fragments(calls, live) <=> \E p \in live : \E k \in DOMAIN calls[p].args : x = <<p, k>>
<1>1. x \in Fragments(calls, live) <=> \E p \in live : x \in {p} \X DOMAIN calls[p].args  BY DEF Fragments
<1> QED BY <1>1

LEMMA SameFragments ==
  ASSUME NEW a, NEW b, NEW L, NEW M,
         \A p \in L \cap M : DOMAIN a[p].args = DOMAIN b[p].args,
         \A p \in L \ M : DOMAIN a[p].args = {}, \A p \in M \ L : DOMAIN b[p].args = {}
  PROVE  Fragments(a, L) = Fragments(b, M)
<1>1. ASSUME NEW x \in Fragments(a, L) PROVE x \in Fragments(b, M)  BY <1>1, FragmentIn
<1>2. ASSUME NEW x \in Fragments(b, M) PROVE x \in Fragments(a, L)  BY <1>2, FragmentIn
<1> QED BY <1>1, <1>2

LEMMA SameLive ==
  ASSUME NEW a, NEW b, NEW L, \A p \in L : DOMAIN a[p].args = DOMAIN b[p].args
  PROVE  Fragments(a, L) = Fragments(b, L)
<1>1. ASSUME NEW x \in Fragments(a, L) PROVE x \in Fragments(b, L)  BY <1>1, FragmentIn
<1>2. ASSUME NEW x \in Fragments(b, L) PROVE x \in Fragments(a, L)  BY <1>2, FragmentIn
<1> QED BY <1>1, <1>2

(* Of the calls in L, only p has a fragment more in b than in a, its nth.   *)
OneMore(a, b, L, p, n) ==
    /\ p \in L /\ n \notin DOMAIN a[p].args /\ DOMAIN b[p].args = DOMAIN a[p].args \cup {n}
    /\ \A q \in L : q # p => DOMAIN b[q].args = DOMAIN a[q].args

LEMMA OneFragmentMore ==
  ASSUME NEW a, NEW b, NEW L, NEW p, NEW n, OneMore(a, b, L, p, n)
  PROVE  Fragments(b, L) = Fragments(a, L) \cup {<<p, n>>} /\ <<p, n>> \notin Fragments(a, L)
<1> USE DEF OneMore
<1>1. ASSUME NEW x \in Fragments(b, L) PROVE x \in Fragments(a, L) \cup {<<p, n>>}
  <2>1. PICK q \in L : \E k \in DOMAIN b[q].args : x = <<q, k>>  BY <1>1, FragmentIn
  <2>2. PICK k \in DOMAIN b[q].args : x = <<q, k>>  BY <2>1
  <2>3. k \in DOMAIN a[q].args \/ (q = p /\ k = n)  BY <2>2
  <2> QED BY <2>2, <2>3, FragmentIn
<1>2. ASSUME NEW x \in Fragments(a, L) PROVE x \in Fragments(b, L)
  <2>1. PICK q \in L : \E k \in DOMAIN a[q].args : x = <<q, k>>  BY <1>2, FragmentIn
  <2>2. PICK k \in DOMAIN a[q].args : x = <<q, k>>  BY <2>1
  <2>3. k \in DOMAIN b[q].args  BY <2>2
  <2> QED BY <2>2, <2>3, FragmentIn
<1>3. <<p, n>> \in Fragments(b, L)
  <2>1. n \in DOMAIN b[p].args  OBVIOUS
  <2> QED BY <2>1, FragmentIn
<1>4. <<p, n>> \notin Fragments(a, L)
  <2> SUFFICES ASSUME <<p, n>> \in Fragments(a, L) PROVE FALSE  OBVIOUS
  <2>1. PICK q \in L : \E k \in DOMAIN a[q].args : <<p, n>> = <<q, k>>  BY FragmentIn
  <2> QED BY <2>1
<1> QED BY <1>1, <1>2, <1>3, <1>4

Own(p, n) == {p} \X (1..n)

LEMMA OwnIs == ASSUME NEW p, NEW n \in Nat, NEW D, D = Own(p, n) PROVE Cardinality(D) = n
<1>1. IsFiniteSet(1..n) /\ Cardinality(1..n) = n  BY FS_Interval
<1>2. IsFiniteSet({p}) /\ Cardinality({p}) = 1  BY FS_Singleton
<1>3. Cardinality({p} \X (1..n)) = Cardinality({p}) * Cardinality(1..n)  BY <1>1, <1>2, FS_Product
<1>4. 1 * n = n  OBVIOUS
<1> QED BY <1>1, <1>2, <1>3, <1>4 DEF Own

LEMMA OwnIn ==
  ASSUME NEW a, NEW L, NEW p \in L, NEW n \in Nat, DOMAIN a[p].args = 1..n, NEW D, D = Own(p, n)
  PROVE  D \subseteq Fragments(a, L)
<1> SUFFICES ASSUME NEW x \in D PROVE x \in Fragments(a, L)  OBVIOUS
<1>1. PICK k \in 1..n : x = <<p, k>>  BY DEF Own
<1> QED BY <1>1, FragmentIn

LEMMA OneCallLess ==
  ASSUME NEW a, NEW b, NEW L, NEW M, NEW p \in L, NEW n \in Nat, DOMAIN a[p].args = 1..n,
         M = L \ {p} \/ (M = L /\ DOMAIN b[p].args = {}),
         \A q \in L : q # p => DOMAIN b[q].args = DOMAIN a[q].args,
         NEW D, D = Own(p, n)
  PROVE  Fragments(b, M) = Fragments(a, L) \ D
<1>1. ASSUME NEW x \in Fragments(b, M) PROVE x \in Fragments(a, L) \ D
  <2>1. PICK q \in M : \E k \in DOMAIN b[q].args : x = <<q, k>>  BY <1>1, FragmentIn
  <2>2. PICK k \in DOMAIN b[q].args : x = <<q, k>>  BY <2>1
  <2>3. q # p /\ q \in L /\ k \in DOMAIN a[q].args  BY <2>2
  <2>4. x \in Fragments(a, L)  BY <2>2, <2>3, FragmentIn
  <2> QED BY <2>2, <2>3, <2>4 DEF Own
<1>2. ASSUME NEW x \in Fragments(a, L), x \notin D PROVE x \in Fragments(b, M)
  <2>1. PICK q \in L : \E k \in DOMAIN a[q].args : x = <<q, k>>  BY <1>2, FragmentIn
  <2>2. PICK k \in DOMAIN a[q].args : x = <<q, k>>  BY <2>1
  <2>3. q # p  BY <1>2, <2>2 DEF Own
  <2>4. q \in M /\ k \in DOMAIN b[q].args  BY <2>2, <2>3
  <2> QED BY <2>2, <2>4, FragmentIn
<1> QED BY <1>1, <1>2

LEMMA CountedMore ==
  ASSUME NEW s, NEW F, Counted(s, F), NEW t, t.limit = s.limit, NEW x, x \notin F,
         t.pending = s.pending + 1, t.pending <= t.limit
  PROVE  Counted(t, F \cup {x})
BY FS_AddElement DEF Counted

LEMMA CountedLess ==
  ASSUME NEW s, s.limit \in Nat, NEW F, Counted(s, F), NEW t, t.limit = s.limit, NEW D, D \subseteq F, NEW n \in Nat,
         Cardinality(D) = n, t.pending = s.pending - n
  PROVE  Counted(t, F \ D)
<1>1. IsFiniteSet(F) /\ s.pending = Cardinality(F) /\ s.pending <= s.limit  BY DEF Counted
<1>2. IsFiniteSet(F \ D) /\ Cardinality(F \ D) = Cardinality(F) - Cardinality(F \cap D)  BY <1>1, FS_Difference
<1>3. F \cap D = D  OBVIOUS
<1>4. Cardinality(F) \in Nat  BY <1>1, FS_CardinalityType
<1>5. t.pending = Cardinality(F \ D)  BY <1>1, <1>2, <1>3
<1>6. t.pending <= t.limit  BY <1>1, <1>4
<1> QED BY <1>2, <1>5, <1>6 DEF Counted

-----------------------------------------------------------------------------
(* Responses: the buffers behind the keys.                                  *)
LEMMA BuffersAre ==
  ASSUME NEW s, ResponsesOK(s)
  PROVE  /\ s.buffers \in Seq(BufferSet) /\ Len(s.buffers) \in Nat /\ DOMAIN s.buffers = 1..Len(s.buffers)
         /\ \A p \in 1..Len(s.buffers) : /\ s.buffers[p] \in BufferSet /\ s.buffers[p].args \in Seq(ArgFrags)
                                         /\ s.buffers[p].id \in Names
                                         /\ Len(s.buffers[p].args) \in Nat
                                         /\ DOMAIN s.buffers[p].args = 1..Len(s.buffers[p].args)
<1>1. PICK bs \in Seq(BufferSet) : bs = s.buffers  BY DEF ResponsesOK
<1>2. Len(bs) \in Nat /\ DOMAIN bs = 1..Len(bs) /\ \A p \in 1..Len(bs) : bs[p] \in BufferSet  OBVIOUS
<1>3. \A c \in BufferSet : c.args \in Seq(ArgFrags) /\ c.id \in Names  BY DEF BufferSet
<1>4. \A a \in Seq(ArgFrags) : Len(a) \in Nat /\ DOMAIN a = 1..Len(a)  OBVIOUS
<1> QED BY <1>1, <1>2, <1>3, <1>4

(* A state that differs in buffers and keys only, with as many fragments.   *)
LEMMA BuffersAppended ==
  ASSUME NEW bs \in Seq(BufferSet), NEW c \in BufferSet
  PROVE  /\ Append(bs, c) \in Seq(BufferSet) /\ Len(Append(bs, c)) = Len(bs) + 1 /\ Len(bs) \in Nat
         /\ DOMAIN Append(bs, c) = 1..(Len(bs) + 1) /\ DOMAIN bs = 1..Len(bs)
         /\ \A p \in 1..Len(bs) : Append(bs, c)[p] = bs[p]
         /\ Append(bs, c)[Len(bs) + 1] = c
<1>1. /\ Append(bs, c) \in Seq(BufferSet) /\ Len(Append(bs, c)) = Len(bs) + 1
      /\ \A p \in 1..Len(bs) : Append(bs, c)[p] = bs[p]
      /\ Append(bs, c)[Len(bs) + 1] = c
  BY AppendProperties
<1>2. PICK q \in Seq(BufferSet) : q = Append(bs, c)  BY <1>1
<1>3. DOMAIN q = 1..Len(q) /\ Len(bs) \in Nat /\ DOMAIN bs = 1..Len(bs)  OBVIOUS
<1> QED BY <1>1, <1>2, <1>3

LEMMA BufferReplaced ==
  ASSUME NEW bs \in Seq(BufferSet), NEW p \in 1..Len(bs), NEW c \in BufferSet
  PROVE  LET t == [bs EXCEPT ![p] = c]
         IN /\ t \in Seq(BufferSet) /\ Len(t) = Len(bs) /\ DOMAIN t = 1..Len(bs) /\ t[p] = c
            /\ \A q \in 1..Len(bs) : q # p => t[q] = bs[q]
<1> DEFINE t == [bs EXCEPT ![p] = c]
<1>1. t \in Seq(BufferSet) /\ Len(t) = Len(bs)  BY ExceptSeq
<1>2. DOMAIN bs = 1..Len(bs)  OBVIOUS
<1>3. DOMAIN t = 1..Len(bs) /\ t[p] = c /\ \A q \in 1..Len(bs) : q # p => t[q] = bs[q]  BY <1>2
<1> QED BY <1>1, <1>3

NewBuffer == [id |-> "none", args |-> <<>>]

LEMMA NewBufferIs == NewBuffer \in BufferSet /\ NewBuffer.id = "none" /\ NewBuffer.args = <<>>
                     /\ DOMAIN NewBuffer.args = {}
<1>1. PICK a : a = <<>>  OBVIOUS
<1>2. a \in Seq(ArgFrags) /\ DOMAIN a = {}  BY <1>1
<1>3. NewBuffer = [id |-> "none", args |-> a] /\ "none" \in Names  BY <1>1 DEF NewBuffer, Names
<1>4. NewBuffer \in BufferSet  BY <1>2, <1>3 DEF BufferSet
<1>5. NewBuffer.id = "none" /\ NewBuffer.args = a  BY <1>3
<1> QED BY <1>1, <1>2, <1>4, <1>5

LEMMA WithBufferIs ==
  ASSUME NEW s, ResponsesOK(s), NEW l
  PROVE  LET w == WithBuffer(s, l)
             n == Len(s.buffers)
             p == w.keyed[KeyOf(l)]
         IN /\ ResponsesOK(w) /\ w.limit = s.limit /\ w.pending = s.pending
            /\ DOMAIN w.keyed = DOMAIN s.keyed \cup {KeyOf(l)}
            /\ \A k \in DOMAIN s.keyed : w.keyed[k] = s.keyed[k]
            /\ p \in 1..Len(w.buffers) /\ Len(w.buffers) \in Nat
            /\ \A q \in 1..n : w.buffers[q] = s.buffers[q]
            /\ KeyOf(l) \in DOMAIN s.keyed => w = s
            /\ KeyOf(l) \notin DOMAIN s.keyed => p = n + 1 /\ Len(w.buffers) = n + 1 /\ w.buffers[p] = NewBuffer
<1> DEFINE w == WithBuffer(s, l)
           key == KeyOf(l)
           n == Len(s.buffers)
           bs == Append(s.buffers, NewBuffer)
           ks == WithKey(s.keyed, key, n + 1)
<1>1. /\ DOMAIN s = ResponsesFields /\ s.limit \in Nat /\ s.buffers \in Seq(BufferSet)
      /\ \A k \in DOMAIN s.keyed : s.keyed[k] \in 1..n
      /\ Counted(s, Fragments(s.buffers, DOMAIN s.buffers))
  BY DEF ResponsesOK
<1>2. n \in Nat /\ DOMAIN s.buffers = 1..n  BY BuffersAre
<1>3. CASE key \in DOMAIN s.keyed
  <2>1. w = s  BY <1>3 DEF WithBuffer
  <2>2. DOMAIN s.keyed = DOMAIN s.keyed \cup {key}  BY <1>3
  <2> HIDE DEF key, w
  <2> QED BY <1>1, <1>2, <1>3, <2>1, <2>2 DEF key, w
<1>4. CASE key \notin DOMAIN s.keyed
  <2>1. w = [s EXCEPT !.buffers = bs, !.keyed = ks]  BY <1>4 DEF WithBuffer, NewBuffer
  <2>2. /\ bs \in Seq(BufferSet) /\ Len(bs) = n + 1 /\ DOMAIN bs = 1..(n + 1)
        /\ (\A q \in 1..n : bs[q] = s.buffers[q]) /\ bs[n + 1] = NewBuffer
    BY <1>1, NewBufferIs, BuffersAppended
  <2>3. DOMAIN ks = DOMAIN s.keyed \cup {key} /\ ks[key] = n + 1 /\ \A k \in DOMAIN s.keyed : ks[k] = s.keyed[k]
    BY <1>4 DEF WithKey
  <2> HIDE DEF w, bs, ks, key, n
  <2>4. /\ DOMAIN w = ResponsesFields /\ w.limit = s.limit /\ w.pending = s.pending /\ w.buffers = bs /\ w.keyed = ks
    BY <1>1, <2>1 DEF ResponsesFields
  <2>5. n + 1 \in 1..(n + 1) /\ 1..n \subseteq 1..(n + 1) /\ n + 1 \in Nat /\ (1..(n + 1)) \ (1..n) = {n + 1}  BY <1>2
  <2>6. \A k \in DOMAIN w.keyed : w.keyed[k] \in 1..Len(w.buffers)  BY <1>1, <2>2, <2>3, <2>4, <2>5
  <2>7. Fragments(bs, 1..(n + 1)) = Fragments(s.buffers, 1..n)
    <3>1. \A q \in (1..n) \cap (1..(n + 1)) : DOMAIN s.buffers[q].args = DOMAIN bs[q].args  BY <2>2
    <3>2. \A q \in (1..n) \ (1..(n + 1)) : DOMAIN s.buffers[q].args = {}  BY <2>5
    <3>3. \A q \in (1..(n + 1)) \ (1..n) : DOMAIN bs[q].args = {}  BY <2>2, <2>5, NewBufferIs
    <3> DEFINE L == 1..n
               M == 1..(n + 1)
    <3> HIDE DEF L, M
    <3>4. Fragments(s.buffers, L) = Fragments(bs, M)
      <4>1. \A q \in L \cap M : DOMAIN s.buffers[q].args = DOMAIN bs[q].args  BY <3>1 DEF L, M
      <4>2. \A q \in L \ M : DOMAIN s.buffers[q].args = {}  BY <3>2 DEF L, M
      <4>3. \A q \in M \ L : DOMAIN bs[q].args = {}  BY <3>3 DEF L, M
      <4> QED BY <4>1, <4>2, <4>3, SameFragments
    <3> QED BY <3>4 DEF L, M
  <2>8. Counted(w, Fragments(w.buffers, DOMAIN w.buffers))
    <3>1. Fragments(w.buffers, DOMAIN w.buffers) = Fragments(s.buffers, DOMAIN s.buffers)  BY <1>2, <2>2, <2>4, <2>7
    <3> QED BY <1>1, <2>4, <3>1 DEF Counted
  <2>9. ResponsesOK(w)  BY <1>1, <2>2, <2>4, <2>6, <2>8 DEF ResponsesOK
  <2> QED BY <1>4, <2>2, <2>3, <2>4, <2>5, <2>9 DEF w, key, n
<1> QED BY <1>3, <1>4

AddedWell(s, l) ==
    LET w == WithBuffer(s, l)
        p == w.keyed[KeyOf(l)]
        r == OnItemAdded(s, l)
    IN /\ ResponsesOK(r.st) /\ r.out = <<>> /\ r.halt = FALSE
       /\ DOMAIN r.st.keyed = DOMAIN w.keyed \cup {IndexKey(l)} /\ r.st.keyed[IndexKey(l)] = p
       /\ \A k \in DOMAIN w.keyed : k # IndexKey(l) => r.st.keyed[k] = w.keyed[k]
       /\ r.st.buffers[p].id = l.id /\ r.st.buffers[p].args = w.buffers[p].args
       /\ \A q \in 1..Len(w.buffers) : q # p => r.st.buffers[q] = w.buffers[q]

LEMMA ItemAddedIs ==
  ASSUME NEW s, ResponsesOK(s), NEW l, l.id \in Names
  PROVE  AddedWell(s, l)
<1> DEFINE w == WithBuffer(s, l)
           p == w.keyed[KeyOf(l)]
           n == Len(w.buffers)
           r == OnItemAdded(s, l)
           c == [w.buffers[p] EXCEPT !.id = l.id]
           bs == [w.buffers EXCEPT ![p] = c]
           ks == WithKey(w.keyed, IndexKey(l), p)
           key == IndexKey(l)
<1>1. ResponsesOK(w) /\ p \in 1..n /\ n \in Nat  BY WithBufferIs
<1>2. r = Goes([w EXCEPT !.buffers[p].id = l.id, !.keyed = ks], <<>>)  BY DEF OnItemAdded
<1>3. r.st = [w EXCEPT !.buffers[p].id = l.id, !.keyed = ks] /\ r.out = <<>> /\ r.halt = FALSE
  <2> HIDE DEF w, ks, p
  <2> QED BY <1>2 DEF Goes
<1> HIDE DEF w, p, n, r, key
<1>4. /\ DOMAIN w = ResponsesFields /\ w.limit \in Nat /\ w.buffers \in Seq(BufferSet)
      /\ \A k \in DOMAIN w.keyed : w.keyed[k] \in 1..n
      /\ Counted(w, Fragments(w.buffers, DOMAIN w.buffers))
  BY <1>1 DEF ResponsesOK, n
<1>5. DOMAIN w.buffers = 1..n /\ w.buffers[p] \in BufferSet  BY <1>1, BuffersAre DEF n
<1>6. c \in BufferSet /\ c.id = l.id /\ c.args = w.buffers[p].args  BY <1>5 DEF BufferSet
<1> HIDE DEF c
<1>7. bs \in Seq(BufferSet) /\ Len(bs) = n /\ DOMAIN bs = 1..n /\ bs[p] = c
      /\ \A q \in 1..n : q # p => bs[q] = w.buffers[q]
  BY <1>1, <1>4, <1>6, BufferReplaced DEF n
<1>8. DOMAIN ks = DOMAIN w.keyed \cup {key} /\ ks[key] = p
      /\ \A k \in DOMAIN w.keyed : k # key => ks[k] = w.keyed[k]
  BY DEF WithKey, key
<1>9. r.st = [w EXCEPT !.buffers = bs, !.keyed = ks]
  <2> HIDE DEF ks
  <2> QED BY <1>3 DEF c
<1> HIDE DEF bs, ks
<1>10. DOMAIN r.st = ResponsesFields /\ r.st.limit = w.limit /\ r.st.pending = w.pending
       /\ r.st.buffers = bs /\ r.st.keyed = ks
  BY <1>4, <1>9 DEF ResponsesFields
<1>11. \A k \in DOMAIN ks : ks[k] \in 1..n  BY <1>1, <1>4, <1>8
<1>12. Fragments(w.buffers, 1..n) = Fragments(bs, 1..n)
  <2> DEFINE L == 1..n
  <2>1. \A q \in L : DOMAIN w.buffers[q].args = DOMAIN bs[q].args  BY <1>6, <1>7
  <2> HIDE DEF L
  <2>2. Fragments(w.buffers, L) = Fragments(bs, L)  BY ONLY <2>1, SameLive
  <2> QED BY <2>2 DEF L
<1>13. Counted(r.st, Fragments(r.st.buffers, DOMAIN r.st.buffers))
  <2>1. Fragments(r.st.buffers, DOMAIN r.st.buffers) = Fragments(w.buffers, DOMAIN w.buffers)
    BY <1>5, <1>7, <1>10, <1>12
  <2> QED BY <1>4, <1>10, <2>1 DEF Counted
<1>14. ResponsesOK(r.st)  BY <1>4, <1>7, <1>10, <1>11, <1>13 DEF ResponsesOK
<1> QED BY <1>3, <1>6, <1>7, <1>8, <1>10, <1>14 DEF w, p, n, r, key, AddedWell

DeltaWell(s, l) ==
    LET w == WithBuffer(s, l)
        p == w.keyed[KeyOf(l)]
        r == OnArgsDelta(s, l)
    IN /\ ResponsesOK(r.st)
       /\ r.halt \in BOOLEAN /\ r.out = IF r.halt THEN <<BareError>> ELSE <<>>
       /\ ~ r.halt => /\ r.st.keyed = w.keyed
                      /\ r.st.buffers[p].id = w.buffers[p].id
                      /\ r.st.buffers[p].args = Append(w.buffers[p].args, l.frag)
                      /\ \A q \in 1..Len(w.buffers) : q # p => r.st.buffers[q] = w.buffers[q]

LEMMA ArgsDeltaIs ==
  ASSUME NEW s, ResponsesOK(s), NEW l, l.frag \in ArgFrags
  PROVE  DeltaWell(s, l)
<1> DEFINE w == WithBuffer(s, l)
           p == w.keyed[KeyOf(l)]
           n == Len(w.buffers)
           r == OnArgsDelta(s, l)
           a == Append(w.buffers[p].args, l.frag)
           c == [w.buffers[p] EXCEPT !.args = a]
           bs == [w.buffers EXCEPT ![p] = c]
<1>1. ResponsesOK(w) /\ p \in 1..n /\ n \in Nat  BY WithBufferIs
<1>2. r = IF w.pending + 1 > s.limit THEN Stops(w, <<BareError>>)
          ELSE Goes([w EXCEPT !.buffers[p].args = Append(@, l.frag), !.pending = @ + 1], <<>>)
  BY DEF OnArgsDelta
<1>3. w.limit = s.limit  BY WithBufferIs
<1> HIDE DEF w, p, n, r
<1>4. /\ DOMAIN w = ResponsesFields /\ w.limit \in Nat /\ w.buffers \in Seq(BufferSet)
      /\ \A k \in DOMAIN w.keyed : w.keyed[k] \in 1..n
      /\ Counted(w, Fragments(w.buffers, DOMAIN w.buffers))
  BY <1>1 DEF ResponsesOK, n
<1>5. DOMAIN w.buffers = 1..n /\ w.buffers[p] \in BufferSet /\ w.buffers[p].args \in Seq(ArgFrags)
  BY <1>1, BuffersAre DEF n
<1>6. CASE w.pending + 1 > s.limit
  <2>1. r.st = w /\ r.out = <<BareError>> /\ r.halt = TRUE  BY <1>2, <1>6 DEF Stops
  <2> QED BY <1>1, <2>1 DEF w, p, n, r, DeltaWell
<1>7. CASE ~ (w.pending + 1 > s.limit)
  <2>1. r.st = [w EXCEPT !.buffers[p].args = Append(@, l.frag), !.pending = @ + 1] /\ r.out = <<>> /\ r.halt = FALSE
    BY <1>2, <1>7 DEF Goes
  <2>2. r.st = [w EXCEPT !.buffers = bs, !.pending = @ + 1]  BY <2>1
  <2>3. PICK b \in Seq(ArgFrags) : b = w.buffers[p].args  BY <1>5
  <2>4. a \in Seq(ArgFrags) /\ Len(b) \in Nat /\ DOMAIN b = 1..Len(b) /\ DOMAIN a = 1..(Len(b) + 1)
    <3>1. Append(b, l.frag) \in Seq(ArgFrags) /\ Len(Append(b, l.frag)) = Len(b) + 1  BY AppendProperties
    <3>2. PICK z \in Seq(ArgFrags) : z = Append(b, l.frag)  BY <3>1
    <3>3. DOMAIN z = 1..Len(z)  OBVIOUS
    <3> QED BY <2>3, <3>1, <3>2, <3>3
  <2> HIDE DEF a
  <2>5. c \in BufferSet /\ c.args = a /\ c.id = w.buffers[p].id  BY <1>5, <2>4 DEF BufferSet
  <2> HIDE DEF c
  <2>6. bs \in Seq(BufferSet) /\ Len(bs) = n /\ DOMAIN bs = 1..n /\ bs[p] = c
        /\ \A q \in 1..n : q # p => bs[q] = w.buffers[q]
    BY <1>1, <1>4, <2>5, BufferReplaced DEF n
  <2> HIDE DEF bs
  <2>7. DOMAIN r.st = ResponsesFields /\ r.st.limit = w.limit /\ r.st.pending = w.pending + 1
        /\ r.st.buffers = bs /\ r.st.keyed = w.keyed
    BY <1>4, <2>2 DEF ResponsesFields
  <2>8. Counted(r.st, Fragments(r.st.buffers, DOMAIN r.st.buffers))
    <3> DEFINE L == 1..n
               m == Len(b) + 1
    <3>1. p \in L /\ m \notin DOMAIN w.buffers[p].args /\ DOMAIN bs[p].args = DOMAIN w.buffers[p].args \cup {m}
          /\ \A q \in L : q # p => DOMAIN bs[q].args = DOMAIN w.buffers[q].args
      <4>1. m \notin 1..Len(b) /\ 1..(Len(b) + 1) = (1..Len(b)) \cup {m}  BY <2>4
      <4>2. DOMAIN w.buffers[p].args = 1..Len(b) /\ DOMAIN bs[p].args = 1..(Len(b) + 1)  BY <2>3, <2>4, <2>5, <2>6
      <4>3. p \in L /\ \A q \in L : q # p => DOMAIN bs[q].args = DOMAIN w.buffers[q].args  BY <1>1, <2>6
      <4> HIDE DEF m, L
      <4> QED BY <4>1, <4>2, <4>3
    <3> HIDE DEF L, m
    <3>2. Fragments(bs, L) = Fragments(w.buffers, L) \cup {<<p, m>>} /\ <<p, m>> \notin Fragments(w.buffers, L)
      <4>1. PICK u : u = w.buffers  OBVIOUS
      <4>2. PICK v : v = bs  OBVIOUS
      <4>3. PICK x : x = p  OBVIOUS
      <4>4. PICK y : y = m  OBVIOUS
      <4>5. PICK M : M = L  OBVIOUS
      <4>6. x \in M  BY <3>1, <4>3, <4>5
      <4>7. y \notin DOMAIN u[x].args /\ DOMAIN v[x].args = DOMAIN u[x].args \cup {y}  BY <3>1, <4>1, <4>2, <4>3, <4>4
      <4>8. \A q \in M : q # x => DOMAIN v[q].args = DOMAIN u[q].args  BY <3>1, <4>1, <4>2, <4>3, <4>5
      <4>9. OneMore(u, v, M, x, y)  BY ONLY <4>6, <4>7, <4>8 DEF OneMore
      <4>10. Fragments(v, M) = Fragments(u, M) \cup {<<x, y>>} /\ <<x, y>> \notin Fragments(u, M)
        BY ONLY <4>9, OneFragmentMore
      <4> QED BY <4>1, <4>2, <4>3, <4>4, <4>5, <4>10
    <3>3. r.st.pending <= r.st.limit
      <4>1. Counted(w, Fragments(w.buffers, L)) /\ w.limit \in Nat  BY <1>4, <1>5 DEF L
      <4>2. w.pending \in Nat  BY <4>1, FS_CardinalityType DEF Counted
      <4>3. w.pending + 1 <= w.limit  BY <1>3, <1>7, <4>1, <4>2
      <4> QED BY <2>7, <4>3
    <3>4. Counted(w, Fragments(w.buffers, L))  BY <1>4, <1>5 DEF L
    <3>5. Counted(r.st, Fragments(w.buffers, L) \cup {<<p, m>>})
      <4>1. PICK t : t = r.st  OBVIOUS
      <4>2. PICK F : F = Fragments(w.buffers, L)  OBVIOUS
      <4>3. Counted(t, F \cup {<<p, m>>})
        <5>1. Counted(w, F) /\ t.limit = w.limit /\ <<p, m>> \notin F /\ t.pending = w.pending + 1 /\ t.pending <= t.limit
          BY <2>7, <3>2, <3>3, <3>4, <4>1, <4>2
        <5> QED BY <5>1, CountedMore
      <4> QED BY <4>1, <4>2, <4>3
    <3> QED BY <2>6, <2>7, <3>2, <3>5 DEF L
  <2>9. ResponsesOK(r.st)  BY <1>4, <2>6, <2>7, <2>8 DEF ResponsesOK
  <2> QED BY <2>1, <2>5, <2>6, <2>7, <2>9 DEF w, p, n, r, a, DeltaWell
<1> QED BY <1>6, <1>7

DoneWell(s, l) ==
    LET w == WithBuffer(s, l)
        p == w.keyed[KeyOf(l)]
        r == OnArgsDone(s, l)
        b == w.buffers[p]
    IN /\ ResponsesOK(r.st) /\ r.halt = FALSE
       /\ r.out = <<ToolUse(ToolCall(IF l.id # "none" THEN l.id ELSE b.id,
                                     IF l.args # <<>> THEN l.args ELSE b.args))>>
       /\ DOMAIN r.st.keyed = DOMAIN w.keyed \ {KeyOf(l), IndexKey(l)}
       /\ \A k \in DOMAIN r.st.keyed : r.st.keyed[k] = w.keyed[k]
       /\ \A q \in 1..Len(w.buffers) : q # p => r.st.buffers[q] = w.buffers[q]

LEMMA ArgsDoneIs ==
  ASSUME NEW s, ResponsesOK(s), NEW l
  PROVE  DoneWell(s, l)
<1> DEFINE w == WithBuffer(s, l)
           p == w.keyed[KeyOf(l)]
           n == Len(w.buffers)
           b == w.buffers[p]
           r == OnArgsDone(s, l)
           ev == ToolUse(ToolCall(IF l.id # "none" THEN l.id ELSE b.id, IF l.args # <<>> THEN l.args ELSE b.args))
           kept == DOMAIN w.keyed \ {KeyOf(l), IndexKey(l)}
           ks == [k \in kept |-> w.keyed[k]]
           c == [b EXCEPT !.args = <<>>]
           bs == [w.buffers EXCEPT ![p] = c]
           m == Len(b.args)
<1>1. ResponsesOK(w) /\ p \in 1..n /\ n \in Nat  BY WithBufferIs
<1>2. r = Goes([w EXCEPT !.pending = @ - Len(b.args), !.anyCall = TRUE, !.buffers[p].args = <<>>, !.keyed = ks], <<ev>>)
  BY DEF OnArgsDone
<1>3. r.st = [w EXCEPT !.pending = @ - Len(b.args), !.anyCall = TRUE, !.buffers[p].args = <<>>, !.keyed = ks]
      /\ r.out = <<ev>> /\ r.halt = FALSE
  <2> HIDE DEF w, p, ev, ks, b
  <2> QED BY <1>2 DEF Goes
<1>4. DOMAIN ks = kept /\ \A k \in kept : ks[k] = w.keyed[k]  OBVIOUS
<1> HIDE DEF w, p, n, r, ks
<1>5. /\ DOMAIN w = ResponsesFields /\ w.limit \in Nat /\ w.buffers \in Seq(BufferSet)
      /\ \A k \in DOMAIN w.keyed : w.keyed[k] \in 1..n
      /\ Counted(w, Fragments(w.buffers, DOMAIN w.buffers))
  BY <1>1 DEF ResponsesOK, n
<1>6. DOMAIN w.buffers = 1..n /\ b \in BufferSet /\ b.args \in Seq(ArgFrags) /\ m \in Nat /\ DOMAIN b.args = 1..m
  BY <1>1, BuffersAre DEF n
<1>7. c \in BufferSet /\ DOMAIN c.args = {}
  <2>1. PICK z : z = <<>>  OBVIOUS
  <2>2. z \in Seq(ArgFrags) /\ DOMAIN z = {}  BY <2>1
  <2>3. c = [b EXCEPT !.args = z]  BY <2>1
  <2>4. c \in BufferSet /\ c.args = z
    <3> HIDE DEF b, c
    <3> QED BY <1>6, <2>2, <2>3 DEF BufferSet
  <2> QED BY <2>2, <2>4
<1>8. r.st = [w EXCEPT !.pending = @ - m, !.anyCall = TRUE, !.buffers = bs, !.keyed = ks]  BY <1>3
<1> HIDE DEF c
<1>9. bs \in Seq(BufferSet) /\ Len(bs) = n /\ DOMAIN bs = 1..n /\ bs[p] = c
      /\ \A q \in 1..n : q # p => bs[q] = w.buffers[q]
  BY <1>1, <1>5, <1>7, BufferReplaced DEF n
<1> HIDE DEF bs, m
<1>10. DOMAIN r.st = ResponsesFields /\ r.st.limit = w.limit /\ r.st.pending = w.pending - m
       /\ r.st.buffers = bs /\ r.st.keyed = ks
  BY <1>5, <1>8 DEF ResponsesFields
<1>11. Counted(r.st, Fragments(r.st.buffers, DOMAIN r.st.buffers))
  <2> DEFINE L == 1..n
  <2>1. /\ p \in L /\ DOMAIN w.buffers[p].args = 1..m /\ DOMAIN bs[p].args = {}
        /\ \A q \in L : q # p => DOMAIN bs[q].args = DOMAIN w.buffers[q].args
    BY <1>1, <1>6, <1>7, <1>9
  <2>2. Counted(w, Fragments(w.buffers, L))  BY <1>5, <1>6 DEF L
  <2> HIDE DEF L
  <2>3. PICK D : D = Own(p, m)  OBVIOUS
  <2>4. Fragments(bs, L) = Fragments(w.buffers, L) \ D /\ D \subseteq Fragments(w.buffers, L) /\ Cardinality(D) = m
    <3>1. PICK a : a = w.buffers  OBVIOUS
    <3>2. PICK z : z = bs  OBVIOUS
    <3>3. /\ p \in L /\ DOMAIN a[p].args = 1..m /\ DOMAIN z[p].args = {} /\ m \in Nat
          /\ \A q \in L : q # p => DOMAIN z[q].args = DOMAIN a[q].args
      BY <1>6, <2>1, <3>1, <3>2
    <3>4. Fragments(z, L) = Fragments(a, L) \ D  BY <2>3, <3>3, OneCallLess
    <3>5. D \subseteq Fragments(a, L)  BY <2>3, <3>3, OwnIn
    <3>6. Cardinality(D) = m  BY <2>3, <3>3, OwnIs
    <3> QED BY <3>1, <3>2, <3>4, <3>5, <3>6
  <2>5. PICK t : t = r.st  OBVIOUS
  <2>6. PICK F : F = Fragments(w.buffers, L)  OBVIOUS
  <2>7. Counted(t, F \ D)
    <3>1. Counted(w, F) /\ w.limit \in Nat /\ t.limit = w.limit /\ D \subseteq F /\ Cardinality(D) = m
          /\ t.pending = w.pending - m /\ m \in Nat
      BY <1>5, <1>6, <1>10, <2>2, <2>4, <2>5, <2>6
    <3> QED BY <3>1, CountedLess
  <2>8. Counted(r.st, Fragments(bs, L))  BY <2>4, <2>5, <2>6, <2>7
  <2> QED BY <1>9, <1>10, <2>8 DEF L
<1>12. \A k \in DOMAIN ks : ks[k] \in 1..n  BY <1>4, <1>5
<1>13. ResponsesOK(r.st)  BY <1>5, <1>9, <1>10, <1>11, <1>12 DEF ResponsesOK
<1> QED BY <1>3, <1>4, <1>9, <1>10, <1>13 DEF w, p, n, r, DoneWell

-----------------------------------------------------------------------------
(* Responses: a block's key means its own buffer, whatever interleaves.     *)
LEMMA IDsDiffer ==
  ASSUME SettingOK, NEW b \in DOMAIN reply.kinds, NEW d \in DOMAIN reply.kinds, b # d
  PROVE  BlockIDs[b] # BlockIDs[d]
<1>1. DOMAIN reply.kinds \subseteq DOMAIN BlockIDs  BY StreamAssumption DEF SettingOK
<1>2. IsInjective(BlockIDs)  BY StreamAssumption
<1> QED BY <1>1, <1>2 DEF IsInjective

LEMMA IDsAre ==
  ASSUME SettingOK, NEW b \in DOMAIN reply.kinds
  PROVE  BlockIDs[b] \in Names /\ BlockIDs[b] # "none"
<1>1. DOMAIN reply.kinds \subseteq DOMAIN BlockIDs  BY StreamAssumption DEF SettingOK
<1>2. BlockIDs[b] \in Range(BlockIDs)  BY <1>1 DEF Range
<1> QED BY <1>2, StreamAssumption DEF Names

LEMMA KeysDiffer ==
  ASSUME SettingOK, NEW b \in Tools, NEW d \in Tools, b # d
  PROVE  Key(b) # Key(d) /\ Key(b) # PlaceKey(d) /\ Key(b) # ItemKey(d) /\ ItemKey(b) # PlaceKey(d)
         /\ ItemKey(b) # ItemKey(d)
<1>1. BlockIDs[b] # BlockIDs[d]  BY IDsDiffer DEF Tools
<1>2. ItemKey(b) # ItemKey(d) /\ PlaceKey(b) # PlaceKey(d)  BY <1>1 DEF ItemKey, PlaceKey
<1>3. ItemKey(b) # PlaceKey(d) /\ PlaceKey(b) # ItemKey(d)  BY DEF ItemKey, PlaceKey
<1> QED BY <1>2, <1>3 DEF Key

(* The keys a block's lines come with.                                      *)
LEMMA LineKeys ==
  ASSUME SettingOK, NEW g \in Tools
  PROVE  /\ KeyOf(AddedLine(g)) = ItemKey(g) /\ IndexKey(AddedLine(g)) = PlaceKey(g)
         /\ AddedLine(g).id = BlockIDs[g] /\ AddedLine(g).type = "item_added"
         /\ KeyOf(DoneLine(g)) = Key(g) /\ IndexKey(DoneLine(g)) = PlaceKey(g)
         /\ DoneLine(g).type = "args_done"
         /\ DoneLine(g).id = IF quirk = "none" THEN BlockIDs[g] ELSE "none"
         /\ DoneLine(g).args = IF quirk = "none" THEN WholeArgs(BlockIDs[g]) ELSE <<>>
         /\ \A k : /\ KeyOf(DeltaLine(g, k)) = Key(g) /\ DeltaLine(g, k).frag = <<BlockIDs[g], k>>
                   /\ DeltaLine(g, k).type = "args_delta"
<1>1. BlockIDs[g] # "none"  BY IDsAre DEF Tools
<1>2. AddedLine(g).item = BlockIDs[g] /\ AddedLine(g).index = g /\ AddedLine(g).id = BlockIDs[g]
      /\ AddedLine(g).type = "item_added"
  BY DEF AddedLine
<1>3. /\ DoneLine(g).item = Item(g) /\ DoneLine(g).index = g /\ DoneLine(g).type = "args_done"
      /\ DoneLine(g).id = IF quirk = "none" THEN BlockIDs[g] ELSE "none"
      /\ DoneLine(g).args = IF quirk = "none" THEN WholeArgs(BlockIDs[g]) ELSE <<>>
  BY DEF DoneLine
<1>4. \A k : /\ DeltaLine(g, k).item = Item(g) /\ DeltaLine(g, k).index = g /\ DeltaLine(g, k).type = "args_delta"
             /\ DeltaLine(g, k).frag = <<BlockIDs[g], k>>
  BY DEF DeltaLine
<1>5. Item(g) = IF quirk = "noitem" THEN "none" ELSE BlockIDs[g]  BY DEF Item
<1>6. Key(g) = IF quirk = "noitem" THEN <<"#", g>> ELSE <<"item", BlockIDs[g]>>  BY DEF Key, ItemKey, PlaceKey
<1>7. ASSUME NEW l, l.item = Item(g), l.index = g PROVE KeyOf(l) = Key(g) /\ IndexKey(l) = PlaceKey(g)
  BY <1>1, <1>5, <1>6, <1>7 DEF KeyOf, IndexKey, PlaceKey
<1>8. KeyOf(AddedLine(g)) = ItemKey(g) /\ IndexKey(AddedLine(g)) = PlaceKey(g)
  BY <1>1, <1>2 DEF KeyOf, IndexKey, ItemKey, PlaceKey
<1>9. KeyOf(DoneLine(g)) = Key(g) /\ IndexKey(DoneLine(g)) = PlaceKey(g)  BY <1>3, <1>7
<1>10. \A k : KeyOf(DeltaLine(g, k)) = Key(g)  BY <1>4, <1>7
<1> QED BY <1>2, <1>3, <1>4, <1>8, <1>9, <1>10

(* What g's lines touch is no other block's.                                *)
OthersStay(g, t) ==
    \A b \in Tools : b # g =>
       /\ Key(b) \in DOMAIN t.keyed <=> Key(b) \in DOMAIN adapter.keyed
       /\ ItemKey(b) \in DOMAIN t.keyed => ItemKey(b) \in DOMAIN adapter.keyed
       /\ Has(adapter, b) => t.keyed[Key(b)] = adapter.keyed[Key(b)] /\ At1(t, b) = At1(adapter, b)

(* A step of block g leaves every other block's key and buffer alone.       *)
LEMMA ResponsesFitStep ==
  ASSUME SettingOK, UNCHANGED setting, ResponsesFit(adapter), NEW t, adapter' = t, NEW g \in Groups,
         sent[g] \in Nat, sent'[g] = sent[g] + 1,
         \A h \in Groups : h # g => sent'[h] = sent[h] /\ (InProgress(h)' <=> InProgress(h)),
         OthersStay(g, t),
         g \in Tools /\ InProgress(g)' =>
            /\ quirk # "none" \/ sent[g] + 1 > 1 => Key(g) \in DOMAIN t.keyed
            /\ Key(g) \in DOMAIN t.keyed =>
                 /\ At1(t, g).args = First(BlockIDs[g], sent[g])
                 /\ quirk # "none" => At1(t, g).id = BlockIDs[g]
                 /\ \A b \in Tools : b # g /\ Has(adapter, b) => t.keyed[Key(g)] # adapter.keyed[Key(b)]
  PROVE  ResponsesFit(adapter)'
<1>1. Tools' = Tools /\ (\A b : Key(b)' = Key(b) /\ ItemKey(b)' = ItemKey(b)) /\ quirk' = quirk
      /\ \A b \in Tools : b \in Groups
  <2>1. reply' = reply /\ quirk' = quirk  BY SettingStays
  <2>2. \A b \in Tools : b \in Groups  BY SettingIs DEF Tools
  <2> QED BY <2>1, <2>2 DEF Tools, Key, ItemKey, PlaceKey
<1>2. \A b \in Tools : Has(adapter, b)' <=> InProgress(b)' /\ Key(b) \in DOMAIN t.keyed
  BY <1>1 DEF Has
<1>3. \A b \in Tools : At1(adapter, b)' = At1(t, b)  BY <1>1 DEF At1
<1>4. \A b \in Tools : b # g => /\ Has(adapter, b)' <=> Has(adapter, b)
                                /\ sent'[b] = sent[b]
                                /\ InProgress(b)' <=> InProgress(b)
  BY <1>1, <1>2 DEF Has, OthersStay
<1>5. \A b \in Tools : ItemKey(b) \in DOMAIN t.keyed => sent'[b] > 0
  <2> SUFFICES ASSUME NEW b \in Tools, ItemKey(b) \in DOMAIN t.keyed PROVE sent'[b] > 0  OBVIOUS
  <2>1. CASE b = g  BY <2>1
  <2>2. CASE b # g  BY <1>4, <2>2 DEF ResponsesFit, OthersStay
  <2> QED BY <2>1, <2>2
<1>6. \A b \in Tools : InProgress(b)' /\ (quirk # "none" \/ sent'[b] > 1) => Key(b) \in DOMAIN t.keyed
  <2> SUFFICES ASSUME NEW b \in Tools, InProgress(b)', quirk # "none" \/ sent'[b] > 1
               PROVE  Key(b) \in DOMAIN t.keyed
    OBVIOUS
  <2>1. CASE b = g  BY <2>1
  <2>2. CASE b # g  BY <1>4, <2>2 DEF ResponsesFit, OthersStay
  <2> QED BY <2>1, <2>2
<1>7. \A b \in Tools : Has(adapter, b)' => /\ At1(t, b).args = First(BlockIDs[b], sent'[b] - 1)
                                           /\ quirk # "none" => At1(t, b).id = BlockIDs[b]
  <2> SUFFICES ASSUME NEW b \in Tools, Has(adapter, b)'
               PROVE  /\ At1(t, b).args = First(BlockIDs[b], sent'[b] - 1)
                      /\ quirk # "none" => At1(t, b).id = BlockIDs[b]
    OBVIOUS
  <2>1. CASE b = g
    <3>1. sent'[g] - 1 = sent[g]  OBVIOUS
    <3> QED BY <1>2, <2>1, <3>1
  <2>2. CASE b # g
    <3>1. Has(adapter, b) /\ sent'[b] = sent[b] /\ At1(t, b) = At1(adapter, b)  BY <1>4, <2>2 DEF OthersStay
    <3> QED BY <3>1 DEF ResponsesFit
  <2> QED BY <2>1, <2>2
<1>8. \A b, d \in Tools : b # d /\ Has(adapter, b)' /\ Has(adapter, d)' => t.keyed[Key(b)] # t.keyed[Key(d)]
  <2> SUFFICES ASSUME NEW b \in Tools, NEW d \in Tools, b # d, Has(adapter, b)', Has(adapter, d)'
               PROVE  t.keyed[Key(b)] # t.keyed[Key(d)]
    OBVIOUS
  <2>1. CASE b = g
    <3>1. Has(adapter, d) /\ t.keyed[Key(d)] = adapter.keyed[Key(d)]  BY <1>4, <2>1 DEF OthersStay
    <3> QED BY <1>2, <2>1, <3>1
  <2>2. CASE d = g
    <3>1. Has(adapter, b) /\ t.keyed[Key(b)] = adapter.keyed[Key(b)]  BY <1>4, <2>2 DEF OthersStay
    <3> QED BY <1>2, <2>2, <3>1
  <2>3. CASE b # g /\ d # g
    <3>1. /\ Has(adapter, b) /\ t.keyed[Key(b)] = adapter.keyed[Key(b)]
          /\ Has(adapter, d) /\ t.keyed[Key(d)] = adapter.keyed[Key(d)]
      BY <1>4, <2>3 DEF OthersStay
    <3> QED BY <3>1 DEF ResponsesFit
  <2> QED BY <2>1, <2>2, <2>3
<1> QED BY <1>1, <1>3, <1>5, <1>6, <1>7, <1>8 DEF ResponsesFit

LEMMA ResponsesQuiet ==
  ASSUME SettingOK, SentOK, OrderOK, UNCHANGED setting, ResponsesFit(adapter), adapter' = adapter,
         NEW g \in Groups, Ready(g), sent' = [sent EXCEPT ![g] = @ + 1],
         g \in Tools => sent[g] = 0 /\ quirk = "none"
  PROVE  ResponsesFit(adapter)'
<1>1. PICK t : t = adapter  OBVIOUS
<1>2. /\ sent[g] \in Nat /\ sent'[g] = sent[g] + 1
      /\ \A h \in Groups : h # g => sent'[h] = sent[h] /\ (InProgress(h)' <=> InProgress(h))
  BY SendFacts
<1>3. g \in Tools => /\ ~ (quirk # "none" \/ sent[g] + 1 > 1)
                     /\ Key(g) \notin DOMAIN t.keyed
  <2> SUFFICES ASSUME g \in Tools PROVE ~ (quirk # "none" \/ sent[g] + 1 > 1) /\ Key(g) \notin DOMAIN adapter.keyed
    BY <1>1
  <2>1. Key(g) = ItemKey(g)  BY DEF Key
  <2>2. ItemKey(g) \notin DOMAIN adapter.keyed  BY DEF ResponsesFit
  <2> QED BY <2>1, <2>2
<1>4. adapter' = t /\ ResponsesFit(adapter)  BY <1>1
<1>5. OthersStay(g, t)  BY <1>1 DEF OthersStay
<1>6. g \in Tools /\ InProgress(g)' =>
            /\ quirk # "none" \/ sent[g] + 1 > 1 => Key(g) \in DOMAIN t.keyed
            /\ Key(g) \in DOMAIN t.keyed =>
                 /\ At1(t, g).args = First(BlockIDs[g], sent[g])
                 /\ quirk # "none" => At1(t, g).id = BlockIDs[g]
                 /\ \A b \in Tools : b # g /\ Has(adapter, b) => t.keyed[Key(g)] # adapter.keyed[Key(b)]
  BY <1>3
<1> QED BY <1>2, <1>4, <1>5, <1>6, ResponsesFitStep

(* What a step that changes one buffer, under the keys of its own block,    *)
(* leaves as it was.                                                        *)
OtherKeysStay(g, t) ==
    \A k : k # ItemKey(g) /\ k # PlaceKey(g) =>
              /\ k \in DOMAIN t.keyed <=> k \in DOMAIN adapter.keyed
              /\ k \in DOMAIN adapter.keyed => t.keyed[k] = adapter.keyed[k]
OtherBuffersStay(p, t) ==
    \A q \in 1..Len(adapter.buffers) : q # p => t.buffers[q] = adapter.buffers[q]

LEMMA OthersApart ==
  ASSUME SettingOK, ResponsesOK(adapter), NEW g \in Tools, NEW t, NEW p,
         OtherKeysStay(g, t), OtherBuffersStay(p, t),
         \A b \in Tools : b # g /\ Has(adapter, b) => adapter.keyed[Key(b)] # p
  PROVE  OthersStay(g, t)
<1> SUFFICES ASSUME NEW b \in Tools, b # g
      PROVE /\ Key(b) \in DOMAIN t.keyed <=> Key(b) \in DOMAIN adapter.keyed
            /\ ItemKey(b) \in DOMAIN t.keyed => ItemKey(b) \in DOMAIN adapter.keyed
            /\ Has(adapter, b) => t.keyed[Key(b)] = adapter.keyed[Key(b)] /\ At1(t, b) = At1(adapter, b)
  BY DEF OthersStay
<1> DEFINE n == Len(adapter.buffers)
<1>1. Key(b) # ItemKey(g) /\ Key(b) # PlaceKey(g) /\ ItemKey(b) # ItemKey(g) /\ ItemKey(b) # PlaceKey(g)
  BY KeysDiffer
<1>2. (\A k \in DOMAIN adapter.keyed : adapter.keyed[k] \in 1..n)
      /\ \A q \in 1..n : q # p => t.buffers[q] = adapter.buffers[q]
  BY DEF ResponsesOK, OtherBuffersStay
<1> HIDE DEF n
<1>3. ASSUME Has(adapter, b) PROVE t.keyed[Key(b)] = adapter.keyed[Key(b)] /\ At1(t, b) = At1(adapter, b)
  <2>1. Key(b) \in DOMAIN adapter.keyed  BY <1>3 DEF Has
  <2>2. PICK q : q = adapter.keyed[Key(b)]  OBVIOUS
  <2>3. q \in 1..n  BY <1>2, <2>1, <2>2
  <2>4. q # p  BY <1>3, <2>2
  <2>5. t.keyed[Key(b)] = q  BY <1>1, <2>1, <2>2 DEF OtherKeysStay
  <2>6. t.buffers[q] = adapter.buffers[q]  BY <1>2, <2>3, <2>4
  <2>7. At1(t, b) = t.buffers[q] /\ At1(adapter, b) = adapter.buffers[q]  BY <2>2, <2>5 DEF At1
  <2> QED BY <2>2, <2>5, <2>6, <2>7
<1> QED BY <1>1, <1>3 DEF OtherKeysStay

LEMMA ResponsesAdded ==
  ASSUME SettingOK, SentOK, OrderOK, UNCHANGED setting, ResponsesOK(adapter), ResponsesFit(adapter),
         NEW g \in Tools, Ready(g), sent' = [sent EXCEPT ![g] = @ + 1], sent[g] = 0,
         NEW r, r = OnItemAdded(adapter, AddedLine(g)), adapter' = r.st
  PROVE  ResponsesOK(r.st) /\ r.out = <<>> /\ ResponsesFit(adapter)'
<1> DEFINE l == AddedLine(g)
           w == WithBuffer(adapter, l)
           n == Len(adapter.buffers)
           p == w.keyed[KeyOf(l)]
<1>1. KeyOf(l) = ItemKey(g) /\ IndexKey(l) = PlaceKey(g) /\ l.id = BlockIDs[g] /\ l.id \in Names
      /\ g \in DOMAIN reply.kinds
  <2>1. g \in DOMAIN reply.kinds  BY DEF Tools
  <2> QED BY <2>1, LineKeys, IDsAre
<1>2. ItemKey(g) \notin DOMAIN adapter.keyed  BY DEF ResponsesFit
<1>3. r = OnItemAdded(adapter, l)  OBVIOUS
<1> HIDE DEF l
<1>4. /\ DOMAIN w.keyed = DOMAIN adapter.keyed \cup {KeyOf(l)} /\ p = n + 1 /\ Len(w.buffers) = n + 1 /\ n \in Nat
      /\ \A k \in DOMAIN adapter.keyed : w.keyed[k] = adapter.keyed[k]
      /\ \A q \in 1..n : w.buffers[q] = adapter.buffers[q]
      /\ w.buffers[p] = NewBuffer
  BY <1>1, <1>2, WithBufferIs, BuffersAre
<1>5. /\ ResponsesOK(r.st) /\ r.out = <<>>
      /\ DOMAIN r.st.keyed = DOMAIN w.keyed \cup {IndexKey(l)} /\ r.st.keyed[IndexKey(l)] = p
      /\ \A k \in DOMAIN w.keyed : k # IndexKey(l) => r.st.keyed[k] = w.keyed[k]
      /\ r.st.buffers[p].id = l.id /\ r.st.buffers[p].args = w.buffers[p].args
      /\ \A q \in 1..Len(w.buffers) : q # p => r.st.buffers[q] = w.buffers[q]
  
  <2>1. AddedWell(adapter, l)  BY <1>1, ItemAddedIs
  <2> QED BY <1>3, <2>1 DEF AddedWell
<1> HIDE DEF w, p, n
<1>6. \A k \in DOMAIN adapter.keyed : adapter.keyed[k] \in 1..n  BY DEF ResponsesOK, n
<1>7. PICK t : t = r.st  OBVIOUS
<1>8. OthersStay(g, t)
  <2>1. OtherKeysStay(g, t)  BY <1>1, <1>4, <1>5, <1>7 DEF OtherKeysStay
  <2>2. n + 1 \notin 1..n /\ 1..n \subseteq 1..(n + 1)  BY <1>4
  <2>3. \A q \in 1..n : q # p => t.buffers[q] = adapter.buffers[q]  BY <1>4, <1>5, <1>7, <2>2
  <2>4. OtherBuffersStay(p, t)  BY <2>3 DEF OtherBuffersStay, n
  <2>5. \A b \in Tools : b # g /\ Has(adapter, b) => adapter.keyed[Key(b)] # p  BY <1>4, <1>6, <2>2 DEF Has
  <2> QED BY <2>1, <2>4, <2>5, OthersApart
<1>9. Key(g) \in DOMAIN t.keyed /\ t.keyed[Key(g)] = n + 1
  <2>1. Key(g) = ItemKey(g) \/ Key(g) = PlaceKey(g)  BY DEF Key
  <2>2. ItemKey(g) # PlaceKey(g)  BY DEF ItemKey, PlaceKey
  <2>3. PlaceKey(g) \in DOMAIN t.keyed /\ t.keyed[PlaceKey(g)] = n + 1  BY <1>1, <1>4, <1>5, <1>7
  <2>4. ItemKey(g) \in DOMAIN t.keyed /\ t.keyed[ItemKey(g)] = n + 1  
    <3>1. w.keyed[ItemKey(g)] = n + 1 /\ ItemKey(g) \in DOMAIN w.keyed  BY <1>1, <1>4 DEF p
    <3> QED BY <1>1, <1>5, <1>7, <2>2, <3>1
  <2> QED BY <2>1, <2>3, <2>4
<1>10. /\ At1(t, g).args = First(BlockIDs[g], sent[g]) /\ At1(t, g).id = BlockIDs[g]
       /\ \A b \in Tools : b # g /\ Has(adapter, b) => t.keyed[Key(g)] # adapter.keyed[Key(b)]
  <2>1. t.buffers[n + 1].args = <<>> /\ t.buffers[n + 1].id = BlockIDs[g]
    BY <1>1, <1>4, <1>5, <1>7, NewBufferIs
  <2>2. At1(t, g) = t.buffers[n + 1]  BY <1>9 DEF At1
  <2>3. First(BlockIDs[g], sent[g]) = <<>>  BY DEF First
  <2>4. \A b \in Tools : Has(adapter, b) => adapter.keyed[Key(b)] \in 1..n  BY <1>6 DEF Has
  <2>5. n + 1 \notin 1..n  BY <1>4
  <2> QED BY <1>9, <2>1, <2>2, <2>3, <2>4, <2>5
<1>11. /\ sent[g] \in Nat /\ sent'[g] = sent[g] + 1 /\ g \in Groups
       /\ \A h \in Groups : h # g => sent'[h] = sent[h] /\ (InProgress(h)' <=> InProgress(h))
  <2>1. g \in Groups  BY <1>1, BlockGroup
  <2> QED BY <2>1, SendFacts
<1>12. ResponsesFit(adapter)'
  <2>1. adapter' = t  BY <1>7
  <2>2. g \in Tools /\ InProgress(g)' =>
            /\ quirk # "none" \/ sent[g] + 1 > 1 => Key(g) \in DOMAIN t.keyed
            /\ Key(g) \in DOMAIN t.keyed =>
                 /\ At1(t, g).args = First(BlockIDs[g], sent[g])
                 /\ quirk # "none" => At1(t, g).id = BlockIDs[g]
                 /\ \A b \in Tools : b # g /\ Has(adapter, b) => t.keyed[Key(g)] # adapter.keyed[Key(b)]
    BY <1>9, <1>10
  <2> QED BY <1>8, <1>11, <2>1, <2>2, ResponsesFitStep
<1> QED BY <1>5, <1>12

(* The buffer behind the key of a block in progress, made when missing.     *)
LEMMA OwnBuffer ==
  ASSUME SettingOK, ResponsesOK(adapter), ResponsesFit(adapter), NEW g \in Tools, InProgress(g), NEW l, KeyOf(l) = Key(g),
         sent[g] \in Nat, NEW w, w = WithBuffer(adapter, l), NEW p, p = w.keyed[Key(g)]
  PROVE  /\ DOMAIN w.keyed = DOMAIN adapter.keyed \cup {Key(g)} /\ p \in 1..Len(w.buffers) /\ Len(w.buffers) \in Nat
         /\ \A k \in DOMAIN adapter.keyed : w.keyed[k] = adapter.keyed[k]
         /\ \A q \in 1..Len(adapter.buffers) : q \in 1..Len(w.buffers) /\ w.buffers[q] = adapter.buffers[q]
         /\ w.buffers[p].args = First(BlockIDs[g], sent[g] - 1)
         /\ quirk # "none" => w.buffers[p].id = BlockIDs[g]
         /\ \A b \in Tools : b # g /\ Has(adapter, b) => adapter.keyed[Key(b)] # p
<1> DEFINE n == Len(adapter.buffers)
           m == Len(w.buffers)
           key == Key(g)
<1>1. /\ DOMAIN w.keyed = DOMAIN adapter.keyed \cup {key} /\ p \in 1..m /\ m \in Nat /\ n \in Nat
      /\ \A k \in DOMAIN adapter.keyed : w.keyed[k] = adapter.keyed[k]
      /\ \A q \in 1..n : w.buffers[q] = adapter.buffers[q]
      /\ key \in DOMAIN adapter.keyed => w = adapter
      /\ key \notin DOMAIN adapter.keyed => p = n + 1 /\ m = n + 1 /\ w.buffers[p] = NewBuffer
  BY WithBufferIs, BuffersAre
<1>2. \A k \in DOMAIN adapter.keyed : adapter.keyed[k] \in 1..n  BY DEF ResponsesOK
<1>3. key \in DOMAIN adapter.keyed => m = n  BY <1>1
<1> HIDE DEF n, m, key
<1>4. 1..n \subseteq 1..m  BY <1>1, <1>3
<1>5. CASE key \in DOMAIN adapter.keyed
  <2>1. Has(adapter, g)  BY <1>5 DEF Has, key
  <2>2. At1(adapter, g) = w.buffers[p] /\ p = adapter.keyed[Key(g)]  BY <1>1, <1>5 DEF At1, key
  <2>3. w.buffers[p].args = First(BlockIDs[g], sent[g] - 1) /\ (quirk # "none" => w.buffers[p].id = BlockIDs[g])
    BY <2>1, <2>2 DEF ResponsesFit
  <2>4. \A b \in Tools : b # g /\ Has(adapter, b) => adapter.keyed[Key(b)] # p  BY <2>1, <2>2 DEF ResponsesFit
  <2> QED BY <1>1, <1>4, <2>3, <2>4 DEF n, m, key
<1>6. CASE key \notin DOMAIN adapter.keyed
  <2>1. quirk = "none" /\ ~ (sent[g] > 1)  BY <1>6 DEF ResponsesFit, key
  <2>2. sent[g] > 0  BY DEF InProgress
  <2>3. sent[g] - 1 = 0  BY <2>1, <2>2
  <2>4. First(BlockIDs[g], sent[g] - 1) = <<>>  BY <2>3 DEF First
  <2>5. w.buffers[p].args = <<>>  BY <1>1, <1>6, NewBufferIs
  <2>6. n + 1 \notin 1..n  BY <1>1
  <2>7. \A b \in Tools : b # g /\ Has(adapter, b) => adapter.keyed[Key(b)] # p  BY <1>1, <1>2, <1>6, <2>6 DEF Has
  <2> QED BY <1>1, <1>4, <2>1, <2>4, <2>5, <2>7 DEF n, m, key
<1> QED BY <1>5, <1>6

LEMMA ResponsesDelta ==
  ASSUME SettingOK, SentOK, OrderOK, UNCHANGED setting, ResponsesOK(adapter), ResponsesFit(adapter),
         NEW g \in Tools, Ready(g), sent' = [sent EXCEPT ![g] = @ + 1], sent[g] > 0,
         NEW r, r = OnArgsDelta(adapter, DeltaLine(g, sent[g])), adapter' = r.st
  PROVE  ResponsesOK(r.st) /\ EventsOK(r.out) /\ (~ r.halt => ResponsesFit(adapter)')
<1> DEFINE l == DeltaLine(g, sent[g])
           w == WithBuffer(adapter, l)
           p == w.keyed[KeyOf(l)]
<1>1. g \in DOMAIN reply.kinds /\ g \in Groups  BY BlockGroup DEF Tools
<1>2. KeyOf(l) = Key(g) /\ l.frag = <<BlockIDs[g], sent[g]>>  BY LineKeys
<1>3. sent[g] \in Nat  BY <1>1 DEF SentOK
<1>4. l.frag \in ArgFrags  BY <1>1, <1>2, <1>3, IDsAre DEF ArgFrags
<1>5. InProgress(g)  BY DEF InProgress, Ready
<1>6. r = OnArgsDelta(adapter, l)  OBVIOUS
<1> HIDE DEF l
<1>7. DeltaWell(adapter, l)  BY <1>4, ArgsDeltaIs
<1>8. /\ ResponsesOK(r.st) /\ r.halt \in BOOLEAN /\ r.out = (IF r.halt THEN <<BareError>> ELSE <<>>)
      /\ ~ r.halt => /\ r.st.keyed = w.keyed
                     /\ r.st.buffers[p].id = w.buffers[p].id
                     /\ r.st.buffers[p].args = Append(w.buffers[p].args, l.frag)
                     /\ \A q \in 1..Len(w.buffers) : q # p => r.st.buffers[q] = w.buffers[q]
  BY <1>6, <1>7 DEF DeltaWell
<1>9. p = w.keyed[Key(g)]  BY <1>2
<1> HIDE DEF w, p
<1>10. /\ DOMAIN w.keyed = DOMAIN adapter.keyed \cup {Key(g)} /\ p \in 1..Len(w.buffers)
       /\ \A k \in DOMAIN adapter.keyed : w.keyed[k] = adapter.keyed[k]
       /\ \A q \in 1..Len(adapter.buffers) : q \in 1..Len(w.buffers) /\ w.buffers[q] = adapter.buffers[q]
       /\ w.buffers[p].args = First(BlockIDs[g], sent[g] - 1)
       /\ quirk # "none" => w.buffers[p].id = BlockIDs[g]
       /\ \A b \in Tools : b # g /\ Has(adapter, b) => adapter.keyed[Key(b)] # p
  BY <1>2, <1>3, <1>5, <1>9, OwnBuffer DEF w
<1>11. EventsOK(r.out)
  <2>1. BareError.type # "tool_use"  BY EventTypes
  <2>2. PICK a : a = <<BareError>>  OBVIOUS
  <2>3. PICK z : z = <<>>  OBVIOUS
  <2>4. EventsOK(a) /\ EventsOK(z)  BY <2>1, <2>2, <2>3, EventsOne, EventsNone
  <2>5. r.out = a \/ r.out = z  BY <1>8, <2>2, <2>3
  <2> QED BY <2>4, <2>5
<1>12. ASSUME ~ r.halt PROVE ResponsesFit(adapter)'
  <2>1. PICK t : t = r.st  OBVIOUS
  <2>2. OtherKeysStay(g, t)
    <3>1. DOMAIN t.keyed = DOMAIN adapter.keyed \cup {Key(g)}
          /\ \A k \in DOMAIN adapter.keyed : t.keyed[k] = adapter.keyed[k]
      BY <1>8, <1>10, <1>12, <2>1
    <3>2. Key(g) = ItemKey(g) \/ Key(g) = PlaceKey(g)  BY DEF Key
    <3> QED BY <3>1, <3>2 DEF OtherKeysStay
  <2>3. OtherBuffersStay(p, t)  BY <1>8, <1>10, <1>12, <2>1 DEF OtherBuffersStay
  <2>4. Key(g) \in DOMAIN t.keyed /\ t.keyed[Key(g)] = p  BY <1>8, <1>9, <1>10, <1>12, <2>1
  <2>5. t.buffers[p].args = First(BlockIDs[g], sent[g])
    <3>1. sent[g] - 1 \in Nat /\ sent[g] - 1 + 1 = sent[g]  BY <1>3
    <3>2. PICK m \in Nat : m = sent[g] - 1  BY <3>1
    <3>3. Append(First(BlockIDs[g], m), <<BlockIDs[g], m + 1>>) = First(BlockIDs[g], m + 1)  BY FirstIs
    <3>4. m + 1 = sent[g]  BY <3>1, <3>2
    <3>5. t.buffers[p].args = Append(First(BlockIDs[g], m), <<BlockIDs[g], sent[g]>>)
      BY <1>2, <1>8, <1>10, <1>12, <2>1, <3>2
    <3> QED BY <3>3, <3>4, <3>5
  <2>6. quirk # "none" => t.buffers[p].id = BlockIDs[g]  BY <1>8, <1>10, <1>12, <2>1
  <2>7. adapter' = t  BY <2>1
  <2>8. \A b \in Tools : b # g /\ Has(adapter, b) => adapter.keyed[Key(b)] # p  BY <1>10
  <2>9. OthersStay(g, t)  BY <2>2, <2>3, <2>8, OthersApart
  <2>10. /\ sent[g] \in Nat /\ sent'[g] = sent[g] + 1 /\ g \in Groups
         /\ \A h \in Groups : h # g => sent'[h] = sent[h] /\ (InProgress(h)' <=> InProgress(h))
    BY <1>1, SendFacts
  <2>11. At1(t, g) = t.buffers[p]  BY <2>4 DEF At1
  <2>12. g \in Tools /\ InProgress(g)' =>
             /\ quirk # "none" \/ sent[g] + 1 > 1 => Key(g) \in DOMAIN t.keyed
             /\ Key(g) \in DOMAIN t.keyed =>
                  /\ At1(t, g).args = First(BlockIDs[g], sent[g])
                  /\ quirk # "none" => At1(t, g).id = BlockIDs[g]
                  /\ \A b \in Tools : b # g /\ Has(adapter, b) => t.keyed[Key(g)] # adapter.keyed[Key(b)]
    BY <2>4, <2>5, <2>6, <2>8, <2>11
  <2> QED BY <2>7, <2>9, <2>10, <2>12, ResponsesFitStep
<1> QED BY <1>8, <1>11, <1>12

(* The call a done event emits: the event's own id and arguments, or what   *)
(* was buffered under its key.                                              *)
LEMMA DoneCall ==
  ASSUME SettingOK, provider = "responses", NEW g \in Tools, sent[g] = ArgsFragments + 1, NEW l, l = DoneLine(g), NEW b,
         b.args = First(BlockIDs[g], sent[g] - 1), quirk # "none" => b.id = BlockIDs[g],
         NEW q, q = <<ToolUse(ToolCall(IF l.id # "none" THEN l.id ELSE b.id,
                                       IF l.args # <<>> THEN l.args ELSE b.args))>>
  PROVE  EventsOK(q)
<1> DEFINE id == BlockIDs[g]
           c == ToolCall(id, First(id, ArgsFragments))
<1>1. ArgsFragments \in Nat /\ sent[g] - 1 = ArgsFragments  BY ArgsFragmentsAssumption
<1>2. id # "none"  BY IDsAre DEF Tools
<1>3. l.id = (IF quirk = "none" THEN id ELSE "none") /\ l.args = (IF quirk = "none" THEN WholeArgs(id) ELSE <<>>)
  BY LineKeys
<1>4. b.args = First(id, ArgsFragments)  BY <1>1
<1>5. WholeArgs(id) = First(id, ArgsFragments)  BY DEF WholeArgs, First
<1> HIDE DEF id
<1>6. (IF l.id # "none" THEN l.id ELSE b.id) = id
  <2>1. CASE quirk = "none"  BY <1>2, <1>3, <2>1
  <2>2. CASE quirk # "none"  BY <1>3, <2>2 DEF id
  <2> QED BY <2>1, <2>2
<1>7. (IF l.args # <<>> THEN l.args ELSE b.args) = First(id, ArgsFragments)
  <2>1. CASE l.args # <<>>  BY <1>3, <1>5, <2>1
  <2>2. CASE ~ (l.args # <<>>)  BY <1>4, <2>2
  <2> QED BY <2>1, <2>2
<1>8. q = <<ToolUse(c)>>  BY <1>6, <1>7
<1>9. Unspliced(c)
  <2>1. ArgsFragments <= ArgsFragments /\ provider # "gemini"  BY <1>1
  <2> QED BY <1>1, <2>1, CallUnspliced
<1>10. ToolUse(c).call = c  BY DEF ToolUse
<1> HIDE DEF c
<1> QED BY <1>8, <1>9, <1>10, EventsOne

LEMMA ResponsesDone ==
  ASSUME SettingOK, SentOK, OrderOK, UNCHANGED setting, provider = "responses", ResponsesOK(adapter), ResponsesFit(adapter),
         NEW g \in Tools, Ready(g), sent' = [sent EXCEPT ![g] = @ + 1], sent[g] = ArgsFragments + 1,
         NEW r, r = OnArgsDone(adapter, DoneLine(g)), adapter' = r.st
  PROVE  ResponsesOK(r.st) /\ EventsOK(r.out) /\ ResponsesFit(adapter)'
<1> DEFINE l == DoneLine(g)
           w == WithBuffer(adapter, l)
           p == w.keyed[KeyOf(l)]
           b == w.buffers[p]
<1>1. g \in DOMAIN reply.kinds /\ g \in Groups  BY BlockGroup DEF Tools
<1>2. KeyOf(l) = Key(g) /\ IndexKey(l) = PlaceKey(g)  BY LineKeys
<1>3. sent[g] \in Nat /\ sent[g] > 0  BY <1>1, ArgsFragmentsAssumption DEF SentOK
<1>4. InProgress(g)  BY <1>3 DEF InProgress, Ready
<1>5. r = OnArgsDone(adapter, l) /\ l = DoneLine(g)  OBVIOUS
<1> HIDE DEF l
<1>6. DoneWell(adapter, l)  BY ArgsDoneIs
<1>7. /\ ResponsesOK(r.st)
      /\ r.out = <<ToolUse(ToolCall(IF l.id # "none" THEN l.id ELSE b.id,
                                    IF l.args # <<>> THEN l.args ELSE b.args))>>
      /\ DOMAIN r.st.keyed = DOMAIN w.keyed \ {KeyOf(l), IndexKey(l)}
      /\ \A k \in DOMAIN r.st.keyed : r.st.keyed[k] = w.keyed[k]
      /\ \A q \in 1..Len(w.buffers) : q # p => r.st.buffers[q] = w.buffers[q]
  BY <1>5, <1>6 DEF DoneWell
<1>8. p = w.keyed[Key(g)]  BY <1>2
<1> HIDE DEF w, p
<1>9. /\ DOMAIN w.keyed = DOMAIN adapter.keyed \cup {Key(g)} /\ p \in 1..Len(w.buffers)
      /\ \A k \in DOMAIN adapter.keyed : w.keyed[k] = adapter.keyed[k]
      /\ \A q \in 1..Len(adapter.buffers) : q \in 1..Len(w.buffers) /\ w.buffers[q] = adapter.buffers[q]
      /\ w.buffers[p].args = First(BlockIDs[g], sent[g] - 1)
      /\ quirk # "none" => w.buffers[p].id = BlockIDs[g]
      /\ \A d \in Tools : d # g /\ Has(adapter, d) => adapter.keyed[Key(d)] # p
  BY <1>2, <1>3, <1>4, <1>8, OwnBuffer DEF w
<1>10. EventsOK(r.out)
  <2>1. b.args = First(BlockIDs[g], sent[g] - 1) /\ (quirk # "none" => b.id = BlockIDs[g])  BY <1>9
  <2>2. PICK o : o = r.out  OBVIOUS
  <2>3. o = <<ToolUse(ToolCall(IF l.id # "none" THEN l.id ELSE b.id,
                               IF l.args # <<>> THEN l.args ELSE b.args))>>
    BY <1>7, <2>2
  <2> HIDE DEF b
  <2>4. EventsOK(o)  BY <1>5, <2>1, <2>3, DoneCall
  <2> QED BY <2>2, <2>4
<1>11. PICK t : t = r.st  OBVIOUS
<1>12. OthersStay(g, t)
  <2>1. OtherKeysStay(g, t)
    <3>1. DOMAIN t.keyed = (DOMAIN adapter.keyed \cup {Key(g)}) \ {Key(g), PlaceKey(g)}
          /\ \A k \in DOMAIN t.keyed : t.keyed[k] = w.keyed[k]
      BY <1>2, <1>7, <1>9, <1>11
    <3>2. Key(g) = ItemKey(g) \/ Key(g) = PlaceKey(g)  BY DEF Key
    <3> QED BY <1>9, <3>1, <3>2 DEF OtherKeysStay
  <2>2. OtherBuffersStay(p, t)  BY <1>7, <1>9, <1>11 DEF OtherBuffersStay
  <2>3. \A d \in Tools : d # g /\ Has(adapter, d) => adapter.keyed[Key(d)] # p  BY <1>9
  <2> QED BY <2>1, <2>2, <2>3, OthersApart
<1>13. ResponsesFit(adapter)'
  <2>1. /\ sent[g] \in Nat /\ sent'[g] = sent[g] + 1
        /\ \A h \in Groups : h # g => sent'[h] = sent[h] /\ (InProgress(h)' <=> InProgress(h))
        /\ (InProgress(g)' <=> sent[g] + 1 # Len(LinesOf(g)))
    BY <1>1, SendFacts
  <2>2. Len(LinesOf(g)) = ArgsFragments + 2
    <3>1. reply.kinds[g] = "tool" /\ LinesOf(g) = BlockLines(g)  BY <1>1, BlockGroup DEF Tools
    <3> QED BY <1>1, <3>1, ResponsesBlockLines
  <2>3. ~ InProgress(g)'  BY <2>1, <2>2, ArgsFragmentsAssumption
  <2>4. g \in Tools /\ InProgress(g)' =>
            /\ quirk # "none" \/ sent[g] + 1 > 1 => Key(g) \in DOMAIN t.keyed
            /\ Key(g) \in DOMAIN t.keyed =>
                 /\ At1(t, g).args = First(BlockIDs[g], sent[g])
                 /\ quirk # "none" => At1(t, g).id = BlockIDs[g]
                 /\ \A d \in Tools : d # g /\ Has(adapter, d) => t.keyed[Key(g)] # adapter.keyed[Key(d)]
    BY <2>3
  <2>5. adapter' = t  BY <1>11
  <2> QED BY <1>1, <1>12, <2>1, <2>4, <2>5, ResponsesFitStep
<1> QED BY <1>7, <1>10, <1>13

-----------------------------------------------------------------------------
LEMMA GroupCases ==
  ASSUME SettingOK, NEW g \in Groups
  PROVE  g = 0 \/ g = Len(reply.kinds) + 1 \/ g \in DOMAIN reply.kinds
<1>1. PICK n \in Nat : n = Len(reply.kinds)  BY SettingIs
<1>2. g \in 0..(n + 1) /\ DOMAIN reply.kinds = 1..n  BY <1>1, SettingIs
<1> QED BY <1>1, <1>2

(* Only Anthropic's streams have a line before the first block.             *)
LEMMA NoStartLine ==
  ASSUME SettingOK, SentOK, provider # "anthropic", NEW g \in Groups, Ready(g) PROVE g # 0
<1> SUFFICES ASSUME g = 0 PROVE FALSE  OBVIOUS
<1>1. LinesOf(g) = StartLines /\ StartLines = <<>>  BY DEF LinesOf, StartLines
<1>2. PICK z : z = <<>>  OBVIOUS
<1>3. Len(z) = 0  BY <1>2
<1>4. Len(LinesOf(g)) = 0  BY <1>1, <1>2, <1>3
<1> QED BY <1>4 DEF Ready, Sent, SentOK

LEMMA QuietOut ==
  ASSUME NEW e, e.type # "tool_use", NEW q, q = <<e>> PROVE EventsOK(q)
BY EventsOne

(* A line of the reply read by the Responses adapter.                       *)
LEMMA ResponsesReceives ==
  ASSUME SettingOK, SentOK, OrderOK, UNCHANGED setting, provider = "responses", ResponsesOK(adapter), ResponsesFit(adapter),
         NEW g \in Groups, Ready(g), sent' = [sent EXCEPT ![g] = @ + 1],
         NEW r, r = ResponsesLine(adapter, LinesOf(g)[sent[g] + 1]), adapter' = r.st
  PROVE  ResponsesOK(r.st) /\ EventsOK(r.out) /\ (~ r.halt => ResponsesFit(adapter)')
<1> DEFINE l == LinesOf(g)[sent[g] + 1]
<1>1. sent[g] \in Nat /\ sent[g] + 1 \in 1..Len(LinesOf(g)) /\ sent[g] < Len(LinesOf(g)) /\ Len(LinesOf(g)) \in Nat
  BY SendFacts
<1>2. r = ResponsesLine(adapter, l)  OBVIOUS
<1>3. g # 0  BY NoStartLine
<1>4. CASE g = Len(reply.kinds) + 1
  <2>1. LinesOf(g) = EndLines  BY <1>3, <1>4 DEF LinesOf
  <2>2. PICK t : t = [type |-> "terminal", status |-> IF reply.stop = "max" THEN "incomplete" ELSE "completed",
                      optional |-> FALSE]
    OBVIOUS
  <2>3. EndLines = <<t>>  BY <2>2 DEF EndLines
  <2>4. Len(<<t>>) = 1 /\ <<t>>[1] = t  OBVIOUS
  <2>5. l = t  BY <1>1, <2>1, <2>3, <2>4
  <2>6. l.type = "terminal"  BY <2>2, <2>5
  <2>7. PICK e : e = Done(StopReason(l.status, adapter.anyCall), TRUE, <<>>)  OBVIOUS
  <2> HIDE DEF l
  <2>8. r = Stops(adapter, <<e>>)  BY <1>2, <2>6, <2>7 DEF ResponsesLine
  <2>9. r.st = adapter /\ r.halt = TRUE /\ r.out = <<e>>  BY <2>8 DEF Stops
  <2>10. e.type # "tool_use"  BY <2>7, EventTypes
  <2> QED BY <2>9, <2>10, QuietOut
<1>5. CASE g \in DOMAIN reply.kinds
  <2>1. LinesOf(g) = BlockLines(g)  BY <1>5, BlockGroup
  <2>2. CASE reply.kinds[g] # "tool"
    <3>1. l.type \in {"text_delta", "reasoning_delta"}  BY <1>1, <1>5, <2>1, <2>2, ResponsesBlockLines
    <3>2. PICK e : e = IF l.type = "text_delta" THEN Content(l.frag) ELSE Thinking(l.frag)  OBVIOUS
    <3> HIDE DEF l
    <3>3. r = Goes(adapter, <<e>>)  BY <1>2, <3>1, <3>2 DEF ResponsesLine
    <3>4. r.st = adapter /\ r.out = <<e>>  BY <3>3 DEF Goes
    <3>5. e.type # "tool_use"  BY <3>2, EventTypes
    <3>6. g \notin Tools  BY <2>2 DEF Tools
    <3>7. ResponsesFit(adapter)'  BY <3>4, <3>6, ResponsesQuiet
    <3> QED BY <3>4, <3>5, <3>7, QuietOut
  <2>3. CASE reply.kinds[g] = "tool"
    <3>1. g \in Tools  BY <1>5, <2>3 DEF Tools
    <3>2. /\ Len(LinesOf(g)) = ArgsFragments + 2 /\ LinesOf(g)[1] = AddedLine(g)
          /\ \A k \in 1..ArgsFragments : LinesOf(g)[k + 1] = DeltaLine(g, k)
          /\ LinesOf(g)[ArgsFragments + 2] = DoneLine(g)
      BY <1>5, <2>1, <2>3, ResponsesBlockLines
    <3>3. ArgsFragments \in Nat  BY ArgsFragmentsAssumption
    <3>4. CASE sent[g] = 0
      <4>1. l = AddedLine(g)  BY <3>2, <3>4
      <4>2. l.type = "item_added"  BY <3>1, <4>1, LineKeys
      <4> HIDE DEF l
      <4>3. r = OnItemAdded(adapter, AddedLine(g))  BY <1>2, <4>1, <4>2 DEF ResponsesLine
      <4>4. ResponsesOK(r.st) /\ r.out = <<>> /\ ResponsesFit(adapter)'  BY <3>1, <3>4, <4>3, ResponsesAdded
      <4> QED BY <4>4, EventsNone
    <3>5. CASE sent[g] \in 1..ArgsFragments
      <4>1. l = DeltaLine(g, sent[g]) /\ sent[g] > 0  BY <3>2, <3>5
      <4>2. l.type = "args_delta"  BY <3>1, <4>1, LineKeys
      <4> HIDE DEF l
      <4>3. r = OnArgsDelta(adapter, DeltaLine(g, sent[g]))  BY <1>2, <4>1, <4>2 DEF ResponsesLine
      <4> QED BY <3>1, <4>1, <4>3, ResponsesDelta
    <3>6. CASE sent[g] = ArgsFragments + 1
      <4>1. sent[g] + 1 = ArgsFragments + 2  BY <3>3, <3>6
      <4>2. l = DoneLine(g)  BY <3>2, <4>1
      <4>3. l.type = "args_done"  BY <3>1, <4>2, LineKeys
      <4> HIDE DEF l
      <4>4. r = OnArgsDone(adapter, DoneLine(g))  BY <1>2, <4>2, <4>3 DEF ResponsesLine
      <4> QED BY <3>1, <3>6, <4>4, ResponsesDone
    <3> QED BY <1>1, <3>2, <3>3, <3>4, <3>5, <3>6
  <2> QED BY <2>2, <2>3
<1> QED BY <1>3, <1>4, <1>5, GroupCases

LEMMA ResponsesSkips ==
  ASSUME SettingOK, SentOK, OrderOK, UNCHANGED setting, provider = "responses", ResponsesFit(adapter), adapter' = adapter,
         NEW g \in Groups, Ready(g), LinesOf(g)[sent[g] + 1].optional, sent' = [sent EXCEPT ![g] = @ + 1]
  PROVE  ResponsesFit(adapter)'
<1> SUFFICES ASSUME g \in Tools PROVE sent[g] = 0 /\ quirk = "none"  BY ResponsesQuiet
<1>1. sent[g] \in Nat /\ sent[g] < Len(LinesOf(g))  BY SendFacts
<1>2. g \in DOMAIN reply.kinds /\ LinesOf(g) = BlockLines(g) /\ reply.kinds[g] = "tool"  BY BlockGroup DEF Tools
<1>3. /\ Len(LinesOf(g)) = ArgsFragments + 2 /\ LinesOf(g)[1] = AddedLine(g)
      /\ \A k \in 1..ArgsFragments : LinesOf(g)[k + 1] = DeltaLine(g, k)
      /\ LinesOf(g)[ArgsFragments + 2] = DoneLine(g)
  BY <1>2, ResponsesBlockLines
<1>4. ArgsFragments \in Nat  BY ArgsFragmentsAssumption
<1>5. (\A k : DeltaLine(g, k).optional = FALSE) /\ DoneLine(g).optional = FALSE
  BY DEF DeltaLine, DoneLine
<1>6. AddedLine(g).optional = (quirk = "none")  BY DEF AddedLine
<1>7. sent[g] \notin 1..ArgsFragments  BY <1>3, <1>5
<1>8. sent[g] # ArgsFragments + 1
  <2> SUFFICES ASSUME sent[g] = ArgsFragments + 1 PROVE FALSE  OBVIOUS
  <2>1. sent[g] + 1 = ArgsFragments + 2  BY <1>4
  <2> QED BY <1>3, <1>5, <2>1
<1>9. sent[g] = 0  BY <1>1, <1>3, <1>4, <1>7, <1>8
<1>10. sent[g] + 1 = 1  BY <1>9
<1> QED BY <1>3, <1>6, <1>9, <1>10

-----------------------------------------------------------------------------
(* Anthropic: the blocks that are assembled.                                *)
LEMMA BlocksAre ==
  ASSUME NEW bs, BlocksOK(bs)
  PROVE  IsSeq(bs) /\ Len(bs) \in Nat /\ DOMAIN bs = 1..Len(bs) /\ \A i \in 1..Len(bs) : BlockOK(bs[i])
BY OwnSeq DEF BlocksOK

LEMMA BlocksFrom ==
  ASSUME NEW n \in Nat, NEW bs, bs = [i \in 1..n |-> bs[i]], \A i \in 1..n : BlockOK(bs[i])
  PROVE  BlocksOK(bs)
<1>1. IsSeq(bs) /\ Len(bs) = n  BY FunSeq
<1>2. \A b \in Range(bs) : \E i \in 1..n : b = bs[i]  BY <1>1, OwnSeq
<1> QED BY <1>1, <1>2 DEF BlocksOK

LEMMA BlocksChanged ==
  ASSUME NEW bs, BlocksOK(bs), NEW cs, cs = [i \in DOMAIN bs |-> cs[i]],
         \A i \in DOMAIN bs : BlockOK(bs[i]) => BlockOK(cs[i])
  PROVE  BlocksOK(cs)
<1>1. PICK n \in Nat : n = Len(bs) /\ DOMAIN bs = 1..n  BY BlocksAre
<1>2. cs = [i \in 1..n |-> cs[i]]  BY <1>1
<1>3. \A i \in 1..n : BlockOK(cs[i])  BY <1>1, BlocksAre
<1> QED BY <1>1, <1>2, <1>3, BlocksFrom

LEMMA BlockAdded ==
  ASSUME NEW bs, BlocksOK(bs), NEW index, NEW kind, NEW cs, cs = WithBlock(bs, index, kind)
  PROVE  BlocksOK(cs)
<1> DEFINE b == Block(index, kind, "none")
<1>1. CASE cs = bs  BY <1>1
<1>2. CASE cs = Append(bs, b)
  <2>1. BlockOK(b)  BY DEF Block, BlockOK, BlockFields
  <2> HIDE DEF b
  <2>2. IsSeq(Append(bs, b)) /\ Range(Append(bs, b)) = Range(bs) \cup {b}  BY AppendSeq DEF BlocksOK
  <2> QED BY <1>2, <2>1, <2>2 DEF BlocksOK
<1> QED BY <1>1, <1>2 DEF WithBlock

LEMMA FragmentAdded ==
  ASSUME NEW bs, BlocksOK(bs), NEW index, NEW kind, NEW f
  PROVE  BlocksOK(AppendTo(bs, index, kind, f))
<1>1. PICK ws : ws = WithBlock(bs, index, kind)  OBVIOUS
<1> DEFINE more(b) == [b EXCEPT !.frags = Append(@, f)]
           cs == [i \in DOMAIN ws |-> IF ws[i].index = index THEN more(ws[i]) ELSE ws[i]]
<1>2. AppendTo(bs, index, kind, f) = cs  BY <1>1 DEF AppendTo, Updated
<1>3. BlocksOK(ws)  BY <1>1, BlockAdded
<1>4. \A b : BlockOK(b) => BlockOK(more(b))
  <2> SUFFICES ASSUME NEW b, BlockOK(b) PROVE BlockOK(more(b))  OBVIOUS
  <2>1. DOMAIN b = BlockFields  BY DEF BlockOK
  <2>2. DOMAIN more(b) = BlockFields /\ more(b).open = b.open /\ more(b).index = b.index
    BY <2>1 DEF BlockFields
  <2> HIDE DEF more
  <2> QED BY <2>2 DEF BlockOK
<1> HIDE DEF more
<1>5. cs = [i \in DOMAIN ws |-> cs[i]] /\ \A i \in DOMAIN ws : BlockOK(ws[i]) => BlockOK(cs[i])  BY <1>4
<1> HIDE DEF cs
<1> QED BY <1>2, <1>3, <1>5, BlocksChanged

(* A client call is emitted as it was read, and then none is being read.    *)
LEMMA FlushToolIs ==
  ASSUME NEW s, AnthropicOK(s), BlocksOK(s.blocks), NEW r, r = FlushToolCall(s)
  PROVE  /\ AnthropicOK(r.st) /\ BlocksOK(r.st.blocks) /\ r.st.call = "none"
         /\ s.call = "none" => r.out = <<>>
         /\ s.call # "none" => r.out = <<ToolUse(ToolCall(s.call, s.buf))>>
<1>1. DOMAIN s = AnthropicFields /\ s.limit \in Nat  BY DEF AnthropicOK
<1>2. CASE s.call = "none"
  <2>1. r = Goes(s, <<>>)  BY <1>2 DEF FlushToolCall
  <2> QED BY <1>2, <2>1 DEF Goes
<1>3. CASE s.call # "none"
  <2> DEFINE call == ToolCall(s.call, s.buf)
             ws == WithBlock(s.blocks, s.callIndex, "tool")
             done(b) == [b EXCEPT !.kind = "tool", !.id = s.call, !.complete = TRUE, !.input = call.input]
             cs == [i \in DOMAIN ws |-> IF ws[i].index = s.callIndex THEN done(ws[i]) ELSE ws[i]]
             none == <<>>
             t == [s EXCEPT !.call = "none", !.callIndex = NoIndex, !.buf = none, !.blocks = cs]
  <2>1. r = Goes(t, <<ToolUse(call)>>)  BY <1>3 DEF FlushToolCall, Updated
  <2>2. BlocksOK(ws)  BY BlockAdded
  <2>3. \A b : BlockOK(b) => BlockOK(done(b))
    <3> SUFFICES ASSUME NEW b, BlockOK(b) PROVE BlockOK(done(b))  OBVIOUS
    <3>1. DOMAIN b = BlockFields  BY DEF BlockOK
    <3> HIDE DEF call
    <3>2. DOMAIN done(b) = BlockFields /\ done(b).open = b.open /\ done(b).index = b.index
      BY <3>1 DEF BlockFields
    <3> HIDE DEF done
    <3> QED BY <3>2 DEF BlockOK
  <2> HIDE DEF done, ws, call
  <2>4. cs = [i \in DOMAIN ws |-> cs[i]] /\ \A i \in DOMAIN ws : BlockOK(ws[i]) => BlockOK(cs[i])  BY <2>3
  <2> HIDE DEF cs
  <2>5. BlocksOK(cs)  BY <2>2, <2>4, BlocksChanged
  <2>6. IsSeq(none) /\ Len(none) = 0  BY NoneSeq
  <2> HIDE DEF none
  <2>7. DOMAIN t = AnthropicFields /\ t.limit = s.limit /\ t.buf = none /\ t.blocks = cs /\ t.call = "none"
    BY <1>1 DEF AnthropicFields
  <2>8. Len(t.buf) <= t.limit  BY <1>1, <2>6, <2>7
  <2> HIDE DEF t
  <2>9. AnthropicOK(t)  BY <1>1, <2>6, <2>7, <2>8 DEF AnthropicOK
  <2>10. r.st = t /\ r.out = <<ToolUse(call)>>  BY <2>1 DEF Goes
  <2> QED BY <1>3, <2>5, <2>7, <2>9, <2>10 DEF call
<1> QED BY <1>2, <1>3

LEMMA FlushServerIs ==
  ASSUME NEW s, AnthropicOK(s), BlocksOK(s.blocks), NEW at, NEW r, r = FlushServerToolUse(s, at)
  PROVE  /\ AnthropicOK(r.st) /\ BlocksOK(r.st.blocks) /\ r.st.call = s.call
         /\ IsSeq(r.out) /\ EventsOK(r.out)
<1> DEFINE o == {i \in at : s.blocks[i].open}
<1>1. DOMAIN s = AnthropicFields /\ s.limit \in Nat /\ IsSeq(s.buf) /\ Len(s.buf) <= s.limit  BY DEF AnthropicOK
<1>2. CASE o = {}
  <2>1. r = Goes(s, <<>>)  BY <1>2 DEF FlushServerToolUse
  <2>2. r.st = s /\ r.out = <<>>  BY <2>1 DEF Goes
  <2> QED BY <2>2, EventsNone, NoneSeq
<1>3. CASE o # {}
  <2>1. PICK i : i = CHOOSE k \in o : \A j \in o : k <= j  OBVIOUS
  <2> DEFINE b == FinishedServerCall(s.blocks[i])
             bs == s.blocks
             cs == [bs EXCEPT ![i] = b]
             t == [s EXCEPT !.blocks = cs]
             e == ServerTool(PartOf(b))
  <2>2. r = Goes(t, <<e>>)  BY <1>3, <2>1 DEF FlushServerToolUse
  <2>3. BlockOK(bs[i]) => BlockOK(b)
    <3> SUFFICES ASSUME BlockOK(bs[i]) PROVE BlockOK(b)  OBVIOUS
    <3>1. DOMAIN bs[i] = BlockFields  BY DEF BlockOK
    <3>2. PICK x : x = IF ParsesAsJSON(bs[i].frags) THEN ToolInput(bs[i].frags) ELSE NoInput  OBVIOUS
    <3>3. b = [bs[i] EXCEPT !.open = FALSE, !.complete = TRUE, !.input = x]  BY <3>2 DEF FinishedServerCall
    <3>4. DOMAIN b = BlockFields /\ b.open = FALSE
      <4> HIDE DEF b
      <4> QED BY <3>1, <3>3 DEF BlockFields
    <3> QED BY <3>4 DEF BlockOK
  <2>4. e.type # "tool_use"  BY EventTypes
  <2> HIDE DEF b, e
  <2>5. cs = [k \in DOMAIN bs |-> cs[k]] /\ \A k \in DOMAIN bs : BlockOK(bs[k]) => BlockOK(cs[k])  BY <2>3
  <2> HIDE DEF cs
  <2>6. BlocksOK(cs)  BY <2>5, BlocksChanged
  <2>7. DOMAIN t = AnthropicFields /\ t.limit = s.limit /\ t.buf = s.buf /\ t.blocks = cs /\ t.call = s.call
    BY <1>1 DEF AnthropicFields
  <2> HIDE DEF t
  <2>8. AnthropicOK(t)  BY <1>1, <2>7 DEF AnthropicOK
  <2>9. r.st = t /\ r.out = <<e>>  BY <2>2 DEF Goes
  <2>10. IsSeq(<<e>>) /\ EventsOK(<<e>>)  BY <2>4, OneSeq, EventsOne
  <2> QED BY <2>6, <2>7, <2>8, <2>9, <2>10
<1> QED BY <1>2, <1>3

(* The lines of a block Anthropic streams.                                  *)
BlockShape(q, g, n) ==
    /\ Len(q) = n + 2
    /\ reply.kinds[g] \in {"tool", "server"} => n = ArgsFragments
    /\ q[1].type = "block_start" /\ q[1].index = g /\ q[1].kind = reply.kinds[g] /\ q[1].id = BlockIDs[g] /\ ~ q[1].optional
    /\ \A k \in 1..n :
         /\ q[k + 1].index = g /\ ~ q[k + 1].optional
         /\ q[k + 1].type = "input_delta" => reply.kinds[g] \notin {"text", "thinking"} /\ q[k + 1].frag = <<BlockIDs[g], k>>
         /\ q[k + 1].type = "text_delta" => reply.kinds[g] = "text"
         /\ q[k + 1].type = "thinking_delta" => reply.kinds[g] = "thinking"
         /\ q[k + 1].type \in {"text_delta", "thinking_delta", "input_delta"}
    /\ q[n + 2].type = "block_stop" /\ q[n + 2].index = g

LEMMA AnthropicBlock ==
  ASSUME SettingOK, provider = "anthropic", NEW g \in DOMAIN reply.kinds
  PROVE  \E n \in Nat : BlockShape(BlockLines(g), g, n)
<1> DEFINE b == Blocks[g]
           n == CASE b.kind \in {"text", "thinking"} -> TextFragments
                  [] b.kind \in {"tool", "server"}   -> ArgsFragments
                  [] OTHER                           -> 0
           delta(k) == CASE b.kind = "text"     -> [index |-> g, type |-> "text_delta", frag |-> b.frags[k], optional |-> FALSE]
                         [] b.kind = "thinking" -> [index |-> g, type |-> "thinking_delta", frag |-> b.frags[k], optional |-> FALSE]
                         [] OTHER               -> [index |-> g, type |-> "input_delta", frag |-> <<b.id, k>>, optional |-> FALSE]
           line(k) == CASE k = 1     -> [index |-> g, type |-> "block_start", kind |-> b.kind, id |-> b.id, optional |-> FALSE]
                        [] k = n + 2 -> [index |-> g, type |-> "block_stop", optional |-> TRUE]
                        [] OTHER     -> delta(k - 1)
           q == [k \in 1..(n + 2) |-> line(k)]
<1>1. BlockLines(g) = q  BY DEF BlockLines, AnthropicLines
<1>2. b.kind \in Kinds /\ b.kind = reply.kinds[g] /\ b.id = BlockIDs[g]  BY SettingIs, BlockIs
<1>3. n \in Nat /\ (b.kind \in {"tool", "server"} => n = ArgsFragments)
  <2> HIDE DEF b
  <2> QED BY <1>2, StreamAssumption, ArgsFragmentsAssumption DEF Kinds
<1>4. \A k : /\ delta(k).index = g /\ ~ delta(k).optional
             /\ delta(k).type = "input_delta" => b.kind \notin {"text", "thinking"} /\ delta(k).frag = <<b.id, k>>
             /\ delta(k).type = "text_delta" => b.kind = "text"
             /\ delta(k).type = "thinking_delta" => b.kind = "thinking"
             /\ delta(k).type \in {"text_delta", "thinking_delta", "input_delta"}
  <2> SUFFICES ASSUME NEW k
               PROVE  /\ delta(k).index = g /\ ~ delta(k).optional
                      /\ delta(k).type = "input_delta" => b.kind \notin {"text", "thinking"} /\ delta(k).frag = <<b.id, k>>
                      /\ delta(k).type = "text_delta" => b.kind = "text"
                      /\ delta(k).type = "thinking_delta" => b.kind = "thinking"
                      /\ delta(k).type \in {"text_delta", "thinking_delta", "input_delta"}
    OBVIOUS
  <2> HIDE DEF b
  <2>1. CASE b.kind = "text"  BY <2>1
  <2>2. CASE b.kind = "thinking"  BY <2>2
  <2>3. CASE b.kind \notin {"text", "thinking"}  BY <2>3
  <2> QED BY <2>1, <2>2, <2>3
<1> HIDE DEF delta, n, b
<1>5. line(1).type = "block_start" /\ line(1).index = g /\ line(1).kind = b.kind /\ line(1).id = b.id /\ ~ line(1).optional
  <2>1. n + 2 # 1  BY <1>3
  <2>2. line(1) = [index |-> g, type |-> "block_start", kind |-> b.kind, id |-> b.id, optional |-> FALSE]  BY <2>1
  <2> HIDE DEF line
  <2> QED BY <2>2
<1>6. line(n + 2).type = "block_stop" /\ line(n + 2).index = g
  <2>1. n + 2 # 1  BY <1>3
  <2> QED BY <2>1
<1>7. \A k \in 1..n : line(k + 1) = delta(k)
  <2> SUFFICES ASSUME NEW k \in 1..n PROVE line(k + 1) = delta(k)  OBVIOUS
  <2>1. k + 1 # 1 /\ k + 1 # n + 2 /\ (k + 1) - 1 = k  BY <1>3
  <2>2. line(k + 1) = delta((k + 1) - 1)  BY <2>1
  <2> QED BY <2>1, <2>2
<1>8. \A k \in 1..(n + 2) : q[k] = line(k)  OBVIOUS
<1>9. q = [k \in 1..(n + 2) |-> q[k]]  OBVIOUS
<1> HIDE DEF q, line
<1>10. Len(q) = n + 2
  <2>1. n + 2 \in Nat  BY <1>3
  <2>2. PICK m \in Nat : m = n + 2  BY <2>1
  <2> QED BY <1>9, <2>2, FunSeq
<1>11. q[1] = line(1) /\ q[n + 2] = line(n + 2) /\ \A k \in 1..n : q[k + 1] = delta(k)
  <2>1. 1 \in 1..(n + 2) /\ n + 2 \in 1..(n + 2) /\ \A k \in 1..n : k + 1 \in 1..(n + 2)  BY <1>3
  <2> QED BY <1>7, <1>8, <2>1
<1>12. PICK m \in Nat : m = n  BY <1>3
<1>13. BlockShape(q, g, m)
  BY <1>2, <1>3, <1>4, <1>5, <1>6, <1>10, <1>11, <1>12 DEF BlockShape
<1> QED BY <1>1, <1>13

LEMMA FlushBothIs ==
  ASSUME SettingOK, SentOK, provider = "anthropic", NEW s, AnthropicOK(s), AnthropicFit(s), NEW at,
         NEW r, r = FlushBoth(s, at)
  PROVE  /\ AnthropicOK(r.st) /\ BlocksOK(r.st.blocks) /\ r.st.call = "none"
         /\ IsSeq(r.out) /\ EventsOK(r.out)
<1>1. PICK tool : tool = FlushToolCall(s)  OBVIOUS
<1>2. PICK server : server = FlushServerToolUse(tool.st, at)  OBVIOUS
<1>3. r.st = server.st  BY <1>1, <1>2 DEF FlushBoth, Goes
<1>4. r.st = server.st /\ r.out = tool.out \o server.out  BY <1>1, <1>2, <1>3, FlushedBoth
<1>5. BlocksOK(s.blocks)  BY DEF AnthropicFit
<1>6. /\ AnthropicOK(tool.st) /\ BlocksOK(tool.st.blocks) /\ tool.st.call = "none"
      /\ s.call = "none" => tool.out = <<>>
      /\ s.call # "none" => tool.out = <<ToolUse(ToolCall(s.call, s.buf))>>
  BY <1>1, <1>5, FlushToolIs
<1>7. /\ AnthropicOK(server.st) /\ BlocksOK(server.st.blocks) /\ server.st.call = "none"
      /\ IsSeq(server.out) /\ EventsOK(server.out)
  BY <1>2, <1>6, FlushServerIs
<1>8. IsSeq(tool.out) /\ EventsOK(tool.out)
  <2>1. CASE s.call = "none"  BY <1>6, <2>1, NoneSeq, EventsNone
  <2>2. CASE s.call # "none"
    <3>1. PICK j \in Tools : ReadsCall(s, j)  BY <2>2 DEF AnthropicFit
    <3>2. sent[j] \in Nat  BY BlockGroup DEF SentOK, Tools
    <3>3. PICK n : n = Got(j)  OBVIOUS
    <3>4. n \in Nat /\ n <= ArgsFragments  BY <3>1, <3>2, <3>3, ArgsFragmentsAssumption DEF Got, ReadsCall
    <3>5. PICK c : c = ToolCall(BlockIDs[j], First(BlockIDs[j], n))  OBVIOUS
    <3>6. tool.out = <<ToolUse(c)>>  BY <1>6, <2>2, <3>1, <3>3, <3>5 DEF ReadsCall
    <3>7. Unspliced(c)
      <4>1. provider # "gemini"  OBVIOUS
      <4> QED BY <3>4, <3>5, <4>1, CallUnspliced
    <3>8. ToolUse(c).call = c  BY DEF ToolUse
    <3> QED BY <3>6, <3>7, <3>8, OneSeq, EventsOne
  <2> QED BY <2>1, <2>2
<1> QED BY <1>4, <1>7, <1>8, ConcatSeq, EventsConcat

LEMMA BlockStartIs ==
  ASSUME SettingOK, SentOK, provider = "anthropic", NEW s, AnthropicOK(s), AnthropicFit(s),
         NEW index, NEW kind, NEW id, kind = "server" => index \in Servers,
         NEW r, r = OnBlockStart(s, index, kind, id)
  PROVE  /\ AnthropicOK(r.st) /\ BlocksOK(r.st.blocks) /\ EventsOK(r.out)
         /\ kind = "tool" => r.st.call = id /\ r.st.buf = <<>>
         /\ kind # "tool" => r.st.call = "none"
<1>1. PICK f : f = FlushBoth(s, OpenServerCall(s.blocks))  OBVIOUS
<1>2. AnthropicOK(f.st) /\ BlocksOK(f.st.blocks) /\ f.st.call = "none" /\ IsSeq(f.out) /\ EventsOK(f.out)
  BY <1>1, FlushBothIs
<1>3. PICK ws : ws = WithBlock(f.st.blocks, index, kind)  OBVIOUS
<1>4. PICK none : none = <<>>  OBVIOUS
<1> DEFINE b == [Block(index, kind, id) EXCEPT !.open = (kind = "server"), !.complete = (kind = "result")]
           cs == [i \in DOMAIN ws |-> IF ws[i].index = index THEN b ELSE ws[i]]
           st == [f.st EXCEPT !.blocks = cs]
           t == IF kind = "tool" THEN [st EXCEPT !.call = id, !.callIndex = index, !.buf = none] ELSE st
           e == ServerTool([kind |-> "result", id |-> id])
           q == IF kind = "result" THEN Append(f.out, e) ELSE f.out
<1>5. r = Goes(t, q)  BY <1>1, <1>3, <1>4 DEF OnBlockStart, Updated
<1>6. BlocksOK(ws)  BY <1>2, <1>3, BlockAdded
<1>7. BlockOK(b)
  <2>1. DOMAIN Block(index, kind, id) = BlockFields /\ Block(index, kind, id).index = index  BY DEF Block, BlockFields
  <2>2. DOMAIN b = BlockFields /\ b.index = index /\ b.open = (kind = "server")
    <3>1. PICK z : z = Block(index, kind, id)  OBVIOUS
    <3>2. b = [z EXCEPT !.open = (kind = "server"), !.complete = (kind = "result")]  BY <3>1
    <3> HIDE DEF b
    <3> QED BY <2>1, <3>1, <3>2 DEF BlockFields
  <2> HIDE DEF b
  <2> QED BY <2>2 DEF BlockOK
<1>8. e.type # "tool_use"  BY EventTypes
<1> HIDE DEF b, e
<1>9. cs = [i \in DOMAIN ws |-> cs[i]] /\ \A i \in DOMAIN ws : BlockOK(ws[i]) => BlockOK(cs[i])  BY <1>7
<1> HIDE DEF cs
<1>10. BlocksOK(cs)  BY <1>6, <1>9, BlocksChanged
<1>11. EventsOK(q)  BY <1>2, <1>8, EventsAppend
<1>12. DOMAIN f.st = AnthropicFields /\ f.st.limit \in Nat /\ IsSeq(f.st.buf) /\ Len(f.st.buf) <= f.st.limit
  BY <1>2 DEF AnthropicOK
<1>13. DOMAIN st = AnthropicFields /\ st.limit = f.st.limit /\ st.buf = f.st.buf /\ st.blocks = cs /\ st.call = f.st.call
  BY <1>12 DEF AnthropicFields
<1> HIDE DEF st
<1>14. /\ DOMAIN t = AnthropicFields /\ t.limit = f.st.limit /\ t.blocks = cs
       /\ kind = "tool" => t.call = id /\ t.buf = none
       /\ kind # "tool" => t.call = "none" /\ t.buf = f.st.buf
  BY <1>2, <1>13 DEF AnthropicFields
<1> HIDE DEF t, q
<1>15. IsSeq(none) /\ Len(none) = 0  BY <1>4, NoneSeq
<1>16. AnthropicOK(t)
  <2>1. IsSeq(t.buf) /\ Len(t.buf) <= t.limit
    <3>1. CASE kind = "tool"  BY <1>12, <1>14, <1>15, <3>1
    <3>2. CASE kind # "tool"  BY <1>12, <1>14, <3>2
    <3> QED BY <3>1, <3>2
  <2> QED BY <1>12, <1>14, <2>1 DEF AnthropicOK
<1>17. r.st = t /\ r.out = q  BY <1>5 DEF Goes
<1> QED BY <1>4, <1>10, <1>11, <1>14, <1>16, <1>17

(* The bound on the arguments is checked before each fragment.              *)
LEMMA InputDeltaIs ==
  ASSUME NEW s, AnthropicOK(s), BlocksOK(s.blocks), NEW index, NEW f, NEW r, r = OnInputDelta(s, index, f)
  PROVE  /\ AnthropicOK(r.st) /\ EventsOK(r.out)
         /\ ~ r.halt => /\ BlocksOK(r.st.blocks) /\ r.st.call = s.call
                        /\ index \notin Servers => r.st.buf = Append(s.buf, f)
<1> DEFINE at == {i \in Position(s.blocks, index) : s.blocks[i].open}
<1>1. DOMAIN s = AnthropicFields /\ s.limit \in Nat /\ IsSeq(s.buf) /\ Len(s.buf) <= s.limit  BY DEF AnthropicOK
<1>2. CASE r = Fail(s)
  <2>1. PICK e : e = IF s.started THEN ErrorWith(s.usage, Parts(s.blocks)) ELSE BareError  OBVIOUS
  <2>2. r = Stops(s, <<e>>)  BY <1>2, <2>1 DEF Fail
  <2>3. e.type # "tool_use"  BY <2>1, EventTypes
  <2>4. r.st = s /\ r.out = <<e>> /\ r.halt = TRUE  BY <2>2 DEF Stops
  <2> QED BY <2>3, <2>4, QuietOut
<1>3. CASE at # {} /\ r = Goes([s EXCEPT !.blocks = AppendTo(@, index, "server", f)], <<>>)
  <2>1. PICK cs : cs = AppendTo(s.blocks, index, "server", f)  OBVIOUS
  <2>2. r = Goes([s EXCEPT !.blocks = cs], <<>>)  BY <1>3, <2>1
  <2>3. r.st = [s EXCEPT !.blocks = cs] /\ r.out = <<>>  BY <2>2 DEF Goes
  <2>4. DOMAIN r.st = AnthropicFields /\ r.st.limit = s.limit /\ r.st.buf = s.buf /\ r.st.blocks = cs /\ r.st.call = s.call
    BY <1>1, <2>3 DEF AnthropicFields
  <2>5. BlocksOK(cs)  BY <2>1, FragmentAdded
  <2>6. index \in Servers
    <3>1. PICK i \in DOMAIN s.blocks : s.blocks[i].index = index /\ s.blocks[i].open  BY <1>3 DEF Position
    <3>2. BlockOK(s.blocks[i])  BY <3>1, BlocksAre
    <3> QED BY <3>1, <3>2 DEF BlockOK
  <2>7. AnthropicOK(r.st)  BY <1>1, <2>4 DEF AnthropicOK
  <2> QED BY <2>3, <2>4, <2>5, <2>6, <2>7, EventsNone
<1>4. CASE ~ (Len(s.buf) + 1 > s.limit) /\ r = Goes([s EXCEPT !.buf = Append(@, f)], <<>>)
  <2>1. PICK a : a = Append(s.buf, f)  OBVIOUS
  <2>2. r = Goes([s EXCEPT !.buf = a], <<>>)  BY <1>4, <2>1
  <2>3. r.st = [s EXCEPT !.buf = a] /\ r.out = <<>>  BY <2>2 DEF Goes
  <2>4. DOMAIN r.st = AnthropicFields /\ r.st.limit = s.limit /\ r.st.buf = a /\ r.st.blocks = s.blocks /\ r.st.call = s.call
    BY <1>1, <2>3 DEF AnthropicFields
  <2>5. IsSeq(a) /\ Len(a) = Len(s.buf) + 1 /\ Len(s.buf) \in Nat  BY <1>1, <2>1, AppendSeq, OwnSeq
  <2>6. Len(a) <= s.limit  BY <1>1, <1>4, <2>5
  <2>7. AnthropicOK(r.st)  BY <1>1, <2>4, <2>5, <2>6 DEF AnthropicOK
  <2> QED BY <2>1, <2>3, <2>4, <2>7, EventsNone
<1> HIDE DEF at
<1>5. \/ r = Fail(s)
      \/ at # {} /\ r = Goes([s EXCEPT !.blocks = AppendTo(@, index, "server", f)], <<>>)
      \/ ~ (Len(s.buf) + 1 > s.limit) /\ r = Goes([s EXCEPT !.buf = Append(@, f)], <<>>)
  BY DEF OnInputDelta, at
<1> QED BY <1>2, <1>3, <1>4, <1>5

LEMMA AnthropicFitAfter ==
  ASSUME UNCHANGED setting, NEW t, adapter' = t, BlocksOK(t.blocks),
         t.call = "none" \/ \E j \in Tools : ReadsCall(t, j)'
  PROVE  AnthropicFit(adapter)'
<1>1. reply' = reply  BY SettingStays
<1>2. Tools' = Tools /\ Servers' = Servers  BY <1>1 DEF Tools, Servers
<1>3. BlocksOK(t.blocks)'
  <2>1. \A b : BlockOK(b) => BlockOK(b)'  BY <1>2 DEF BlockOK
  <2> QED BY <2>1 DEF BlocksOK
<1>4. \A j : ReadsCall(t, j)' => ReadsCall(adapter, j)'  BY DEF ReadsCall
<1> QED BY <1>2, <1>3, <1>4 DEF AnthropicFit, BlocksOK, BlockOK

(* While a call is read, its own lines come or the next block begins.       *)
LEMMA CallIsLast ==
  ASSUME SettingOK, SentOK, OrderOK, provider = "anthropic", NEW s, NEW g \in Groups, Ready(g), NEW j \in Tools, ReadsCall(s, j)
  PROVE  j \in Groups /\ (g = j \/ (g > j /\ sent[g] = 0))
<1>1. j \in Groups /\ j \in Nat  BY BlockGroup DEF Tools
<1>2. g \in Nat  BY SettingIs
<1>3. ~ (g < j)
  <2> SUFFICES ASSUME g < j PROVE FALSE  OBVIOUS
  <2>1. sent[j] > 0  BY DEF ReadsCall
  <2>2. Sent(g) \/ Interleaves(g, j)  BY <1>1, <2>1 DEF OrderOK
  <2> QED BY <2>2 DEF Ready, Interleaves
<1>4. g > j => sent[g] = 0  BY DEF ReadsCall
<1> QED BY <1>1, <1>2, <1>3, <1>4

(* A call goes on being read when the line that ends its block is left out. *)
LEMMA CallStillRead ==
  ASSUME SettingOK, SentOK, OrderOK, UNCHANGED setting, provider = "anthropic", NEW g \in Groups, Ready(g),
         sent' = [sent EXCEPT ![g] = @ + 1], NEW s, NEW t, t.call = s.call, t.buf = s.buf, NEW j \in Tools, ReadsCall(s, j),
         g = j /\ sent[j] > ArgsFragments
  PROVE  ReadsCall(t, j)'
<1>1. /\ sent[g] \in Nat /\ sent'[g] = sent[g] + 1
      /\ \A h \in Groups : h # g => sent'[h] = sent[h]
  BY SendFacts
<1>2. Groups' = Groups  BY SettingStays
<1>3. Got(j) = ArgsFragments /\ Got(j)' = ArgsFragments  BY <1>1, ArgsFragmentsAssumption DEF Got
<1>4. \A h \in Groups : h > j => h # g  BY SettingIs
<1>5. \A h \in Groups' : h > j => sent'[h] = 0  BY <1>1, <1>2, <1>4 DEF ReadsCall
<1> QED BY <1>1, <1>3, <1>5 DEF ReadsCall

(* A line of the reply read by the Anthropic adapter.                       *)
LEMMA AnthropicReads ==
  ASSUME SettingOK, SentOK, OrderOK, UNCHANGED setting, provider = "anthropic", AnthropicOK(adapter), AnthropicFit(adapter),
         NEW g \in DOMAIN reply.kinds, Ready(g), sent' = [sent EXCEPT ![g] = @ + 1],
         NEW r, r = AnthropicLine(adapter, LinesOf(g)[sent[g] + 1]), adapter' = r.st
  PROVE  AnthropicOK(r.st) /\ EventsOK(r.out) /\ (~ r.halt => AnthropicFit(adapter)')
<1> DEFINE l == LinesOf(g)[sent[g] + 1]
           s == adapter
<1>1. g \in Groups /\ LinesOf(g) = BlockLines(g)  BY BlockGroup
<1>2. /\ sent[g] \in Nat /\ sent[g] + 1 \in 1..Len(LinesOf(g)) /\ sent[g] < Len(LinesOf(g))
      /\ sent'[g] = sent[g] + 1
      /\ \A h \in Groups : h # g => sent'[h] = sent[h]
      /\ \A h \in Groups : h > g => sent[h] = 0 \/ Interleaves(g, h)
  BY <1>1, SendFacts
<1>3. \A h \in Groups : h > g => sent'[h] = 0
  <2>1. \A h \in Groups : h > g => h # g /\ ~ Interleaves(g, h)  BY <1>1, SettingIs DEF Interleaves
  <2> QED BY <1>2, <2>1
<1>4. r = AnthropicLine(s, l) /\ DOMAIN s = AnthropicFields /\ s.limit \in Nat /\ IsSeq(s.buf) /\ Len(s.buf) <= s.limit
  BY DEF AnthropicOK
<1>5. BlocksOK(s.blocks) /\ (s.call = "none" \/ \E j \in Tools : ReadsCall(s, j))  BY DEF AnthropicFit
<1>6. ASSUME sent[g] > 0, s.call # "none" PROVE g \in Tools /\ ReadsCall(s, g)
  <2>1. PICK j \in Tools : ReadsCall(s, j)  BY <1>5, <1>6
  <2>2. g = j  BY <1>1, <1>6, <2>1, CallIsLast
  <2> QED BY <2>1, <2>2
<1>7. Groups' = Groups /\ g \in Nat  BY <1>1, SettingStays, SettingIs
<1>8. PICK t : t = r.st  OBVIOUS
<1>9. PICK n \in Nat : BlockShape(LinesOf(g), g, n)  BY <1>1, AnthropicBlock
<1>10. CASE sent[g] = 0
  <2>1. l.type = "block_start" /\ l.index = g /\ l.kind = reply.kinds[g] /\ l.id = BlockIDs[g]  BY <1>9, <1>10 DEF BlockShape
  <2> HIDE DEF l
  <2>2. r = OnBlockStart(s, g, l.kind, l.id)  BY <1>4, <2>1 DEF AnthropicLine
  <2>3. l.kind = "server" => g \in Servers  BY <2>1 DEF Servers
  <2>4. /\ AnthropicOK(r.st) /\ BlocksOK(r.st.blocks) /\ EventsOK(r.out)
        /\ l.kind = "tool" => r.st.call = l.id /\ r.st.buf = <<>>
        /\ l.kind # "tool" => r.st.call = "none"
    BY <2>2, <2>3, BlockStartIs
  <2>5. t.call = "none" \/ \E j \in Tools : ReadsCall(t, j)'
    <3>1. CASE reply.kinds[g] = "tool"
      <4>1. g \in Tools  BY <3>1 DEF Tools
      <4>2. Got(g)' = 0  BY <1>2, <1>10, ArgsFragmentsAssumption DEF Got
      <4>3. First(BlockIDs[g], 0) = <<>>  BY FirstIs
      <4>4. t.call = BlockIDs[g] /\ t.buf = First(BlockIDs[g], 0)  BY <1>8, <2>1, <2>4, <3>1, <4>3
      <4>5. sent'[g] > 0  BY <1>2
      <4>6. ReadsCall(t, g)'  BY <1>3, <1>7, <4>2, <4>4, <4>5 DEF ReadsCall
      <4> QED BY <4>1, <4>6
    <3>2. CASE reply.kinds[g] # "tool"  BY <1>8, <2>1, <2>4, <3>2
    <3> QED BY <3>1, <3>2
  <2> QED BY <1>8, <2>4, <2>5, AnthropicFitAfter
<1>11. CASE sent[g] \in 1..n
  <2>1. /\ l.index = g
        /\ l.type = "input_delta" => reply.kinds[g] \notin {"text", "thinking"} /\ l.frag = <<BlockIDs[g], sent[g]>>
        /\ l.type = "text_delta" => reply.kinds[g] = "text"
        /\ l.type = "thinking_delta" => reply.kinds[g] = "thinking"
        /\ l.type \in {"text_delta", "thinking_delta", "input_delta"}
        /\ sent[g] > 0
    BY <1>9, <1>11 DEF BlockShape
  <2> HIDE DEF l
  <2>2. CASE l.type # "input_delta"
    <3>1. g \notin Tools  BY <2>1, <2>2 DEF Tools
    <3>2. s.call = "none"  BY <1>6, <2>1, <3>1
    <3>3. PICK cs : cs = AppendTo(s.blocks, g, reply.kinds[g], l.frag)  OBVIOUS
    <3>4. PICK e : e = IF l.type = "text_delta" THEN Content(l.frag) ELSE Thinking(l.frag)  OBVIOUS
    <3>5. r = Goes([s EXCEPT !.blocks = cs], <<e>>)
      <4>1. CASE l.type = "text_delta"
        <5>1. r = OnTextDelta(s, g, l.frag)  BY <1>4, <2>1, <4>1 DEF AnthropicLine
        <5> QED BY <2>1, <3>3, <3>4, <4>1, <5>1 DEF OnTextDelta
      <4>2. CASE l.type = "thinking_delta"
        <5>1. r = OnThinkingDelta(s, g, l.frag)  BY <1>4, <2>1, <4>2 DEF AnthropicLine
        <5> QED BY <2>1, <3>3, <3>4, <4>2, <5>1 DEF OnThinkingDelta
      <4> QED BY <2>1, <2>2, <4>1, <4>2
    <3>6. t = [s EXCEPT !.blocks = cs] /\ r.out = <<e>>  BY <1>8, <3>5 DEF Goes
    <3>7. DOMAIN t = AnthropicFields /\ t.limit = s.limit /\ t.buf = s.buf /\ t.blocks = cs /\ t.call = s.call
      BY <1>4, <3>6 DEF AnthropicFields
    <3>8. BlocksOK(cs)  BY <1>5, <3>3, FragmentAdded
    <3>9. AnthropicOK(t)  BY <1>4, <3>7 DEF AnthropicOK
    <3>10. e.type # "tool_use"  BY <3>4, EventTypes
    <3>11. AnthropicFit(adapter)'  BY <1>8, <3>2, <3>7, <3>8, AnthropicFitAfter
    <3> QED BY <1>8, <3>6, <3>9, <3>10, <3>11, QuietOut
  <2>3. CASE l.type = "input_delta"
    <3>1. r = OnInputDelta(s, g, l.frag)  BY <1>4, <2>1, <2>3 DEF AnthropicLine
    <3>2. /\ AnthropicOK(r.st) /\ EventsOK(r.out)
          /\ ~ r.halt => /\ BlocksOK(r.st.blocks) /\ r.st.call = s.call
                         /\ g \notin Servers => r.st.buf = Append(s.buf, l.frag)
      BY <1>5, <3>1, InputDeltaIs
    <3>3. ASSUME ~ r.halt PROVE t.call = "none" \/ \E j \in Tools : ReadsCall(t, j)'
      <4>1. CASE s.call = "none"  BY <1>8, <3>2, <3>3, <4>1
      <4>2. CASE s.call # "none"
        <5>1. g \in Tools /\ ReadsCall(s, g)  BY <1>6, <2>1, <4>2
        <5>2. reply.kinds[g] = "tool" /\ g \notin Servers  BY <5>1 DEF Tools, Servers
        <5>3. n = ArgsFragments  BY <1>9, <5>2 DEF BlockShape
        <5>4. PICK m \in Nat : m = sent[g] - 1  BY <1>2, <2>1
        <5>5. m + 1 = sent[g] /\ Got(g) = m /\ Got(g)' = m + 1
          <6>1. m + 1 = sent[g] /\ m < ArgsFragments /\ sent'[g] - 1 = m + 1  BY <1>2, <1>11, <5>3, <5>4
          <6> QED BY <5>4, <6>1, ArgsFragmentsAssumption DEF Got
        <5>6. s.buf = First(BlockIDs[g], m) /\ s.call = BlockIDs[g]  BY <5>1, <5>5 DEF ReadsCall
        <5>7. l.frag = <<BlockIDs[g], m + 1>>  BY <2>1, <2>3, <5>5
        <5>8. t.buf = Append(First(BlockIDs[g], m), <<BlockIDs[g], m + 1>>)  BY <1>8, <3>2, <3>3, <5>2, <5>6, <5>7
        <5>9. t.buf = First(BlockIDs[g], m + 1)  BY <5>8, FirstIs
        <5>10. t.call = BlockIDs[g] /\ sent'[g] > 0  BY <1>2, <1>8, <3>2, <3>3, <5>6
        <5>11. ReadsCall(t, g)'  BY <1>3, <1>7, <5>5, <5>9, <5>10 DEF ReadsCall
        <5> QED BY <5>1, <5>11
      <4> QED BY <4>1, <4>2
    <3>4. ~ r.halt => AnthropicFit(adapter)'  BY <1>8, <3>2, <3>3, AnthropicFitAfter
    <3> QED BY <3>2, <3>4
  <2> QED BY <2>2, <2>3
<1>12. CASE sent[g] = n + 1
  <2>1. sent[g] + 1 = n + 2  BY <1>12
  <2>2. l.type = "block_stop" /\ l.index = g  BY <1>9, <2>1 DEF BlockShape
  <2> HIDE DEF l
  <2>3. r = FlushBoth(s, Position(s.blocks, g))  BY <1>4, <2>2 DEF AnthropicLine, OnBlockStop
  <2>4. AnthropicOK(r.st) /\ BlocksOK(r.st.blocks) /\ r.st.call = "none" /\ EventsOK(r.out)  BY <2>3, FlushBothIs
  <2> QED BY <1>8, <2>4, AnthropicFitAfter
<1> QED BY <1>2, <1>9, <1>10, <1>11, <1>12 DEF BlockShape

LEMMA AnthropicReceives ==
  ASSUME SettingOK, SentOK, OrderOK, UNCHANGED setting, provider = "anthropic", AnthropicOK(adapter), AnthropicFit(adapter),
         NEW g \in Groups, Ready(g), sent' = [sent EXCEPT ![g] = @ + 1],
         NEW r, r = AnthropicLine(adapter, LinesOf(g)[sent[g] + 1]), adapter' = r.st
  PROVE  AnthropicOK(r.st) /\ EventsOK(r.out) /\ (~ r.halt => AnthropicFit(adapter)')
<1> DEFINE l == LinesOf(g)[sent[g] + 1]
<1>1. sent[g] \in Nat /\ sent[g] + 1 \in 1..Len(LinesOf(g)) /\ \A h \in Groups : h # g => sent'[h] = sent[h]
  BY SendFacts
<1>2. r = AnthropicLine(adapter, l)  OBVIOUS
<1>3. DOMAIN adapter = AnthropicFields /\ adapter.limit \in Nat /\ IsSeq(adapter.buf) /\ Len(adapter.buf) <= adapter.limit
  BY DEF AnthropicOK
<1>4. BlocksOK(adapter.blocks) /\ (adapter.call = "none" \/ \E j \in Tools : ReadsCall(adapter, j))
  BY DEF AnthropicFit
<1>5. CASE g = 0
  <2>1. PICK x : x = Line("message_start")  OBVIOUS
  <2>2. LinesOf(g) = <<x>>  BY <1>5, <2>1 DEF LinesOf, StartLines
  <2>3. Len(<<x>>) = 1 /\ <<x>>[1] = x  OBVIOUS
  <2>4. l = x  BY <1>1, <2>2, <2>3
  <2>5. l.type = "message_start"  BY <2>1, <2>4 DEF Line
  <2> HIDE DEF l
  <2>6. PICK t : t = [adapter EXCEPT !.started = TRUE, !.usage = TRUE]  OBVIOUS
  <2>7. r = Goes(t, <<>>)  BY <1>2, <2>5, <2>6 DEF AnthropicLine, OnMessageStart
  <2>8. r.st = t /\ r.out = <<>>  BY <2>7 DEF Goes
  <2>9. DOMAIN t = AnthropicFields /\ t.limit = adapter.limit /\ t.buf = adapter.buf /\ t.blocks = adapter.blocks
        /\ t.call = adapter.call
    BY <1>3, <2>6 DEF AnthropicFields
  <2>10. AnthropicOK(t)  BY <1>3, <2>9 DEF AnthropicOK
  <2>11. t.call = "none" \/ \E j \in Tools : ReadsCall(t, j)'
    <3>1. CASE adapter.call = "none"  BY <2>9, <3>1
    <3>2. CASE adapter.call # "none"
      <4>1. PICK j \in Tools : ReadsCall(adapter, j)  BY <1>4, <3>2
      <4>2. j \in Groups /\ j \in Nat /\ j # 0  BY BlockGroup DEF Tools
      <4>3. \A h \in Groups : h > j => h # g  BY <1>5, <4>2, SettingIs
      <4>4. Groups' = Groups /\ sent'[j] = sent[j]  BY <1>1, <1>5, <4>2, SettingStays
      <4>5. \A h \in Groups' : h > j => sent'[h] = 0  BY <1>1, <4>1, <4>3, <4>4 DEF ReadsCall
      <4>6. ReadsCall(t, j)'  BY <2>9, <4>1, <4>4, <4>5 DEF ReadsCall, Got
      <4> QED BY <4>6
    <3> QED BY <3>1, <3>2
  <2> QED BY <1>4, <2>8, <2>9, <2>10, <2>11, EventsNone, AnthropicFitAfter
<1>6. CASE g = Len(reply.kinds) + 1
  <2>1. g # 0  BY <1>6, SettingIs
  <2>2. LinesOf(g) = EndLines  BY <1>6, <2>1 DEF LinesOf
  <2>3. PICK x : x = [type |-> "message_delta", stop |-> reply.stop, optional |-> FALSE]  OBVIOUS
  <2>4. EndLines = <<x>>  BY <2>3 DEF EndLines
  <2>5. Len(<<x>>) = 1 /\ <<x>>[1] = x  OBVIOUS
  <2>6. l = x  BY <1>1, <2>2, <2>4, <2>5
  <2>7. l.type = "message_delta"  BY <2>3, <2>6
  <2> HIDE DEF l
  <2>8. PICK f : f = FlushBoth(adapter, OpenServerCall(adapter.blocks))  OBVIOUS
  <2>9. PICK e : e = Done(l.stop, adapter.usage, Parts(f.st.blocks))  OBVIOUS
  <2>10. r = Stops(f.st, Append(f.out, e))  BY <1>2, <2>7, <2>8, <2>9 DEF AnthropicLine, OnMessageDelta
  <2>11. r.st = f.st /\ r.out = Append(f.out, e) /\ r.halt = TRUE  BY <2>10 DEF Stops
  <2>12. AnthropicOK(f.st) /\ IsSeq(f.out) /\ EventsOK(f.out)  BY <2>8, FlushBothIs
  <2>13. e.type # "tool_use"  BY <2>9, EventTypes
  <2> QED BY <2>11, <2>12, <2>13, EventsAppend
<1>7. CASE g \in DOMAIN reply.kinds  BY <1>7, AnthropicReads
<1> QED BY <1>5, <1>6, <1>7, GroupCases

LEMMA AnthropicSkips ==
  ASSUME SettingOK, SentOK, OrderOK, UNCHANGED setting, provider = "anthropic", AnthropicFit(adapter), adapter' = adapter,
         NEW g \in Groups, Ready(g), LinesOf(g)[sent[g] + 1].optional, sent' = [sent EXCEPT ![g] = @ + 1]
  PROVE  AnthropicFit(adapter)'
<1>1. sent[g] \in Nat /\ sent[g] + 1 \in 1..Len(LinesOf(g)) /\ sent[g] < Len(LinesOf(g))  BY SendFacts
<1>2. PICK t : t = adapter  OBVIOUS
<1>3. BlocksOK(t.blocks)  BY <1>2 DEF AnthropicFit
<1>4. ASSUME t.call # "none", NEW j \in Tools, ReadsCall(adapter, j) PROVE \E i \in Tools : ReadsCall(t, i)'
  <2>1. g = j \/ (g > j /\ sent[g] = 0)  BY <1>4, CallIsLast
  <2>2. g # 0
    <3>1. j \in Nat /\ j # 0  BY BlockGroup DEF Tools
    <3> QED BY <2>1, <3>1
  <2>3. g # Len(reply.kinds) + 1
    <3> SUFFICES ASSUME g = Len(reply.kinds) + 1 PROVE FALSE  OBVIOUS
    <3>1. PICK x : x = [type |-> "message_delta", stop |-> reply.stop, optional |-> FALSE]  OBVIOUS
    <3>2. LinesOf(g) = <<x>>  BY <2>2, <3>1 DEF LinesOf, EndLines
    <3>3. Len(<<x>>) = 1 /\ <<x>>[1] = x  OBVIOUS
    <3>4. LinesOf(g)[sent[g] + 1] = x  BY <1>1, <3>2, <3>3
    <3> QED BY <3>1, <3>4
  <2>4. g \in DOMAIN reply.kinds  BY <2>2, <2>3, GroupCases
  <2>5. PICK n \in Nat : BlockShape(LinesOf(g), g, n)  BY <2>4, AnthropicBlock, BlockGroup
  <2>6. sent[g] \notin 0..n
    <3>1. sent[g] # 0  BY <2>5 DEF BlockShape
    <3>2. sent[g] \notin 1..n  BY <2>5 DEF BlockShape
    <3> QED BY <1>1, <3>1, <3>2
  <2>7. g = j /\ n = ArgsFragments
    <3>1. sent[g] # 0  BY <1>1, <2>6
    <3>2. reply.kinds[j] = "tool"  BY DEF Tools
    <3> QED BY <2>1, <2>5, <3>1, <3>2 DEF BlockShape
  <2>8. sent[j] > ArgsFragments  BY <1>1, <2>6, <2>7
  <2>9. t.call = adapter.call /\ t.buf = adapter.buf  BY <1>2
  <2>10. ReadsCall(t, j)'  BY <1>4, <2>7, <2>8, <2>9, CallStillRead
  <2> QED BY <2>10
<1>5. t.call = "none" \/ \E j \in Tools : ReadsCall(t, j)'  BY <1>2, <1>4 DEF AnthropicFit
<1>6. adapter' = t  BY <1>2
<1> QED BY <1>3, <1>5, <1>6, AnthropicFitAfter

-----------------------------------------------------------------------------
(* OpenAI: what is counted is what the unfinished calls have.               *)
LEMMA UnemittedIs ==
  ASSUME NEW s, OpenAIOK(s)
  PROVE  \A q : q \in Unemitted(s.calls) <=> q \in 1..Len(s.calls) /\ ~ s.calls[q].emitted
BY CallsAre DEF Unemitted

LEMMA OneCallGone ==
  ASSUME NEW a, NEW b, NEW L, NEW M, NEW p \in L, NEW n \in Nat, DOMAIN a[p].args = 1..n, M = L \ {p},
         \A q \in L : q # p => DOMAIN b[q].args = DOMAIN a[q].args,
         NEW D, D = Own(p, n)
  PROVE  Fragments(b, M) = Fragments(a, L) \ D
<1>1. M = L \ {p} \/ (M = L /\ DOMAIN b[p].args = {})  OBVIOUS
<1> QED BY <1>1, OneCallLess

LEMMA EmitCallCounts ==
  ASSUME NEW s, OpenAIOK(s), OpenAICounts(s), NEW p, p \in 1..Len(s.calls)
  PROVE  OpenAICounts(EmitCall(s, p).st)
<1> DEFINE r == EmitCall(s, p)
           d == s.calls[p]
<1>8. /\ OpenAIOK(r.st) /\ r.st.limit = s.limit /\ Len(r.st.calls) = Len(s.calls)
      /\ r.st.calls[p] = Emitted(d)
      /\ \A q \in 1..Len(s.calls) : q # p => r.st.calls[q] = s.calls[q]
      /\ d.emitted => r.st = s
      /\ ~ d.emitted => GivesBack(r.st, s, d)
  <2>1. OpenAIOK(r.st) /\ r.st.limit = s.limit /\ Len(r.st.calls) = Len(s.calls)  BY EmitCallIs
  <2>2. r.st.calls[p] = Emitted(d)  BY EmitCallIs
  <2>3. \A q \in 1..Len(s.calls) : q # p => r.st.calls[q] = s.calls[q]  BY EmitCallIs
  <2>4. d.emitted => r.st = s  BY EmitCallIs
  <2>5. ~ d.emitted => GivesBack(r.st, s, d)  BY EmitCallIs
  <2> HIDE DEF r, d
  <2> QED BY <2>1, <2>2, <2>3, <2>4, <2>5
<1>1. PICK t : t = r.st  OBVIOUS
<1>2. PICK c : c = d  OBVIOUS
<1> HIDE DEF r, d
<1>3. /\ OpenAIOK(t) /\ t.limit = s.limit /\ Len(t.calls) = Len(s.calls)
      /\ t.calls[p] = Emitted(c)
      /\ \A q \in 1..Len(s.calls) : q # p => t.calls[q] = s.calls[q]
      /\ c.emitted => t = s
      /\ ~ c.emitted => GivesBack(t, s, c)
  BY <1>1, <1>2, <1>8
<1>4. c \in CallSet  BY <1>2, CallsAre DEF d
<1>5. t.calls[p].emitted = TRUE  BY <1>3, <1>4 DEF CallSet, Emitted
<1>6. CASE c.emitted  BY <1>1, <1>3, <1>6 DEF r
<1>7. CASE ~ c.emitted
  <2>1. PICK L : L = Unemitted(s.calls)  OBVIOUS
  <2>2. PICK M : M = Unemitted(t.calls)  OBVIOUS
  <2>3. M = L \ {p} /\ p \in L
    <3>1. \A q : q \in L <=> q \in 1..Len(s.calls) /\ ~ s.calls[q].emitted  BY <2>1, UnemittedIs
    <3>2. \A q : q \in M <=> q \in 1..Len(s.calls) /\ ~ t.calls[q].emitted  BY <1>3, <2>2, UnemittedIs
    <3>3. \A q : q \in M <=> q \in L /\ q # p  BY <1>3, <1>5, <3>1, <3>2
    <3> QED BY <1>2, <1>7, <3>1, <3>3 DEF d
  <2>4. PICK n : n = Len(c.args)  OBVIOUS
  <2>5. n \in Nat /\ DOMAIN c.args = 1..n
    <3>1. c.args \in Seq(ArgFrags)  BY <1>4, CallTypes
    <3> QED BY <2>4, <3>1
  <2>6. PICK D : D = Own(p, n)  OBVIOUS
  <2>7. \A q \in L : q # p => DOMAIN t.calls[q].args = DOMAIN s.calls[q].args
    <3>1. \A q \in L : q \in 1..Len(s.calls)  BY <2>1, UnemittedIs
    <3> QED BY <1>3, <3>1
  <2>8. PICK a : a = s.calls  OBVIOUS
  <2>9. PICK b : b = t.calls  OBVIOUS
  <2>10. DOMAIN a[p].args = 1..n  BY <1>2, <2>5, <2>8 DEF d
  <2>11. \A q \in L : q # p => DOMAIN b[q].args = DOMAIN a[q].args  BY <2>7, <2>8, <2>9
  <2>12. Fragments(b, M) = Fragments(a, L) \ D  
    <3>1. PICK x : x = p  OBVIOUS
    <3>2. x \in L /\ M = L \ {x} /\ D = Own(x, n) /\ DOMAIN a[x].args = 1..n
          /\ \A q \in L : q # x => DOMAIN b[q].args = DOMAIN a[q].args
      BY <2>3, <2>6, <2>10, <2>11, <3>1
    <3> QED BY <2>5, <3>2, OneCallGone
  <2>13. D \subseteq Fragments(a, L)  BY <2>3, <2>5, <2>6, <2>10, OwnIn
  <2>14. Cardinality(D) = n  BY <2>5, <2>6, OwnIs
  <2>15. PICK F : F = Fragments(a, L)  OBVIOUS
  <2>16. Counted(s, F) /\ s.limit \in Nat  BY <2>1, <2>8, <2>15 DEF OpenAICounts, OpenAIOK, OpenAISet
  <2>17. t.pending = s.pending - n /\ t.limit = s.limit  BY <1>3, <1>7, <2>4 DEF GivesBack
  <2>18. Counted(t, F \ D)  BY <2>5, <2>13, <2>14, <2>15, <2>16, <2>17, CountedLess
  <2> QED BY <1>1, <2>2, <2>9, <2>12, <2>15, <2>18 DEF OpenAICounts, r
<1> QED BY <1>6, <1>7

LEMMA NoCallsCounted ==
  ASSUME NEW t, OpenAIOK(t), t.calls = <<>>, t.pending = 0
  PROVE  OpenAICounts(t)
<1>1. PICK a : a = t.calls  OBVIOUS
<1>2. Len(a) = 0  BY <1>1
<1>3. \A q : q \notin Unemitted(a)
  <2>1. Len(t.calls) = 0  BY <1>1, <1>2
  <2> QED BY <1>1, <2>1, UnemittedIs
<1>4. \A x : x \notin Fragments(a, Unemitted(a))  BY <1>3, FragmentIn
<1>5. Fragments(a, Unemitted(a)) = {}  BY <1>4
<1>6. t.limit \in Nat  BY DEF OpenAIOK, OpenAISet
<1>7. PICK F : F = Fragments(a, Unemitted(a))  OBVIOUS
<1>8. IsFiniteSet(F) /\ Cardinality(F) = 0  BY <1>5, <1>7, FS_EmptySet
<1>9. Counted(t, F)  BY <1>6, <1>8 DEF Counted
<1> QED BY <1>1, <1>7, <1>9 DEF OpenAICounts

LEMMA WithCallCounts ==
  ASSUME NEW s, OpenAIOK(s), OpenAICounts(s), NEW d \in DeltaSet
  PROVE  OpenAICounts(WithCall(s, d))
<1>1. PICK t : t = WithCall(s, d)  OBVIOUS
<1>2. PICK n : n = Len(s.calls)  OBVIOUS
<1>3. /\ OpenAIOK(t) /\ t.limit = s.limit /\ t.pending = s.pending
      /\ Len(t.calls) = n + 1 /\ t.calls[n + 1] = Fresh(d)
      /\ \A q \in 1..n : t.calls[q] = s.calls[q]
  BY <1>1, <1>2, WithCallIs
<1>4. n \in Nat  BY <1>2, CallsAre
<1>5. t.calls[n + 1].emitted = FALSE /\ t.calls[n + 1].args = <<>>  BY <1>3 DEF Fresh
<1>6. PICK L : L = Unemitted(s.calls)  OBVIOUS
<1>7. PICK M : M = Unemitted(t.calls)  OBVIOUS
<1>8. \A q : q \in L <=> q \in 1..n /\ ~ s.calls[q].emitted  BY <1>2, <1>6, UnemittedIs
<1>9. \A q : q \in M <=> q \in 1..(n + 1) /\ ~ t.calls[q].emitted  BY <1>3, <1>7, UnemittedIs
<1>10. L \subseteq M /\ \A q \in M : q \in L \/ q = n + 1
  <2>1. \A q \in 1..(n + 1) : q \in 1..n \/ q = n + 1  BY <1>4
  <2>2. \A q \in 1..n : q \in 1..(n + 1)  BY <1>4
  <2> QED BY <1>3, <1>8, <1>9, <2>1, <2>2
<1>11. PICK a : a = s.calls  OBVIOUS
<1>12. PICK b : b = t.calls  OBVIOUS
<1>13. \A q \in L \cap M : DOMAIN a[q].args = DOMAIN b[q].args  BY <1>3, <1>8, <1>11, <1>12
<1>14. \A q \in L \ M : DOMAIN a[q].args = {}  BY <1>10
<1>15. \A q \in M \ L : DOMAIN b[q].args = {}
  <2>1. PICK z : z = <<>>  OBVIOUS
  <2>2. DOMAIN z = {}  BY <2>1
  <2> QED BY <1>5, <1>10, <1>12, <2>1, <2>2
<1>16. Fragments(a, L) = Fragments(b, M)  BY <1>13, <1>14, <1>15, SameFragments
<1> QED BY <1>1, <1>3, <1>6, <1>7, <1>11, <1>12, <1>16 DEF OpenAICounts, Counted

-----------------------------------------------------------------------------
(* OpenAI: what is emitted is a call's own, as far as it was sent.          *)
ToolDeltas(g) == /\ Len(LinesOf(g)) = ArgsFragments
                 /\ \A k \in 1..ArgsFragments :
                       /\ IsChunk(LinesOf(g)[k]) /\ LinesOf(g)[k].finish = "none"
                       /\ Len(LinesOf(g)[k].calls) = 1 /\ LinesOf(g)[k].calls[1] = OpenAIDelta(g, k)
                       /\ LinesOf(g)[k].reasoning = <<>> /\ LinesOf(g)[k].text = <<>>

LEMMA ToolDeltaLines ==
  ASSUME SettingOK, provider = "openai", NEW g \in Tools
  PROVE  ToolDeltas(g) /\ g \in Groups /\ g \in DOMAIN reply.kinds /\ g \in Nat
<1>1. g \in DOMAIN reply.kinds /\ reply.kinds[g] = "tool"  BY DEF Tools
<1>2. g \in Groups /\ g \in Nat /\ LinesOf(g) = BlockLines(g)  BY <1>1, BlockGroup
<1>3. Len(BlockLines(g)) = ArgsFragments  BY <1>1, OpenAIBlockLines
<1>4. \A k \in 1..Len(BlockLines(g)) :
        /\ IsChunk(BlockLines(g)[k]) /\ BlockLines(g)[k].finish = "none"
        /\ Len(BlockLines(g)[k].calls) = 1 /\ BlockLines(g)[k].calls[1] = OpenAIDelta(g, k)
        /\ BlockLines(g)[k].reasoning = <<>> /\ BlockLines(g)[k].text = <<>>
  <2> SUFFICES ASSUME NEW k \in 1..Len(BlockLines(g))
               PROVE  /\ IsChunk(BlockLines(g)[k]) /\ BlockLines(g)[k].finish = "none"
                      /\ Len(BlockLines(g)[k].calls) = 1 /\ BlockLines(g)[k].calls[1] = OpenAIDelta(g, k)
                      /\ BlockLines(g)[k].reasoning = <<>> /\ BlockLines(g)[k].text = <<>>
    OBVIOUS
  <2> QED BY <1>1, OpenAIBlockLines
<1> QED BY <1>1, <1>2, <1>3, <1>4 DEF ToolDeltas

LEMMA CallEventOK ==
  ASSUME SettingOK, SentOK, provider = "openai", NEW c, NEW b \in Tools, CallOf(c, b)
  PROVE  EventOf(c).type = "tool_use" /\ Unspliced(EventOf(c).call)
<1>1. c.id = BlockIDs[b] /\ c.args = First(BlockIDs[b], sent[b])  BY DEF CallOf
<1>2. sent[b] \in Nat /\ sent[b] <= ArgsFragments  BY ToolDeltaLines DEF SentOK, ToolDeltas
<1>3. PICK t : t = ToolCall(c.id, c.args)  OBVIOUS
<1>4. t = ToolCall(BlockIDs[b], First(BlockIDs[b], sent[b]))  BY <1>1, <1>3
<1>5. provider # "gemini"  OBVIOUS
<1>6. Unspliced(t)  BY <1>2, <1>4, <1>5, CallUnspliced
<1> QED BY <1>3, <1>6 DEF EventOf, ToolUse

Called(s)     == \A p \in 1..Len(s.calls) : \E b \in Tools : CallOf(s.calls[p], b)
DistinctIDs(s) == \A p, q \in 1..Len(s.calls) : p # q => s.calls[p].id # s.calls[q].id

LEMMA UnfinishedOK ==
  ASSUME SettingOK, SentOK, provider = "openai", NEW s, OpenAIOK(s), Called(s)
  PROVE  EventsOK(Unfinished(s.calls)) /\ IsSeq(Unfinished(s.calls))
<1> DEFINE S == {EventOf(s.calls[p]) : p \in 1..Len(s.calls)}
<1>1. \A e \in S : Unspliced(e.call)
  <2> SUFFICES ASSUME NEW p \in 1..Len(s.calls) PROVE Unspliced(EventOf(s.calls[p]).call)  OBVIOUS
  <2>1. PICK b \in Tools : CallOf(s.calls[p], b)  BY DEF Called
  <2>2. PICK c : c = s.calls[p]  OBVIOUS
  <2>3. CallOf(c, b)  BY <2>1, <2>2
  <2>4. Unspliced(EventOf(c).call)  BY <2>3, CallEventOK
  <2> QED BY <2>2, <2>4
<1>2. Len(s.calls) \in Nat /\ \A p \in 1..Len(s.calls) : EventOf(s.calls[p]) \in S  BY CallsAre
<1> HIDE DEF S
<1>3. Unfinished(s.calls) \in Seq(S)  BY <1>2, UnfinishedIsSeq
<1>4. PICK u : u = Unfinished(s.calls)  OBVIOUS
<1>5. IsSeq(u) /\ Range(u) \subseteq S  BY <1>3, <1>4, SeqOfOwn
<1>6. EventsOK(u)  BY <1>1, <1>5 DEF EventsOK
<1> QED BY <1>4, <1>5, <1>6

LEMMA FlushAll ==
  ASSUME SettingOK, SentOK, provider = "openai", NEW s, OpenAIOK(s), OpenAICounts(s), Called(s), NEW r, r = EmitAll(s)
  PROVE  /\ r.halt = FALSE /\ OpenAIOK(r.st) /\ OpenAICounts(r.st) /\ EventsOK(r.out) /\ IsSeq(r.out)
         /\ r.st.calls = <<>>
<1>1. /\ r.halt = FALSE /\ r.out = Unfinished(s.calls) /\ OpenAIOK(r.st) /\ r.st.calls = <<>>
      /\ r.st.pending = s.pending - Cardinality(Fragments(s.calls, Unemitted(s.calls)))
  BY EmitAllIs
<1>5. PICK F : F = Fragments(s.calls, Unemitted(s.calls))  OBVIOUS
<1>6. s.pending = Cardinality(F) /\ Cardinality(F) \in Nat  BY <1>5, HeldIsFinite DEF OpenAICounts, Counted
<1>7. r.st.pending = 0  BY <1>1, <1>5, <1>6
<1>2. PICK t : t = r.st  OBVIOUS
<1>3. OpenAICounts(t)
  <2>1. OpenAIOK(t) /\ t.calls = <<>> /\ t.pending = 0  BY <1>1, <1>2, <1>7
  <2> QED BY <2>1, NoCallsCounted
<1>4. EventsOK(r.out) /\ IsSeq(r.out)  BY <1>1, UnfinishedOK
<1> QED BY <1>1, <1>2, <1>3, <1>4

(* The call at an index depends on the indexes only.                        *)
LEMMA SameCallAt ==
  ASSUME NEW s, OpenAIOK(s), NEW t, OpenAIOK(t), Len(t.calls) = Len(s.calls),
         \A q \in 1..Len(s.calls) : t.calls[q].index = s.calls[q].index, NEW i
  PROVE  CallAt(t, i) = CallAt(s, i)
<1>1. PICK n \in Nat : n = Len(s.calls)  BY CallsAre
<1>2. PICK p : p = CallAt(s, i)  OBVIOUS
<1>3. PICK x : x = CallAt(t, i)  OBVIOUS
<1>4. \/ p = 0 /\ \A q \in 1..n : s.calls[q].index # i
      \/ p \in 1..n /\ s.calls[p].index = i /\ \A q \in 1..n : s.calls[q].index = i => q <= p
  BY <1>1, <1>2, CallAtIs
<1>5. \/ x = 0 /\ \A q \in 1..n : t.calls[q].index # i
      \/ x \in 1..n /\ t.calls[x].index = i /\ \A q \in 1..n : t.calls[q].index = i => q <= x
  BY <1>1, <1>3, CallAtIs
<1>6. \A q \in 1..n : t.calls[q].index = s.calls[q].index  BY <1>1
<1>7. x = p
  <2>1. CASE p = 0  BY <1>4, <1>5, <1>6, <2>1
  <2>2. CASE p \in 1..n
    <3>1. x \in 1..n /\ x <= p /\ p <= x  BY <1>1, <1>4, <1>5, <1>6, <2>2
    <3> QED BY <2>2, <3>1
  <2> QED BY <1>4, <2>1, <2>2
<1> QED BY <1>2, <1>3, <1>7

-----------------------------------------------------------------------------
(* OpenAI: a delta of block g is read into g's own call.                    *)
LEMMA CallAtKept ==
  ASSUME NEW s, OpenAIOK(s), NEW t, OpenAIOK(t), Len(t.calls) = Len(s.calls) + 1,
         \A q \in 1..Len(s.calls) : t.calls[q].index = s.calls[q].index,
         NEW i, t.calls[Len(s.calls) + 1].index # i
  PROVE  CallAt(t, i) = CallAt(s, i)
<1>1. PICK n \in Nat : n = Len(s.calls)  BY CallsAre
<1>2. PICK p : p = CallAt(s, i)  OBVIOUS
<1>3. PICK x : x = CallAt(t, i)  OBVIOUS
<1>4. \/ p = 0 /\ \A q \in 1..n : s.calls[q].index # i
      \/ p \in 1..n /\ s.calls[p].index = i /\ \A q \in 1..n : s.calls[q].index = i => q <= p
  BY <1>1, <1>2, CallAtIs
<1>5. \/ x = 0 /\ \A q \in 1..(n + 1) : t.calls[q].index # i
      \/ x \in 1..(n + 1) /\ t.calls[x].index = i /\ \A q \in 1..(n + 1) : t.calls[q].index = i => q <= x
  BY <1>1, <1>3, CallAtIs
<1>6. (\A q \in 1..n : t.calls[q].index = s.calls[q].index) /\ t.calls[n + 1].index # i  BY <1>1
<1>7. x = p
  <2>1. CASE p = 0
    <3>1. x \notin 1..n  BY <1>4, <1>5, <1>6, <2>1
    <3>2. x # n + 1  BY <1>5, <1>6
    <3> QED BY <1>1, <1>5, <2>1, <3>1, <3>2
  <2>2. CASE p \in 1..n
    <3>1. x # n + 1  BY <1>5, <1>6
    <3>2. s.calls[p].index = i /\ t.calls[p].index = i /\ p \in 1..(n + 1)  BY <1>4, <1>6, <2>2
    <3>3. x \in 1..(n + 1) /\ t.calls[x].index = i /\ p <= x  BY <1>5, <3>2
    <3>4. x \in 1..n  BY <3>1, <3>3
    <3>5. x <= p  BY <1>4, <1>6, <2>2, <3>3, <3>4
    <3> QED BY <2>2, <3>3, <3>4, <3>5
  <2> QED BY <1>4, <2>1, <2>2
<1> QED BY <1>2, <1>3, <1>7

LEMMA NumberIs ==
  ASSUME SettingOK, provider = "openai", NEW g \in Tools
  PROVE  /\ quirk \in {"none", "noindex", "index0"}
         /\ quirk = "noindex" => Number(g) = Unnumbered
         /\ quirk # "noindex" => Number(g) # Unnumbered
         /\ quirk = "none" => Number(g) = g
<1>1. quirk \in {"none", "noindex", "index0"}  BY DEF SettingOK, Quirks
<1>2. g \in Nat  BY ToolDeltaLines
<1> QED BY <1>1, <1>2 DEF Number, Unnumbered

(* Only parallel calls the protocol tells apart are in progress together.   *)
LEMMA OthersInterleave ==
  ASSUME SettingOK, SentOK, OrderOK, UNCHANGED setting, provider = "openai", NEW g \in Groups, Ready(g),
         sent' = [sent EXCEPT ![g] = @ + 1], NEW b \in Tools, b # g, InProgress(b)
  PROVE  quirk = "none"
<1>1. b \in Groups /\ b \in Nat /\ g \in Nat  BY ToolDeltaLines, SettingIs
<1>2. \A h \in Groups : h < g => Sent(h) \/ (sent[h] > 0 /\ Interleaves(h, g))  BY SendFacts
<1>3. \A h \in Groups : h > g => sent[h] = 0 \/ Interleaves(g, h)  BY SendFacts
<1>4. sent[b] > 0 /\ ~ Sent(b)  BY DEF InProgress
<1>5. Interleaves(b, g) \/ Interleaves(g, b)
  <2>1. b < g \/ b > g  BY <1>1
  <2>2. sent[b] # 0  BY <1>4
  <2> QED BY <1>1, <1>2, <1>3, <1>4, <2>1, <2>2
<1>6. quirk \in {"none", "noitem", "bare_done"}  BY <1>5 DEF Interleaves
<1> QED BY <1>6, NumberIs

OtherCall(s, b) ==
    LET p == CallAt(s, Number(b))
    IN quirk = "none" /\ p \in 1..Len(s.calls) /\ s.calls[p].id = BlockIDs[b] /\ ~ s.calls[p].emitted
OtherCalls(s, g) == \A b \in Tools : b # g /\ InProgress(b) => OtherCall(s, b)
CalledBut(s, g)  == \A p \in 1..Len(s.calls) : \E b \in Tools : b # g /\ CallOf(s.calls[p], b)

(* What a delta of block g finds: the latest call is its own.               *)
OwnCallLast(s, g) ==
    /\ s.latest \in 1..Len(s.calls)
    /\ CallOf(s.calls[s.latest], g) \/ (sent[g] = 0 /\ s.calls[s.latest].args = <<>>)
    /\ s.calls[s.latest].id = BlockIDs[g] /\ s.calls[s.latest].index = Number(g) /\ ~ s.calls[s.latest].emitted
    /\ \A q \in 1..Len(s.calls) : q # s.latest => \E b \in Tools : b # g /\ CallOf(s.calls[q], b)
    /\ DistinctIDs(s) /\ OtherCalls(s, g)
    /\ quirk # "noindex" => \A q \in 1..Len(s.calls) : s.calls[q].index = Number(g) => q <= s.latest

LEMMA IDOfCall ==
  ASSUME SettingOK, NEW g \in Tools, NEW b \in Tools, NEW c, CallOf(c, b)
  PROVE  c.id = BlockIDs[g] <=> b = g
BY IDsDiffer DEF Tools, CallOf

LEMMA CallStarted ==
  ASSUME SettingOK, provider = "openai", NEW g \in Tools, sent[g] = 0, NEW s, OpenAIOK(s), OpenAICounts(s),
         CalledBut(s, g), DistinctIDs(s), OtherCalls(s, g),
         NEW d \in DeltaSet, d.id = BlockIDs[g], d.index = Number(g), NEW t, t = WithCall(s, d)
  PROVE  OpenAIOK(t) /\ OpenAICounts(t) /\ OwnCallLast(t, g)
<1>1. PICK n : n = Len(s.calls)  OBVIOUS
<1>2. n \in Nat  BY <1>1, CallsAre
<1>3. /\ OpenAIOK(t) /\ Len(t.calls) = n + 1 /\ t.latest = n + 1 /\ t.calls[n + 1] = Fresh(d)
      /\ \A q \in 1..n : t.calls[q] = s.calls[q]
  BY <1>1, WithCallIs
<1>4. OpenAICounts(t)  BY WithCallCounts
<1>5. t.calls[n + 1].id = BlockIDs[g] /\ t.calls[n + 1].index = Number(g) /\ t.calls[n + 1].args = <<>>
      /\ t.calls[n + 1].emitted = FALSE
  BY <1>3 DEF Fresh
<1>6. \A q \in 1..(n + 1) : q \in 1..n \/ q = n + 1  BY <1>2
<1>7. n + 1 \in 1..(n + 1)  BY <1>2
<1>8. \A q \in 1..n : q # n + 1 /\ \E b \in Tools : b # g /\ CallOf(t.calls[q], b)
  <2> SUFFICES ASSUME NEW q \in 1..n PROVE q # n + 1 /\ \E b \in Tools : b # g /\ CallOf(t.calls[q], b)  OBVIOUS
  <2>1. q # n + 1  BY <1>2
  <2>2. PICK b \in Tools : b # g /\ CallOf(s.calls[q], b)  BY <1>1 DEF CalledBut
  <2> QED BY <1>3, <2>1, <2>2
<1>9. \A q \in 1..n : t.calls[q].id # BlockIDs[g]
  <2> SUFFICES ASSUME NEW q \in 1..n PROVE t.calls[q].id # BlockIDs[g]  OBVIOUS
  <2>1. PICK b \in Tools : b # g /\ CallOf(t.calls[q], b)  BY <1>8
  <2> QED BY <2>1, IDOfCall
<1>10. DistinctIDs(t)
  <2>1. \A p, q \in 1..n : p # q => t.calls[p].id # t.calls[q].id  BY <1>1, <1>3 DEF DistinctIDs
  <2> QED BY <1>3, <1>5, <1>6, <1>9, <2>1 DEF DistinctIDs
<1>11. OtherCalls(t, g)
  <2> SUFFICES ASSUME NEW b \in Tools, b # g, InProgress(b) PROVE OtherCall(t, b)  BY DEF OtherCalls
  <2>1. OtherCall(s, b)  BY DEF OtherCalls
  <2>2. Number(b) # Number(g)  BY <2>1, NumberIs DEF OtherCall
  <2>3. CallAt(t, Number(b)) = CallAt(s, Number(b))
    <3>1. t.calls[Len(s.calls) + 1].index # Number(b) /\ Len(t.calls) = Len(s.calls) + 1  BY <1>1, <1>3, <1>5, <2>2
    <3>2. \A q \in 1..Len(s.calls) : t.calls[q].index = s.calls[q].index  BY <1>1, <1>3
    <3> QED BY <1>3, <3>1, <3>2, CallAtKept
  <2>4. PICK p : p = CallAt(s, Number(b))  OBVIOUS
  <2>5. quirk = "none" /\ p \in 1..n /\ s.calls[p].id = BlockIDs[b] /\ ~ s.calls[p].emitted
    BY <1>1, <2>1, <2>4 DEF OtherCall
  <2>6. p \in 1..(n + 1)  BY <1>2, <2>5
  <2> QED BY <1>3, <2>3, <2>4, <2>5, <2>6 DEF OtherCall
<1>12. \A q \in 1..(n + 1) : q <= n + 1  BY <1>2
<1> QED BY <1>3, <1>4, <1>5, <1>6, <1>7, <1>8, <1>10, <1>11, <1>12 DEF OwnCallLast

-----------------------------------------------------------------------------
LEMMA FitIs ==
  ASSUME NEW s, OpenAIFit(s)
  PROVE  /\ Called(s) /\ DistinctIDs(s)
         /\ \A b \in Tools : InProgress(b) => /\ NextCall(s, b) \in 1..Len(s.calls)
                                              /\ s.calls[NextCall(s, b)].id = BlockIDs[b]
                                              /\ ~ s.calls[NextCall(s, b)].emitted
BY DEF OpenAIFit, Called, DistinctIDs

LEMMA NextIs ==
  ASSUME NEW s, NEW b
  PROVE  NextCall(s, b) = IF quirk = "noindex" THEN s.latest ELSE CallAt(s, Number(b))
BY DEF NextCall

(* A later delta continues its call.                                        *)
LEMMA CallContinued ==
  ASSUME SettingOK, SentOK, OrderOK, UNCHANGED setting, provider = "openai", NEW g \in Tools, Ready(g),
         sent' = [sent EXCEPT ![g] = @ + 1], sent[g] # 0,
         NEW s, OpenAIOK(s), OpenAIFit(s), OpenAICounts(s),
         NEW d \in DeltaSet, d.id = "none", d.index = Number(g), NEW a, a = Addressed(s, d)
  PROVE  OpenAIOK(a.st) /\ OpenAICounts(a.st) /\ OwnCallLast(a.st, g) /\ a.out = <<>>
<1>1. g \in Groups /\ g \in DOMAIN reply.kinds  BY ToolDeltaLines
<1>2. sent[g] \in Nat /\ InProgress(g)  BY <1>1 DEF SentOK, InProgress, Ready
<1>3. Called(s) /\ DistinctIDs(s)  BY FitIs
<1>4. PICK p : p = NextCall(s, g)  OBVIOUS
<1>5. p \in 1..Len(s.calls) /\ s.calls[p].id = BlockIDs[g] /\ ~ s.calls[p].emitted  BY <1>2, <1>4, FitIs
<1>6. p = IF quirk = "noindex" THEN s.latest ELSE CallAt(s, Number(g))  BY <1>4, NextIs
<1>7. PICK t : t = [s EXCEPT !.latest = p]  OBVIOUS
<1>8. s \in OpenAISet  BY DEF OpenAIOK
<1>9. t.latest = p /\ t.calls = s.calls /\ t.pending = s.pending /\ t.limit = s.limit
  BY <1>7, <1>8 DEF OpenAISet
<1>10. a = Goes(t, <<>>)
  <2>1. CASE quirk = "noindex"
    <3>1. d.index = Unnumbered /\ p = s.latest  BY <1>6, <2>1, NumberIs
    <3>2. t = s  BY <1>7, <1>8, <3>1 DEF OpenAISet
    <3> QED BY <3>1, <3>2, AddressedIs
  <2>2. CASE quirk # "noindex"
    <3>1. d.index # Unnumbered /\ p = CallAt(s, d.index)  BY <1>6, <2>2, NumberIs
    <3>2. p # 0  BY <1>5
    <3>3. ~ Reuses(s, d)  BY DEF Reuses
    <3> QED BY <1>7, <3>1, <3>2, <3>3, AddressedIs
  <2> QED BY <2>1, <2>2
<1>11. a.st = t /\ a.out = <<>>  BY <1>10 DEF Goes
<1>12. OpenAIOK(a.st)  BY AddressedOK
<1>13. OpenAIOK(t)  BY <1>11, <1>12
<1>14. OpenAICounts(t)  BY <1>9 DEF OpenAICounts, Counted
<1>15. PICK cs : cs = s.calls  OBVIOUS
<1>16. CallOf(cs[p], g)
  <2>1. PICK b \in Tools : CallOf(s.calls[p], b)  BY <1>3, <1>5 DEF Called
  <2>2. CallOf(cs[p], b) /\ cs[p].id = BlockIDs[g]  BY <1>5, <1>15, <2>1
  <2>3. b = g  BY <2>2, IDOfCall
  <2> QED BY <2>2, <2>3
<1>17. cs[p].id = BlockIDs[g] /\ cs[p].index = Number(g)  BY <1>16 DEF CallOf
<1>18. \A q \in 1..Len(cs) : q # p => \E b \in Tools : b # g /\ CallOf(cs[q], b)
  <2> SUFFICES ASSUME NEW q \in 1..Len(cs), q # p PROVE \E b \in Tools : b # g /\ CallOf(cs[q], b)  OBVIOUS
  <2>1. PICK b \in Tools : CallOf(cs[q], b)  BY <1>3, <1>15 DEF Called
  <2>2. cs[q].id # BlockIDs[g]  BY <1>3, <1>5, <1>15 DEF DistinctIDs
  <2>3. b # g  BY <2>1, <2>2, IDOfCall
  <2> QED BY <2>1, <2>3
<1>19. quirk # "noindex" => \A q \in 1..Len(cs) : cs[q].index = Number(g) => q <= p
  <2> SUFFICES ASSUME quirk # "noindex" PROVE \A q \in 1..Len(cs) : cs[q].index = Number(g) => q <= p  OBVIOUS
  <2>1. p = CallAt(s, Number(g)) /\ p # 0  BY <1>5, <1>6
  <2>2. \A q \in 1..Len(s.calls) : s.calls[q].index = Number(g) => q <= CallAt(s, Number(g))
    BY <2>1, CallAtIs
  <2> QED BY <1>15, <2>1, <2>2
<1>20. OtherCalls(t, g)
  <2> SUFFICES ASSUME NEW b \in Tools, b # g, InProgress(b) PROVE OtherCall(t, b)  BY DEF OtherCalls
  <2>1. quirk = "none"  BY <1>1, OthersInterleave
  <2>2. PICK x : x = NextCall(s, b)  OBVIOUS
  <2>3. x \in 1..Len(s.calls) /\ s.calls[x].id = BlockIDs[b] /\ ~ s.calls[x].emitted  BY <2>2, FitIs
  <2>4. x = CallAt(s, Number(b))  BY <2>1, <2>2, NextIs
  <2>5. CallAt(t, Number(b)) = CallAt(s, Number(b))  BY <1>9 DEF CallAt
  <2> QED BY <1>9, <2>1, <2>3, <2>4, <2>5 DEF OtherCall
<1>21. t.latest = p /\ t.calls = cs /\ p \in 1..Len(cs) /\ ~ cs[p].emitted  BY <1>5, <1>9, <1>15
<1>22. DistinctIDs(t)  BY <1>3, <1>9 DEF DistinctIDs
<1>23. OwnCallLast(t, g)
  BY <1>16, <1>17, <1>18, <1>19, <1>20, <1>21, <1>22 DEF OwnCallLast
<1> QED BY <1>11, <1>13, <1>14, <1>23

EmittedWell(s, p, e, c) ==
    /\ OpenAIOK(e.st) /\ Len(e.st.calls) = Len(s.calls) /\ e.st.calls[p] = Emitted(c)
    /\ \A q \in 1..Len(s.calls) : q # p => e.st.calls[q] = s.calls[q]
    /\ e.out = <<>> \/ e.out = <<EventOf(c)>>

LEMMA EmitCallAt ==
  ASSUME NEW s, OpenAIOK(s), NEW p, p \in 1..Len(s.calls), NEW e, e = EmitCall(s, p), NEW c, c = s.calls[p]
  PROVE  EmittedWell(s, p, e, c)
<1> DEFINE r == EmitCall(s, p)
           k == s.calls[p]
<1>1. OpenAIOK(r.st) /\ Len(r.st.calls) = Len(s.calls)  BY EmitCallIs
<1>2. r.st.calls[p] = Emitted(k)  BY EmitCallIs
<1>3. \A q \in 1..Len(s.calls) : q # p => r.st.calls[q] = s.calls[q]  BY EmitCallIs
<1>4. k.emitted => r.out = <<>>  BY DEF EmitCall, Goes
<1>5. ~ k.emitted => r.out = <<EventOf(k)>>  BY DEF EmitCall, Goes
<1>6. e = r /\ c = k  OBVIOUS
<1> HIDE DEF r, k
<1> QED BY <1>1, <1>2, <1>3, <1>4, <1>5, <1>6 DEF EmittedWell

(* The first delta starts a new call, after what the protocol says is over  *)
(* was emitted.                                                             *)
LEMMA CallBegun ==
  ASSUME SettingOK, SentOK, OrderOK, UNCHANGED setting, provider = "openai", NEW g \in Tools, Ready(g),
         sent' = [sent EXCEPT ![g] = @ + 1], sent[g] = 0,
         NEW s, OpenAIOK(s), OpenAIFit(s), OpenAICounts(s),
         NEW d \in DeltaSet, d.id = BlockIDs[g], d.index = Number(g), NEW a, a = Addressed(s, d)
  PROVE  OpenAIOK(a.st) /\ OpenAICounts(a.st) /\ OwnCallLast(a.st, g) /\ EventsOK(a.out) /\ IsSeq(a.out)
<1>1. g \in Groups /\ g \in DOMAIN reply.kinds  BY ToolDeltaLines
<1>2. d.id # "none"  BY <1>1, IDsAre
<1>3. Called(s) /\ DistinctIDs(s)  BY FitIs
<1>4. CalledBut(s, g)
  <2> SUFFICES ASSUME NEW q \in 1..Len(s.calls) PROVE \E b \in Tools : b # g /\ CallOf(s.calls[q], b)
    BY DEF CalledBut
  <2>1. PICK b \in Tools : CallOf(s.calls[q], b)  BY <1>3 DEF Called
  <2>2. b # g  BY <2>1 DEF CallOf
  <2> QED BY <2>1, <2>2
<1>5. PICK p : p = CallAt(s, d.index)  OBVIOUS
<1>6. p = 0 \/ (p \in 1..Len(s.calls) /\ s.calls[p].index = d.index)  BY <1>5, CallAtIs
<1>7. \A b \in Tools : b # g /\ InProgress(b) => quirk = "none"  BY <1>1, OthersInterleave
<1>8. CASE quirk = "noindex"
  <2>1. PICK e : e = EmitAll(s)  OBVIOUS
  <2>2. OpenAIOK(e.st) /\ OpenAICounts(e.st) /\ EventsOK(e.out) /\ IsSeq(e.out) /\ e.st.calls = <<>>
    BY <1>3, <2>1, FlushAll
  <2>3. d.index = Unnumbered  BY <1>8, NumberIs
  <2>4. a = Goes(WithCall(e.st, d), e.out)  BY <1>2, <2>1, <2>3, AddressedIs
  <2>5. PICK s1 : s1 = e.st  OBVIOUS
  <2>6. Len(s1.calls) = 0  BY <2>2, <2>5
  <2>7. CalledBut(s1, g) /\ DistinctIDs(s1)  BY <2>6 DEF CalledBut, DistinctIDs
  <2>8. OtherCalls(s1, g)  BY <1>7, <1>8 DEF OtherCalls
  <2>9. OpenAIOK(s1) /\ OpenAICounts(s1)  BY <2>2, <2>5
  <2>10. PICK t : t = WithCall(s1, d)  OBVIOUS
  <2>11. OpenAIOK(t) /\ OpenAICounts(t) /\ OwnCallLast(t, g)
    BY <2>7, <2>8, <2>9, <2>10, CallStarted
  <2>12. a.st = t /\ a.out = e.out  BY <2>4, <2>5, <2>10 DEF Goes
  <2> QED BY <2>2, <2>11, <2>12
<1>9. CASE quirk # "noindex" /\ p = 0
  <2>1. d.index # Unnumbered  BY <1>9, NumberIs
  <2>2. a = Goes(WithCall(s, d), <<>>)  BY <1>5, <1>9, <2>1, AddressedIs
  <2>3. OtherCalls(s, g)
    <3> SUFFICES ASSUME NEW b \in Tools, b # g, InProgress(b) PROVE OtherCall(s, b)  BY DEF OtherCalls
    <3>1. quirk = "none"  BY <1>7
    <3>2. PICK x : x = NextCall(s, b)  OBVIOUS
    <3>3. x \in 1..Len(s.calls) /\ s.calls[x].id = BlockIDs[b] /\ ~ s.calls[x].emitted  BY <3>2, FitIs
    <3>4. x = CallAt(s, Number(b))  BY <3>1, <3>2, NextIs
    <3> QED BY <3>1, <3>3, <3>4 DEF OtherCall
  <2>4. PICK t : t = WithCall(s, d)  OBVIOUS
  <2>5. OpenAIOK(t) /\ OpenAICounts(t) /\ OwnCallLast(t, g)
    BY <1>3, <1>4, <2>3, <2>4, CallStarted
  <2>6. a.st = t /\ a.out = <<>>  BY <2>2, <2>4 DEF Goes
  <2> QED BY <2>5, <2>6, EventsNone, NoneSeq
<1>10. CASE quirk # "noindex" /\ p # 0
  <2>1. p \in 1..Len(s.calls) /\ s.calls[p].index = Number(g)  BY <1>6, <1>10
  <2>2. PICK b \in Tools : b # g /\ CallOf(s.calls[p], b)  BY <1>4, <2>1 DEF CalledBut
  <2>3. s.calls[p].id = BlockIDs[b] /\ BlockIDs[b] # BlockIDs[g] /\ Number(b) = Number(g)
    BY <2>1, <2>2, IDsDiffer DEF CallOf, Tools
  <2>4. quirk # "none"  BY <2>2, <2>3, NumberIs
  <2>5. s.calls[p].id # "none"  BY <2>3, IDsAre DEF Tools
  <2>6. Reuses(s, d) /\ d.index # Unnumbered  BY <1>2, <1>5, <1>10, <2>3, <2>5, NumberIs DEF Reuses
  <2>7. PICK e : e = EmitCall(s, p)  OBVIOUS
  <2>8. a = Goes(WithCall(e.st, d), e.out)  BY <1>5, <2>6, <2>7, AddressedIs
  <2>9. PICK s1 : s1 = e.st  OBVIOUS
  <2>10. PICK c : c = s.calls[p]  OBVIOUS
  <2>24. EmittedWell(s, p, e, c)  BY <2>1, <2>7, <2>10, EmitCallAt
  <2>11. /\ OpenAIOK(s1) /\ Len(s1.calls) = Len(s.calls) /\ s1.calls[p] = Emitted(c)
         /\ \A q \in 1..Len(s.calls) : q # p => s1.calls[q] = s.calls[q]
    BY <2>9, <2>24 DEF EmittedWell
  <2>12. e.out = <<>> \/ e.out = <<EventOf(c)>>  BY <2>24 DEF EmittedWell
  <2>13. OpenAICounts(s1)  BY <2>1, <2>7, <2>9, EmitCallCounts
  <2>14. EventsOK(e.out) /\ IsSeq(e.out)
    <3>1. CASE e.out = <<>>  BY <3>1, EventsNone, NoneSeq
    <3>2. CASE e.out = <<EventOf(c)>>
      <4>1. CallOf(c, b)  BY <2>2, <2>10
      <4>2. PICK ev : ev = EventOf(c)  OBVIOUS
      <4>3. Unspliced(ev.call)  BY <4>1, <4>2, CallEventOK
      <4> QED BY <3>2, <4>2, <4>3, EventsOne, OneSeq
    <3> QED BY <2>12, <3>1, <3>2
  <2>15. c \in CallSet  BY <2>1, <2>10, CallsAre
  <2>16. Emitted(c).id = c.id /\ Emitted(c).index = c.index /\ Emitted(c).args = c.args
    BY <2>15 DEF CallSet, Emitted
  <2>17. \A q \in 1..Len(s.calls) : s1.calls[q].id = s.calls[q].id /\ s1.calls[q].index = s.calls[q].index
                                    /\ s1.calls[q].args = s.calls[q].args
    BY <2>10, <2>11, <2>16
  <2>18. CalledBut(s1, g)  BY <1>4, <2>11, <2>17 DEF CalledBut, CallOf
  <2>19. DistinctIDs(s1)  BY <1>3, <2>11, <2>17 DEF DistinctIDs
  <2>20. OtherCalls(s1, g)  BY <1>7, <2>4 DEF OtherCalls
  <2>21. PICK t : t = WithCall(s1, d)  OBVIOUS
  <2>22. OpenAIOK(t) /\ OpenAICounts(t) /\ OwnCallLast(t, g)
    BY <2>11, <2>13, <2>18, <2>19, <2>20, <2>21, CallStarted
  <2>23. a.st = t /\ a.out = e.out  BY <2>8, <2>9, <2>21 DEF Goes
  <2> QED BY <2>14, <2>22, <2>23
<1> QED BY <1>8, <1>9, <1>10

-----------------------------------------------------------------------------
(* What became of the call a delta was read into.                           *)
Extended(c, d) == [Named(c, d) EXCEPT !.args = @ \o d.frag]
ReadInto(s, d, a, r, p, c) ==
    /\ p \in 1..Len(a.st.calls) /\ OpenAIOK(r.st) /\ r.st.limit = s.limit /\ r.st.latest = p
    /\ Len(r.st.calls) = Len(a.st.calls)
    /\ \A q \in 1..Len(a.st.calls) : q # p => r.st.calls[q] = a.st.calls[q]
    /\ \/ /\ r.halt = TRUE /\ r.out = Append(a.out, BareError)
          /\ r.st.calls[p] = Named(c, d) /\ r.st.pending = a.st.pending
       \/ /\ r.halt = FALSE /\ r.out = a.out
          /\ r.st.calls[p] = Extended(c, d)
          /\ r.st.pending = a.st.pending + Len(d.frag)
          /\ d.frag = <<>> \/ r.st.pending <= s.limit

LEMMA DeltaRead ==
  ASSUME NEW s, OpenAIOK(s), NEW d \in DeltaSet, NEW a, a = Addressed(s, d), NEW r, r = OnToolDelta(s, d),
         NEW p, p = a.st.latest, p # 0, NEW c, c = a.st.calls[p]
  PROVE  ReadInto(s, d, a, r, p, c)
<1> DEFINE A == Addressed(s, d)
           R == OnToolDelta(s, d)
           P == A.st.latest
           N == Named(A.st.calls[P], d)
<1>1. \/ P = 0 /\ R = A
      \/ /\ P \in 1..Len(A.st.calls)
         /\ OpenAIOK(R.st) /\ R.st.limit = s.limit /\ R.st.latest = P
         /\ R.st.finish = s.finish /\ R.st.sawDone = s.sawDone
         /\ Len(R.st.calls) = Len(A.st.calls)
         /\ \A q \in 1..Len(A.st.calls) : q # P => R.st.calls[q] = A.st.calls[q]
         /\ \/ /\ R.halt = TRUE /\ R.out = Append(A.out, BareError)
               /\ R.st.calls[P] = N /\ R.st.pending = A.st.pending
            \/ /\ R.halt = FALSE /\ R.out = A.out
               /\ R.st.calls[P] = [N EXCEPT !.args = @ \o d.frag]
               /\ R.st.pending = A.st.pending + Len(d.frag)
               /\ d.frag = <<>> \/ R.st.pending <= s.limit
  BY ToolDeltaIs, Zenon
<1>2. [N EXCEPT !.args = @ \o d.frag] = Extended(A.st.calls[P], d)  BY DEF Extended
<1>3. A = a /\ R = r /\ P = p /\ N = Named(c, d)  OBVIOUS
<1>4. A.st.calls[P] = c  OBVIOUS
<1> DEFINE E == [N EXCEPT !.args = @ \o d.frag]
<1> HIDE DEF E
<1>5. E = Extended(c, d)  BY <1>2, <1>4 DEF E
<1> HIDE DEF A, R, P, N
<1>6. /\ p \in 1..Len(a.st.calls)
      /\ OpenAIOK(r.st) /\ r.st.limit = s.limit /\ r.st.latest = p
      /\ Len(r.st.calls) = Len(a.st.calls)
      /\ \A q \in 1..Len(a.st.calls) : q # p => r.st.calls[q] = a.st.calls[q]
      /\ \/ /\ r.halt = TRUE /\ r.out = Append(a.out, BareError)
            /\ r.st.calls[p] = N /\ r.st.pending = a.st.pending
         \/ /\ r.halt = FALSE /\ r.out = a.out
            /\ r.st.calls[p] = E
            /\ r.st.pending = a.st.pending + Len(d.frag)
            /\ d.frag = <<>> \/ r.st.pending <= s.limit
  BY <1>1, <1>3, Zenon DEF E
<1> QED BY <1>3, <1>5, <1>6, Zenon DEF ReadInto

LEMMA OneMoreIs ==
  ASSUME NEW z, IsSeq(z), NEW f, IsSeq(f), Len(f) = 1 PROVE (z \o f)[Len(z) + 1] = f[1]
<1>1. \A k \in 1..Len(f) : (z \o f)[Len(z) + k] = f[k]  BY ConcatSeq
<1>2. 1 \in 1..Len(f)  OBVIOUS
<1> QED BY <1>1, <1>2

(* The call itself: named already, and one fragment longer.                 *)
LEMMA CallExtended ==
  ASSUME SettingOK, SentOK, provider = "openai", NEW g \in Tools, NEW c \in CallSet, c.id = BlockIDs[g],
         c.index = Number(g), c.args = First(BlockIDs[g], sent[g]),
         NEW k, k = sent[g] + 1, NEW d, d = OpenAIDelta(g, k)
  PROVE  /\ Named(c, d) = c /\ Len(d.frag) = 1 /\ d.frag # <<>>
         /\ Extended(c, d).id = c.id /\ Extended(c, d).index = c.index /\ Extended(c, d).emitted = c.emitted
         /\ Extended(c, d).args = First(BlockIDs[g], sent[g] + 1)
<1>1. g \in Groups /\ g \in DOMAIN reply.kinds  BY ToolDeltaLines
<1>2. c.id # "none" /\ sent[g] \in Nat  BY <1>1, IDsAre DEF SentOK
<1>3. Named(c, d) = c  BY <1>2 DEF Named, CallSet
<1>4. PICK x : x = <<BlockIDs[g], k>>  OBVIOUS
<1>5. PICK f : f = <<x>>  OBVIOUS
<1>6. d.frag = f  BY <1>4, <1>5 DEF OpenAIDelta
<1>7. IsSeq(f) /\ Len(f) = 1 /\ f[1] = x  BY <1>5, OneSeq
<1>8. PICK e : e = [c EXCEPT !.args = @ \o f]  OBVIOUS
<1>9. Extended(c, d) = e  BY <1>3, <1>6, <1>8 DEF Extended
<1>10. e.id = c.id /\ e.index = c.index /\ e.emitted = c.emitted /\ e.args = c.args \o f
  BY <1>8 DEF CallSet
<1>11. c.args \o f = First(BlockIDs[g], sent[g] + 1)
  <2>1. PICK z : z = First(BlockIDs[g], sent[g])  OBVIOUS
  <2>2. IsSeq(z)  BY <1>2, <2>1, FirstIs
  <2>3. PICK y : y = Append(z, x)  OBVIOUS
  <2>4. IsSeq(y) /\ Len(y) = Len(z) + 1 /\ (\A i \in 1..Len(z) : y[i] = z[i]) /\ y[Len(z) + 1] = x
    BY <2>2, <2>3, AppendSeq
  <2>5. PICK w : w = z \o f  OBVIOUS
  <2>6. IsSeq(w) /\ Len(w) = Len(z) + 1 /\ (\A i \in 1..Len(z) : w[i] = z[i]) /\ w[Len(z) + 1] = x
    <3>1. IsSeq(z \o f) /\ Len(z \o f) = Len(z) + Len(f)  BY <1>7, <2>2, ConcatSeq
    <3>2. \A i \in 1..Len(z) : (z \o f)[i] = z[i]  BY <1>7, <2>2, ConcatSeq
    <3>3. (z \o f)[Len(z) + 1] = f[1]  BY <1>7, <2>2, OneMoreIs
    <3> QED BY <1>7, <2>5, <3>1, <3>2, <3>3
  <2>7. Len(z) \in Nat  BY <2>2, OwnSeq
  <2>8. \A i \in 1..(Len(z) + 1) : i \in 1..Len(z) \/ i = Len(z) + 1  BY <2>7
  <2>9. \A i \in 1..Len(w) : w[i] = y[i]  BY <2>4, <2>6, <2>8
  <2>10. w = y  BY <2>4, <2>6, <2>9, SameSeq
  <2>11. Append(First(BlockIDs[g], sent[g]), <<BlockIDs[g], sent[g] + 1>>) = First(BlockIDs[g], sent[g] + 1)
    BY <1>2, FirstIs
  <2> QED BY <1>4, <2>1, <2>3, <2>5, <2>10, <2>11
<1>12. f # <<>>
  <2>1. Len(<<>>) = 0  OBVIOUS
  <2>2. Len(f) # 0  BY <1>7
  <2> QED BY <2>1, <2>2
<1> QED BY <1>3, <1>6, <1>7, <1>9, <1>10, <1>11, <1>12

-----------------------------------------------------------------------------
(* OpenAI: the state after a delta of block g was read into its call.       *)
LEMMA DeltaCounts ==
  ASSUME NEW b, OpenAIOK(b), OpenAICounts(b), NEW t, OpenAIOK(t), t.limit = b.limit, NEW p, p \in 1..Len(b.calls),
         Len(t.calls) = Len(b.calls), \A q \in 1..Len(b.calls) : q # p => t.calls[q] = b.calls[q],
         ~ b.calls[p].emitted, ~ t.calls[p].emitted, NEW k, k = Len(b.calls[p].args) + 1, Len(t.calls[p].args) = k,
         t.pending = b.pending + 1, t.pending <= t.limit
  PROVE  OpenAICounts(t)
<1>1. PICK L : L = Unemitted(b.calls)  OBVIOUS
<1>2. PICK M : M = Unemitted(t.calls)  OBVIOUS
<1>3. \A q : q \in L <=> q \in 1..Len(b.calls) /\ ~ b.calls[q].emitted  BY <1>1, UnemittedIs
<1>4. \A q : q \in M <=> q \in 1..Len(b.calls) /\ ~ t.calls[q].emitted  BY <1>2, UnemittedIs
<1>5. \A q : q \in M <=> q \in L  BY <1>3, <1>4
<1>6. M = L  BY <1>5
<1>7. PICK x : x = p  OBVIOUS
<1>8. PICK cs : cs = b.calls  OBVIOUS
<1>9. PICK ds : ds = t.calls  OBVIOUS
<1>10. x \in L  BY <1>3, <1>7
<1>11. \A q \in L : q # x => DOMAIN ds[q].args = DOMAIN cs[q].args  BY <1>3, <1>7, <1>8, <1>9
<1>12. PICK n : n = Len(cs[x].args)  OBVIOUS
<1>13. cs[x] \in CallSet /\ ds[x] \in CallSet  BY <1>7, <1>8, <1>9, CallsAre
<1>14. n \in Nat /\ DOMAIN cs[x].args = 1..n /\ DOMAIN ds[x].args = 1..(n + 1)
  <2>1. cs[x].args \in Seq(ArgFrags) /\ ds[x].args \in Seq(ArgFrags)  BY <1>13, CallTypes
  <2>2. Len(ds[x].args) = n + 1  BY <1>7, <1>8, <1>9, <1>12
  <2>3. n \in Nat /\ DOMAIN cs[x].args = 1..n  BY <1>12, <2>1
  <2> QED BY <2>1, <2>2, <2>3
<1>15. 1..(n + 1) = (1..n) \cup {n + 1} /\ n + 1 \notin 1..n  BY <1>14
<1>16. PICK y : y = n + 1  OBVIOUS
<1>17. y \notin DOMAIN cs[x].args /\ DOMAIN ds[x].args = DOMAIN cs[x].args \cup {y}  BY <1>14, <1>15, <1>16
<1>18. Fragments(ds, L) = Fragments(cs, L) \cup {<<x, y>>} /\ <<x, y>> \notin Fragments(cs, L)
  <2>1. OneMore(cs, ds, L, x, y)  BY ONLY <1>10, <1>11, <1>17 DEF OneMore
  <2> QED BY ONLY <2>1, OneFragmentMore
<1>19. PICK F : F = Fragments(cs, L)  OBVIOUS
<1>20. PICK z : z = <<x, y>>  OBVIOUS
<1>21. Counted(b, F)  BY <1>1, <1>8, <1>19 DEF OpenAICounts
<1>22. Counted(t, F \cup {z})  BY <1>18, <1>19, <1>20, <1>21, CountedMore
<1> QED BY <1>2, <1>6, <1>9, <1>18, <1>19, <1>20, <1>22 DEF OpenAICounts

LEMMA HaltCounts ==
  ASSUME NEW b, OpenAIOK(b), OpenAICounts(b), NEW t, OpenAIOK(t), t.limit = b.limit, t.pending = b.pending,
         Len(t.calls) = Len(b.calls), \A q \in 1..Len(b.calls) : t.calls[q] = b.calls[q]
  PROVE  OpenAICounts(t)
<1>1. PICK cs : cs = b.calls  OBVIOUS
<1>2. PICK ds : ds = t.calls  OBVIOUS
<1>3. ds = cs
  <2>1. cs \in Seq(CallSet) /\ ds \in Seq(CallSet)  BY <1>1, <1>2 DEF OpenAIOK, OpenAISet
  <2>2. Len(ds) = Len(cs) /\ \A q \in 1..Len(cs) : ds[q] = cs[q]  BY <1>1, <1>2
  <2> QED BY <2>1, <2>2, SeqEqual
<1> QED BY <1>1, <1>2, <1>3 DEF OpenAICounts, Counted

LEMMA DeltaFits ==
  ASSUME SettingOK, SentOK, OrderOK, UNCHANGED setting, provider = "openai", NEW g \in Tools, Ready(g),
         sent' = [sent EXCEPT ![g] = @ + 1], NEW b, OpenAIOK(b), OwnCallLast(b, g), NEW t, OpenAIOK(t),
         t.latest = b.latest, Len(t.calls) = Len(b.calls),
         \A q \in 1..Len(b.calls) : q # b.latest => t.calls[q] = b.calls[q],
         t.calls[b.latest].id = BlockIDs[g], t.calls[b.latest].index = Number(g), ~ t.calls[b.latest].emitted,
         t.calls[b.latest].args = First(BlockIDs[g], sent[g] + 1), adapter' = t
  PROVE  OpenAIFit(adapter)'
<1>1. PICK p : p = b.latest  OBVIOUS
<1>2. PICK n : n = Len(b.calls)  OBVIOUS
<1>3. g \in Groups /\ g \in DOMAIN reply.kinds  BY ToolDeltaLines
<1>4. /\ sent'[g] = sent[g] + 1 /\ sent[g] \in Nat
      /\ \A h \in Groups : h # g => sent'[h] = sent[h] /\ (InProgress(h)' <=> InProgress(h))
  BY <1>3, SendFacts
<1>5. reply' = reply /\ quirk' = quirk /\ provider' = provider  BY SettingStays
<1>6. Tools' = Tools /\ \A x : Number(x)' = Number(x)  BY <1>5 DEF Tools, Number
<1>7. \A x \in Tools : x \in Groups  BY ToolDeltaLines
<1>8. p \in 1..n /\ Len(t.calls) = n /\ t.latest = p /\ \A q \in 1..n : q # p => t.calls[q] = b.calls[q]
  BY <1>1, <1>2 DEF OwnCallLast
<1>9. t.calls[p].id = BlockIDs[g] /\ t.calls[p].index = Number(g) /\ ~ t.calls[p].emitted
      /\ t.calls[p].args = First(BlockIDs[g], sent[g] + 1)
  BY <1>1
<1>10. b.calls[p].id = BlockIDs[g] /\ b.calls[p].index = Number(g)
       /\ \A q \in 1..n : q # p => \E d \in Tools : d # g /\ CallOf(b.calls[q], d)
  BY <1>1, <1>2 DEF OwnCallLast
<1>11. \A q \in 1..n : t.calls[q].id = b.calls[q].id /\ t.calls[q].index = b.calls[q].index
  BY <1>8, <1>9, <1>10
<1>12. \A q \in 1..n : \E d \in Tools : CallOf(t.calls[q], d)'
  <2> SUFFICES ASSUME NEW q \in 1..n PROVE \E d \in Tools : CallOf(t.calls[q], d)'  OBVIOUS
  <2>1. CASE q = p
    <3>1. sent'[g] > 0  BY <1>4
    <3>2. CallOf(t.calls[q], g)'  BY <1>4, <1>6, <1>9, <2>1, <3>1 DEF CallOf
    <3> QED BY <3>2
  <2>2. CASE q # p
    <3>1. PICK d \in Tools : d # g /\ CallOf(b.calls[q], d)  BY <1>10, <2>2
    <3>2. sent'[d] = sent[d]  BY <1>4, <1>7, <3>1
    <3>3. CallOf(t.calls[q], d)'  BY <1>6, <1>8, <2>2, <3>1, <3>2 DEF CallOf
    <3> QED BY <3>3
  <2> QED BY <2>1, <2>2
<1>13. \A q, r \in 1..n : q # r => t.calls[q].id # t.calls[r].id
  <2>1. DistinctIDs(b)  BY DEF OwnCallLast
  <2> QED BY <1>2, <1>11, <2>1 DEF DistinctIDs
<1>14. \A i : CallAt(t, i) = CallAt(b, i)
  <2> SUFFICES ASSUME NEW i PROVE CallAt(t, i) = CallAt(b, i)  OBVIOUS
  <2>1. Len(t.calls) = Len(b.calls) /\ \A q \in 1..Len(b.calls) : t.calls[q].index = b.calls[q].index
    BY <1>2, <1>8, <1>11
  <2> QED BY <2>1, SameCallAt
<1>15. \A d \in Tools : InProgress(d)' =>
           NextCall(t, d)' \in 1..n /\ t.calls[NextCall(t, d)'].id = BlockIDs[d] /\ ~ t.calls[NextCall(t, d)'].emitted
  <2> SUFFICES ASSUME NEW d \in Tools, InProgress(d)'
               PROVE  \E x : x = NextCall(t, d)' /\ x \in 1..n /\ t.calls[x].id = BlockIDs[d] /\ ~ t.calls[x].emitted
    OBVIOUS
  <2>1. NextCall(t, d)' = IF quirk = "noindex" THEN p ELSE CallAt(b, Number(d))
    <3>1. CallAt(t, Number(d))' = CallAt(t, Number(d))  BY <1>6 DEF CallAt
    <3> QED BY <1>5, <1>6, <1>8, <1>14, <3>1 DEF NextCall
  <2>2. CASE d = g
    <3>1. NextCall(t, d)' = p
      <4>1. CASE quirk = "noindex"  BY <2>1, <4>1
      <4>2. CASE quirk # "noindex"
        <5>1. \A q \in 1..n : b.calls[q].index = Number(g) => q <= p
          BY <1>1, <1>2, <4>2 DEF OwnCallLast
        <5>2. PICK x : x = CallAt(b, Number(g))  OBVIOUS
        <5>3. \/ x = 0 /\ \A q \in 1..n : b.calls[q].index # Number(g)
              \/ x \in 1..n /\ b.calls[x].index = Number(g) /\ \A q \in 1..n : b.calls[q].index = Number(g) => q <= x
          BY <1>2, <5>2, CallAtIs
        <5>4. n \in Nat  BY <1>2, CallsAre
        <5>5. x = p  BY <1>8, <1>10, <5>1, <5>3, <5>4
        <5> QED BY <2>1, <2>2, <4>2, <5>2, <5>5
      <4> QED BY <4>1, <4>2
    <3> QED BY <1>8, <1>9, <2>2, <3>1
  <2>3. CASE d # g
    <3>1. InProgress(d)  BY <1>4, <1>7, <2>3
    <3>2. OtherCall(b, d)  BY <2>3, <3>1 DEF OwnCallLast, OtherCalls
    <3>3. PICK x : x = CallAt(b, Number(d))  OBVIOUS
    <3>4. quirk = "none" /\ x \in 1..n /\ b.calls[x].id = BlockIDs[d] /\ ~ b.calls[x].emitted
      BY <1>2, <3>2, <3>3 DEF OtherCall
    <3>5. BlockIDs[d] # BlockIDs[g]  BY <2>3, IDsDiffer DEF Tools
    <3>6. x # p  BY <1>10, <3>4, <3>5
    <3>7. t.calls[x] = b.calls[x]  BY <1>8, <3>4, <3>6
    <3> QED BY <2>1, <3>3, <3>4, <3>7
  <2> QED BY <2>2, <2>3
<1> QED
  <2>1. \A q \in 1..Len(t.calls) : \E d \in Tools' : CallOf(t.calls[q], d)'  BY <1>6, <1>8, <1>12
  <2>2. \A q, r \in 1..Len(t.calls) : q # r => t.calls[q].id # t.calls[r].id  BY <1>8, <1>13
  <2>3. \A d \in Tools' : InProgress(d)' =>
           NextCall(t, d)' \in 1..Len(t.calls) /\ t.calls[NextCall(t, d)'].id = BlockIDs[d] /\ ~ t.calls[NextCall(t, d)'].emitted
    BY <1>6, <1>8, <1>15
  <2> QED BY <2>1, <2>2, <2>3 DEF OpenAIFit

-----------------------------------------------------------------------------
(* OpenAI: the lines of a reply.                                            *)
LEMMA ToldSame ==
  ASSUME NEW s, OpenAIOK(s), OpenAICounts(s), OpenAIFit(s), NEW l, NEW u, u = Told(s, l)
  PROVE  OpenAIOK(u) /\ OpenAICounts(u) /\ OpenAIFit(u) /\ u.calls = s.calls /\ u.limit = s.limit
<1>1. OpenAIOK(u) /\ u.calls = s.calls /\ u.pending = s.pending /\ u.latest = s.latest /\ u.limit = s.limit
  BY ToldIs
<1>2. OpenAICounts(u)  BY <1>1 DEF OpenAICounts, Counted
<1>3. \A b : NextCall(u, b) = NextCall(s, b)
  <2>1. \A i : CallAt(u, i) = CallAt(s, i)  BY <1>1 DEF CallAt
  <2> QED BY <1>1, <2>1, NextIs
<1>4. Called(s) /\ DistinctIDs(s)
      /\ \A b \in Tools : InProgress(b) => /\ NextCall(s, b) \in 1..Len(s.calls)
                                           /\ s.calls[NextCall(s, b)].id = BlockIDs[b]
                                           /\ ~ s.calls[NextCall(s, b)].emitted
  BY FitIs
<1>5. PICK cs : cs = s.calls  OBVIOUS
<1>6. u.calls = cs  BY <1>1, <1>5
<1>7. OpenAIFit(u)  BY ONLY <1>3, <1>4, <1>5, <1>6 DEF OpenAIFit, Called, DistinctIDs
<1> QED BY <1>1, <1>2, <1>7

LEMMA SaidOK ==
  ASSUME NEW l, IsChunk(l) PROVE EventsOK(Said(l)) /\ IsSeq(Said(l))
<1>1. Plain(Said(l)) /\ \A e \in Range(Said(l)) : e.type \in {"content", "thinking"}
  BY SaidIsPlain DEF IsChunk
<1>2. \A e \in Range(Said(l)) : e.type # "tool_use"  BY <1>1
<1> QED BY <1>1, <1>2, EventsPlain DEF Plain

LEMMA FitElsewhere ==
  ASSUME SettingOK, SentOK, OrderOK, UNCHANGED setting, provider = "openai", NEW g \in Groups, Ready(g), g \notin Tools,
         sent' = [sent EXCEPT ![g] = @ + 1], NEW t, OpenAIFit(t), adapter' = t
  PROVE  OpenAIFit(adapter)'
<1>1. \A h \in Groups : h # g => sent'[h] = sent[h] /\ (InProgress(h)' <=> InProgress(h))  BY SendFacts
<1>2. \A b \in Tools : sent'[b] = sent[b] /\ (InProgress(b)' <=> InProgress(b))  BY <1>1, ToolDeltaLines
<1>3. reply' = reply /\ quirk' = quirk  BY SettingStays
<1>4. Tools' = Tools /\ \A x : Number(x)' = Number(x)  BY <1>3 DEF Tools, Number
<1>5. \A c : \A b \in Tools : CallOf(c, b) => CallOf(c, b)'  BY <1>2, <1>4 DEF CallOf
<1>6. \A b : NextCall(t, b)' = NextCall(t, b)
  <2>1. \A b : CallAt(t, Number(b))' = CallAt(t, Number(b))  BY <1>4 DEF CallAt
  <2> QED BY <1>3, <2>1 DEF NextCall
<1>7. Called(t) /\ DistinctIDs(t)
      /\ \A b \in Tools : InProgress(b) => /\ NextCall(t, b) \in 1..Len(t.calls)
                                           /\ t.calls[NextCall(t, b)].id = BlockIDs[b]
                                           /\ ~ t.calls[NextCall(t, b)].emitted
  BY FitIs
<1>8. \A p \in 1..Len(t.calls) : \E b \in Tools' : CallOf(t.calls[p], b)'  BY <1>4, <1>5, <1>7 DEF Called
<1>9. \A p, q \in 1..Len(t.calls) : p # q => t.calls[p].id # t.calls[q].id  BY <1>7 DEF DistinctIDs
<1>10. \A b \in Tools' : InProgress(b)' => NextCall(t, b)' \in 1..Len(t.calls)
                           /\ t.calls[NextCall(t, b)'].id = BlockIDs[b] /\ ~ t.calls[NextCall(t, b)'].emitted
  BY <1>2, <1>4, <1>6, <1>7
<1> QED BY <1>8, <1>9, <1>10 DEF OpenAIFit

(* A line without a delta: what is said is passed on.                       *)
LEMMA QuietChunk ==
  ASSUME NEW s, OpenAIOK(s), NEW l, IsChunk(l), l.calls = <<>>, NEW r, r = ReadOf(s, l)
  PROVE  r = Goes(Told(s, l), Said(l))
<1>1. Len(<<>>) = 0  BY NoneSeq
<1>2. Len(l.calls) # 1  BY <1>1
<1> QED BY <1>2, ReadOfIs

LEMMA LastIsDone ==
  ASSUME SettingOK, provider = "openai", NEW g \in Groups, g = Len(reply.kinds) + 1, Ready(g)
  PROVE  g \notin Tools /\ \A b \in Tools : Sent(b) /\ b # g
<1>1. PICK n \in Nat : n = Len(reply.kinds) /\ DOMAIN reply.kinds = 1..n  BY SettingIs
<1>2. g \notin DOMAIN reply.kinds /\ \A b \in Tools : b \in DOMAIN reply.kinds /\ b \in 0..(g - 1)
  BY <1>1 DEF Tools
<1>3. \A b \in Tools : ~ Interleaves(b, g)  BY <1>2 DEF Interleaves
<1>4. \A b \in Tools : Sent(b)  BY <1>2, <1>3 DEF Ready
<1> QED BY <1>2, <1>4

LEMMA NoneFits ==
  ASSUME SettingOK, SentOK, OrderOK, UNCHANGED setting, provider = "openai", NEW g \in Groups,
         g = Len(reply.kinds) + 1, Ready(g), sent' = [sent EXCEPT ![g] = @ + 1],
         NEW t, t.calls = <<>>, adapter' = t
  PROVE  OpenAIFit(adapter)'
<1>1. \A h \in Groups : h # g => InProgress(h)' <=> InProgress(h)  BY SendFacts
<1>2. \A b \in Tools : ~ InProgress(b)'  BY <1>1, LastIsDone, ToolDeltaLines DEF InProgress
<1>3. Tools' = Tools  BY SettingStays DEF Tools
<1>4. PICK cs : cs = t.calls  OBVIOUS
<1>5. Len(cs) = 0  BY <1>4
<1> QED BY <1>2, <1>3, <1>4, <1>5 DEF OpenAIFit

-----------------------------------------------------------------------------
LEMMA AddressedFor ==
  ASSUME SettingOK, SentOK, OrderOK, UNCHANGED setting, provider = "openai", NEW g \in Tools, Ready(g),
         sent' = [sent EXCEPT ![g] = @ + 1], NEW s, OpenAIOK(s), OpenAIFit(s), OpenAICounts(s),
         NEW d, d = OpenAIDelta(g, sent[g] + 1), NEW a, a = Addressed(s, d)
  PROVE  /\ OpenAIOK(a.st) /\ OpenAICounts(a.st) /\ OwnCallLast(a.st, g) /\ EventsOK(a.out) /\ IsSeq(a.out)
         /\ d \in DeltaSet
<1>1. g \in Groups /\ g \in DOMAIN reply.kinds  BY ToolDeltaLines
<1>2. sent[g] \in Nat  BY <1>1 DEF SentOK
<1>3. d.index = Number(g) /\ d.id = (IF sent[g] + 1 = 1 THEN BlockIDs[g] ELSE "none")  BY DEF OpenAIDelta
<1>4. d \in DeltaSet
  <2>1. sent[g] + 1 \in Nat  BY <1>2
  <2> QED BY <1>1, <2>1, OpenAIDeltaSet
<1>5. CASE sent[g] = 0
  <2>1. d.id = BlockIDs[g]  BY <1>3, <1>5
  <2> QED BY <1>3, <1>4, <1>5, <2>1, CallBegun
<1>6. CASE sent[g] # 0
  <2>1. d.id = "none"  BY <1>2, <1>3, <1>6
  <2>2. OpenAIOK(a.st) /\ OpenAICounts(a.st) /\ OwnCallLast(a.st, g) /\ a.out = <<>>
    BY <1>3, <1>4, <1>6, <2>1, CallContinued
  <2> QED BY <1>4, <2>2, EventsNone, NoneSeq
<1> QED BY <1>5, <1>6

(* A delta is appended to its block's own call, or breaks the bound.        *)
LEMMA DeltaReads ==
  ASSUME SettingOK, SentOK, OrderOK, UNCHANGED setting, provider = "openai", NEW g \in Tools, Ready(g),
         sent' = [sent EXCEPT ![g] = @ + 1], NEW s, OpenAIOK(s), OpenAIFit(s), OpenAICounts(s),
         NEW d, d = OpenAIDelta(g, sent[g] + 1), NEW r, r = OnToolDelta(s, d), adapter' = r.st
  PROVE  OpenAICounts(r.st) /\ EventsOK(r.out) /\ IsSeq(r.out) /\ (~ r.halt => OpenAIFit(adapter)')
<1>1. PICK a : a = Addressed(s, d)  OBVIOUS
<1>2. /\ OpenAIOK(a.st) /\ OpenAICounts(a.st) /\ OwnCallLast(a.st, g) /\ EventsOK(a.out) /\ IsSeq(a.out)
      /\ d \in DeltaSet
  BY <1>1, AddressedFor
<1>3. a.st.limit = s.limit  BY <1>1, <1>2, AddressedOK
<1>4. PICK b : b = a.st  OBVIOUS
<1>5. PICK p : p = b.latest  OBVIOUS
<1>6. PICK c : c = b.calls[p]  OBVIOUS
<1>7. p \in 1..Len(b.calls) /\ c.id = BlockIDs[g] /\ c.index = Number(g) /\ ~ c.emitted
      /\ (CallOf(c, g) \/ (sent[g] = 0 /\ c.args = <<>>))
  BY <1>2, <1>4, <1>5, <1>6 DEF OwnCallLast
<1>8. OpenAIOK(b) /\ OpenAICounts(b) /\ OwnCallLast(b, g)  BY <1>2, <1>4
<1>9. c \in CallSet  BY <1>6, <1>7, <1>8, CallsAre
<1>10. p # 0  BY <1>7
<1>11. ReadInto(s, d, a, r, p, c)  BY <1>1, <1>2, <1>4, <1>5, <1>6, <1>10, DeltaRead
<1>12. PICK t : t = r.st  OBVIOUS
<1>13. /\ OpenAIOK(t) /\ t.limit = b.limit /\ t.latest = p /\ Len(t.calls) = Len(b.calls)
       /\ \A q \in 1..Len(b.calls) : q # p => t.calls[q] = b.calls[q]
  BY <1>3, <1>4, <1>11, <1>12 DEF ReadInto
<1>14. g \in Groups  BY ToolDeltaLines
<1>15. sent[g] \in Nat  BY <1>14 DEF SentOK
<1>16. c.args = First(BlockIDs[g], sent[g])
  <2>1. CASE CallOf(c, g)  BY <2>1 DEF CallOf
  <2>2. CASE sent[g] = 0 /\ c.args = <<>>  BY <2>2, FirstIs
  <2> QED BY <1>7, <2>1, <2>2
<1>17. /\ Named(c, d) = c /\ Len(d.frag) = 1 /\ d.frag # <<>>
       /\ Extended(c, d).id = c.id /\ Extended(c, d).index = c.index /\ Extended(c, d).emitted = c.emitted
       /\ Extended(c, d).args = First(BlockIDs[g], sent[g] + 1)
  BY <1>7, <1>9, <1>16, CallExtended
<1>18. CASE r.halt = TRUE /\ r.out = Append(a.out, BareError) /\ t.calls[p] = Named(c, d) /\ t.pending = b.pending
  <2>1. \A q \in 1..Len(b.calls) : t.calls[q] = b.calls[q]  BY <1>6, <1>13, <1>17, <1>18
  <2>2. OpenAICounts(t)  BY <1>8, <1>13, <1>18, <2>1, HaltCounts
  <2>3. PICK e : e = BareError  OBVIOUS
  <2>4. e.type # "tool_use"  BY <2>3, EventTypes
  <2>5. EventsOK(Append(a.out, e)) /\ IsSeq(Append(a.out, e))  BY <1>2, <2>4, EventsAppend, AppendSeq
  <2> QED BY <1>12, <1>18, <2>2, <2>3, <2>5
<1>19. CASE r.halt = FALSE /\ r.out = a.out /\ t.calls[p] = Extended(c, d) /\ t.pending = b.pending + 1
            /\ t.pending <= t.limit
  <2>1. PICK z : z = t.calls[p]  OBVIOUS
  <2>2. z.id = BlockIDs[g] /\ z.index = Number(g) /\ z.emitted = c.emitted /\ z.args = First(BlockIDs[g], sent[g] + 1)
    BY <1>7, <1>17, <1>19, <2>1
  <2>3. ~ z.emitted  BY <1>7, <2>2
  <2>4. OpenAICounts(t)
    <3>1. Len(c.args) = sent[g]  BY <1>15, <1>16, FirstIs
    <3>2. sent[g] + 1 \in Nat  BY <1>15
    <3>3. Len(z.args) = sent[g] + 1  BY <2>2, <3>2, FirstIs
    <3>4. PICK k : k = sent[g] + 1  OBVIOUS
    <3>5. k = Len(b.calls[p].args) + 1 /\ Len(t.calls[p].args) = k  BY <1>6, <2>1, <3>1, <3>3, <3>4
    <3>6. ~ b.calls[p].emitted /\ ~ t.calls[p].emitted  BY <1>6, <1>7, <2>1, <2>3
    <3>7. t.limit = b.limit /\ t.pending = b.pending + 1 /\ t.pending <= t.limit  BY <1>13, <1>19
    <3> QED BY ONLY <1>7, <1>8, <1>13, <3>5, <3>6, <3>7, DeltaCounts
  <2>5. OpenAIFit(adapter)'
    <3>1. t.latest = b.latest /\ \A q \in 1..Len(b.calls) : q # b.latest => t.calls[q] = b.calls[q]  BY <1>5, <1>13
    <3>2. t.calls[b.latest] = z  BY <1>5, <2>1
    <3>3. adapter' = t  BY <1>12
    <3> QED BY <1>8, <1>13, <2>2, <2>3, <3>1, <3>2, <3>3, DeltaFits
  <2> QED BY <1>2, <1>12, <1>19, <2>4, <2>5
<1> QED
  <2>1. \/ /\ r.halt = TRUE /\ r.out = Append(a.out, BareError)
           /\ t.calls[p] = Named(c, d) /\ t.pending = b.pending
        \/ /\ r.halt = FALSE /\ r.out = a.out
           /\ t.calls[p] = Extended(c, d)
           /\ t.pending = b.pending + Len(d.frag)
           /\ d.frag = <<>> \/ t.pending <= s.limit
    BY <1>4, <1>11, <1>12 DEF ReadInto
  <2>2. t.limit = s.limit  BY <1>3, <1>4, <1>13
  <2> QED BY <1>17, <1>18, <1>19, <2>1, <2>2

-----------------------------------------------------------------------------
(* A line of the reply read by the Chat Completions adapter.                *)
LEMMA OpenAICallReads ==
  ASSUME SettingOK, SentOK, OrderOK, UNCHANGED setting, provider = "openai", OpenAIOK(adapter), OpenAICounts(adapter),
         OpenAIFit(adapter), NEW g \in Tools, Ready(g), sent' = [sent EXCEPT ![g] = @ + 1],
         NEW r, r = OpenAILine(adapter, LinesOf(g)[sent[g] + 1]), adapter' = r.st
  PROVE  OpenAICounts(r.st) /\ EventsOK(r.out) /\ (~ r.halt => OpenAIFit(adapter)')
<1>1. ToolDeltas(g) /\ g \in Groups  BY ToolDeltaLines
<1>2. sent[g] + 1 \in 1..Len(LinesOf(g))  BY <1>1, SendFacts
<1>3. PICK l : l = LinesOf(g)[sent[g] + 1]  OBVIOUS
<1>4. PICK d : d = OpenAIDelta(g, sent[g] + 1)  OBVIOUS
<1>5. IsChunk(l) /\ l.finish = "none" /\ Len(l.calls) = 1 /\ l.calls[1] = d
  BY <1>1, <1>2, <1>3, <1>4 DEF ToolDeltas
<1>6. r = OnChunk(adapter, l)  BY <1>3, <1>5 DEF OpenAILine, IsChunk
<1>7. r = ReadOf(adapter, l)  BY <1>5, <1>6, ChunkIs
<1>8. PICK u : u = Told(adapter, l)  OBVIOUS
<1>9. PICK s : s = adapter  OBVIOUS
<1>10. OpenAIOK(s) /\ OpenAICounts(s) /\ OpenAIFit(s) /\ u = Told(s, l)  BY <1>8, <1>9
<1>11. OpenAIOK(u) /\ OpenAICounts(u) /\ OpenAIFit(u)  BY <1>10, ToldSame
<1>12. PICK t : t = OnToolDelta(u, d)  OBVIOUS
<1>13. l.calls # <<>>
  <2>1. Len(<<>>) = 0  BY NoneSeq
  <2> QED BY <1>5, <2>1
<1>14. r.st = t.st /\ r.halt = t.halt /\ r.out = Said(l) \o t.out
  <2>1. /\ ReadOf(s, l).st = OnToolDelta(Told(s, l), l.calls[1]).st
        /\ ReadOf(s, l).halt = OnToolDelta(Told(s, l), l.calls[1]).halt
        /\ ReadOf(s, l).out = Said(l) \o OnToolDelta(Told(s, l), l.calls[1]).out
    BY <1>5, <1>10, <1>13, ReadOfIs
  <2> QED BY <1>5, <1>7, <1>9, <1>10, <1>12, <2>1
<1>15. OpenAICounts(t.st) /\ EventsOK(t.out) /\ IsSeq(t.out) /\ (~ t.halt => OpenAIFit(adapter)')
  <2>1. adapter' = t.st  BY <1>14
  <2> QED BY <1>4, <1>11, <1>12, <2>1, DeltaReads
<1>16. EventsOK(Said(l)) /\ IsSeq(Said(l))  BY <1>5, SaidOK
<1>17. EventsOK(Said(l) \o t.out)  BY <1>15, <1>16, EventsConcat
<1> QED BY <1>14, <1>15, <1>17

LEMMA OpenAISaidReads ==
  ASSUME SettingOK, SentOK, OrderOK, UNCHANGED setting, provider = "openai", OpenAIOK(adapter), OpenAICounts(adapter),
         OpenAIFit(adapter), NEW g \in Groups, Ready(g), g \notin Tools, sent' = [sent EXCEPT ![g] = @ + 1],
         NEW l, IsChunk(l), l.calls = <<>>, l.finish = "none", NEW r, r = OpenAILine(adapter, l), adapter' = r.st
  PROVE  OpenAICounts(r.st) /\ EventsOK(r.out) /\ (~ r.halt => OpenAIFit(adapter)')
<1>1. r = OnChunk(adapter, l)  BY DEF OpenAILine, IsChunk
<1>2. r = ReadOf(adapter, l)  BY <1>1, ChunkIs
<1>3. PICK s : s = adapter  OBVIOUS
<1>4. PICK u : u = Told(s, l)  OBVIOUS
<1>5. OpenAIOK(s) /\ OpenAICounts(s) /\ OpenAIFit(s) /\ r = ReadOf(s, l)  BY <1>2, <1>3
<1>6. r = Goes(u, Said(l))  BY <1>4, <1>5, QuietChunk
<1>7. r.st = u /\ r.out = Said(l)  BY <1>6 DEF Goes
<1>8. OpenAIOK(u) /\ OpenAICounts(u) /\ OpenAIFit(u)  BY <1>4, <1>5, ToldSame
<1>9. EventsOK(Said(l))  BY SaidOK
<1>10. adapter' = u  BY <1>7
<1>11. OpenAIFit(adapter)'  BY <1>8, <1>10, FitElsewhere
<1> QED BY <1>7, <1>8, <1>9, <1>11

LEMMA OpenAIFinishReads ==
  ASSUME SettingOK, SentOK, OrderOK, UNCHANGED setting, provider = "openai", OpenAIOK(adapter), OpenAICounts(adapter),
         OpenAIFit(adapter), NEW g \in Groups, Ready(g), g = Len(reply.kinds) + 1, sent' = [sent EXCEPT ![g] = @ + 1],
         NEW l, IsChunk(l), l.calls = <<>>, l.finish # "none", NEW r, r = OpenAILine(adapter, l), adapter' = r.st
  PROVE  OpenAICounts(r.st) /\ EventsOK(r.out) /\ (~ r.halt => OpenAIFit(adapter)')
<1>1. r = OnChunk(adapter, l)  BY DEF OpenAILine, IsChunk
<1>2. PICK s : s = adapter  OBVIOUS
<1>3. PICK u : u = Told(s, l)  OBVIOUS
<1>4. OpenAIOK(s) /\ OpenAICounts(s) /\ OpenAIFit(s) /\ r = OnChunk(s, l)  BY <1>1, <1>2
<1>5. OpenAIOK(u) /\ OpenAICounts(u) /\ OpenAIFit(u)  BY <1>3, <1>4, ToldSame
<1>6. ReadOf(s, l) = Goes(u, Said(l))  BY <1>3, <1>4, QuietChunk
<1>7. PICK q : q = ReadOf(s, l)  OBVIOUS
<1>8. q.st = u /\ q.out = Said(l) /\ q.halt = FALSE  BY <1>6, <1>7 DEF Goes
<1>9. PICK v : v = [u EXCEPT !.finish = l.finish]  OBVIOUS
<1>10. PICK e : e = EmitAll(v)  OBVIOUS
<1>11. r.st = e.st /\ r.out = q.out \o e.out
  <2>1. r = IF q.halt \/ l.finish = "none" THEN q ELSE Goes(EmitAll([q.st EXCEPT !.finish = l.finish]).st,
                                                           q.out \o EmitAll([q.st EXCEPT !.finish = l.finish]).out)
    BY <1>4, <1>7, ChunkIs
  <2>2. EmitAll([q.st EXCEPT !.finish = l.finish]) = e  BY <1>8, <1>9, <1>10
  <2>3. PICK o : o = q.out \o e.out  OBVIOUS
  <2>4. r = Goes(e.st, o)  BY <1>8, <2>1, <2>2, <2>3
  <2>5. r.st = e.st /\ r.out = o  BY ONLY <2>4 DEF Goes
  <2> QED BY ONLY <2>3, <2>5
<1>12. OpenAIOK(v) /\ OpenAICounts(v) /\ Called(v)
  <2>1. l.finish \in Finishes  BY DEF IsChunk
  <2>2. OpenAIOK(v) /\ v.calls = u.calls /\ v.limit = u.limit /\ v.pending = u.pending
    BY <1>5, <1>9, <2>1, FinishedIs
  <2>3. Called(u)  BY <1>5, FitIs
  <2>4. OpenAICounts(v)  BY <1>5, <2>2 DEF OpenAICounts, Counted
  <2> QED BY <2>2, <2>3, <2>4 DEF Called
<1>13. OpenAICounts(e.st) /\ EventsOK(e.out) /\ IsSeq(e.out) /\ e.st.calls = <<>>  BY <1>10, <1>12, FlushAll
<1>14. EventsOK(Said(l)) /\ IsSeq(Said(l))  BY SaidOK
<1>15. EventsOK(q.out \o e.out)  BY <1>8, <1>13, <1>14, EventsConcat
<1>16. PICK t : t = e.st  OBVIOUS
<1>17. t.calls = <<>> /\ adapter' = t  BY <1>11, <1>13, <1>16
<1>18. OpenAIFit(adapter)'  BY <1>17, NoneFits
<1> QED BY <1>11, <1>13, <1>15, <1>18

(* The end of the stream flushes what is unfinished.                        *)
LEMMA OpenAIEnds ==
  ASSUME SettingOK, SentOK, provider = "openai", NEW s, OpenAIOK(s), OpenAICounts(s), Called(s), NEW r, r = OpenAIEnd(s)
  PROVE  OpenAICounts(r.st) /\ EventsOK(r.out) /\ r.halt
<1>1. PICK e : e = EmitAll(s)  OBVIOUS
<1>2. r.halt /\ r.st = e.st /\ \E x : x.type \in {"done", "bare_error"} /\ r.out = Append(e.out, x)
  BY <1>1, OpenAIEndWell
<1>3. PICK x : x.type \in {"done", "bare_error"} /\ r.out = Append(e.out, x)  BY <1>2
<1>4. OpenAICounts(e.st) /\ EventsOK(e.out) /\ IsSeq(e.out)  BY <1>1, FlushAll
<1>5. x.type # "tool_use"  BY <1>3
<1>6. EventsOK(Append(e.out, x))  BY <1>4, <1>5, EventsAppend
<1> QED BY <1>2, <1>3, <1>4, <1>6

LEMMA OpenAIDoneReads ==
  ASSUME SettingOK, SentOK, provider = "openai", NEW s, OpenAIOK(s), OpenAICounts(s), OpenAIFit(s),
         NEW l, l.type = "[DONE]", NEW r, r = OpenAILine(s, l)
  PROVE  OpenAICounts(r.st) /\ EventsOK(r.out) /\ r.halt
<1>1. PICK t : t = [s EXCEPT !.sawDone = TRUE]  OBVIOUS
<1>2. s \in OpenAISet  BY DEF OpenAIOK
<1>3. t \in OpenAISet /\ t.calls = s.calls /\ t.latest = s.latest /\ t.limit = s.limit /\ t.pending = s.pending
  BY <1>1, <1>2 DEF OpenAISet
<1>4. OpenAIOK(t)  BY <1>3 DEF OpenAIOK
<1>8. OpenAICounts(t)  BY <1>3 DEF OpenAICounts, Counted
<1>5. r = OpenAIEnd(t)  BY <1>1 DEF OpenAILine
<1>6. Called(s)  BY FitIs
<1>7. Called(t)  BY <1>3, <1>6 DEF Called
<1> QED BY <1>4, <1>5, <1>7, <1>8, OpenAIEnds

-----------------------------------------------------------------------------
LEMMA OpenAIReceives ==
  ASSUME SettingOK, SentOK, OrderOK, UNCHANGED setting, provider = "openai", OpenAIOK(adapter), OpenAICounts(adapter),
         OpenAIFit(adapter), NEW g \in Groups, Ready(g), sent' = [sent EXCEPT ![g] = @ + 1],
         NEW r, r = OpenAILine(adapter, LinesOf(g)[sent[g] + 1]), adapter' = r.st
  PROVE  OpenAICounts(r.st) /\ EventsOK(r.out) /\ (~ r.halt => OpenAIFit(adapter)')
<1>1. sent[g] + 1 \in 1..Len(LinesOf(g))  BY SendFacts
<1>2. g # 0  BY NoStartLine
<1>3. CASE g = Len(reply.kinds) + 1
  <2>1. LinesOf(g) = EndLines  BY <1>2, <1>3 DEF LinesOf
  <2>2. g \notin Tools  BY <1>3, LastIsDone
  <2>3. PICK q : q = EndLines  OBVIOUS
  <2>4. /\ Len(q) = 3
        /\ IsChunk(q[1]) /\ q[1].calls = <<>> /\ q[1].finish # "none"
        /\ IsChunk(q[2]) /\ q[2].calls = <<>> /\ q[2].finish = "none"
        /\ q[3].type = "[DONE]"
    BY <2>3, OpenAIEndLines
  <2>5. PICK l : l = LinesOf(g)[sent[g] + 1]  OBVIOUS
  <2>6. l = q[1] \/ l = q[2] \/ l = q[3]
    <3>1. l = q[sent[g] + 1] /\ sent[g] + 1 \in 1..3  BY <1>1, <2>1, <2>3, <2>4, <2>5
    <3>2. \A k \in 1..3 : k = 1 \/ k = 2 \/ k = 3  OBVIOUS
    <3> QED BY <3>1, <3>2
  <2>7. CASE l = q[1]  BY <1>3, <2>4, <2>5, <2>7, OpenAIFinishReads
  <2>8. CASE l = q[2]  BY <2>2, <2>4, <2>5, <2>8, OpenAISaidReads
  <2>9. CASE l = q[3]
    <3>1. PICK s : s = adapter  OBVIOUS
    <3>2. r = OpenAILine(s, l) /\ OpenAIOK(s) /\ OpenAICounts(s) /\ OpenAIFit(s) /\ l.type = "[DONE]"  BY <2>4, <2>5, <2>9, <3>1
    <3> QED BY <3>2, OpenAIDoneReads
  <2> QED BY <2>6, <2>7, <2>8, <2>9
<1>4. CASE g \in DOMAIN reply.kinds
  <2>1. CASE reply.kinds[g] = "tool"
    <3>1. g \in Tools  BY <1>4, <2>1 DEF Tools
    <3> QED BY <3>1, OpenAICallReads
  <2>2. CASE reply.kinds[g] # "tool"
    <3>1. g \notin Tools /\ LinesOf(g) = BlockLines(g)  BY <1>4, <2>2, BlockGroup DEF Tools
    <3>2. PICK l : l = LinesOf(g)[sent[g] + 1]  OBVIOUS
    <3>3. IsChunk(l) /\ l.calls = <<>> /\ l.finish = "none"  BY <1>1, <1>4, <2>2, <3>1, <3>2, OpenAIBlockLines
    <3> QED BY <3>1, <3>2, <3>3, OpenAISaidReads
  <2> QED BY <2>1, <2>2
<1> QED BY <1>2, <1>3, <1>4, GroupCases

LEMMA OpenAISkips ==
  ASSUME SettingOK, SentOK, OrderOK, UNCHANGED setting, provider = "openai", OpenAIFit(adapter), adapter' = adapter,
         NEW g \in Groups, Ready(g), LinesOf(g)[sent[g] + 1].optional, sent' = [sent EXCEPT ![g] = @ + 1]
  PROVE  OpenAIFit(adapter)'
<1>1. g \notin Tools
  <2> SUFFICES ASSUME g \in Tools PROVE FALSE  OBVIOUS
  <2>1. sent[g] + 1 \in 1..Len(LinesOf(g))  BY SendFacts
  <2>2. g \in DOMAIN reply.kinds /\ reply.kinds[g] = "tool" /\ LinesOf(g) = BlockLines(g)
    BY BlockGroup DEF Tools
  <2>3. BlockLines(g) = OpenAILines(g, Blocks[g]) /\ Blocks[g].kind = "tool"  BY <2>2, BlockIs DEF BlockLines
  <2>4. PICK b : b = Blocks[g]  OBVIOUS
  <2>5. PICK k : k = sent[g] + 1  OBVIOUS
  <2>6. PICK q : q = LinesOf(g)  OBVIOUS
  <2>7. q = OpenAILines(g, b) /\ b.kind = "tool"  BY <2>2, <2>3, <2>4, <2>6
  <2>8. \A i \in DOMAIN q : q[i].optional = FALSE
    <3> DEFINE delta(i) == [index |-> CASE quirk = "noindex" -> Unnumbered [] quirk = "index0" -> 0 [] OTHER -> g,
                            id |-> IF i = 1 THEN b.id ELSE "none", frag |-> <<<<b.id, i>>>>]
    <3>1. q = [i \in 1..ArgsFragments |-> [Chunk EXCEPT !.calls = <<delta(i)>>]]
      BY <2>7 DEF OpenAILines
    <3>2. \A ds : [Chunk EXCEPT !.calls = ds].optional = FALSE  BY DEF Chunk
    <3> HIDE DEF delta
    <3> QED BY <3>1, <3>2
  <2>9. k \in DOMAIN q
    <3>1. IsSeq(q)  BY <2>2, <2>6, OpenAIBlockLines
    <3>2. DOMAIN q = 1..Len(q)  BY <3>1, OwnSeq
    <3> QED BY <2>1, <2>5, <2>6, <3>2
  <2> QED BY <2>5, <2>6, <2>8, <2>9
<1>2. PICK t : t = adapter  OBVIOUS
<1>3. OpenAIFit(t) /\ adapter' = t  BY <1>2
<1> QED BY <1>1, <1>3, FitElsewhere

-----------------------------------------------------------------------------
(* Nothing the adapter or the provider has to say changes with a step of    *)
(* the consumer or of the wrapper.                                          *)
LEMMA AdapterStays ==
  ASSUME UNCHANGED setting, sent' = sent, adapter' = adapter
  PROVE  /\ OrderOK => OrderOK'
         /\ AdapterOK => AdapterOK'
         /\ AdapterFit => AdapterFit'
<1>1. /\ Groups' = Groups /\ \A g : LinesOf(g)' = LinesOf(g)
      /\ reply' = reply /\ provider' = provider /\ quirk' = quirk
  BY SettingStays
<1>2. \A g : Sent(g)' <=> Sent(g)  BY <1>1 DEF Sent
<1>3. \A g, h : Interleaves(g, h)' <=> Interleaves(g, h)  BY <1>1 DEF Interleaves
<1>4. OrderOK => OrderOK'  BY <1>1, <1>2, <1>3 DEF OrderOK
<1>5. PICK t : t = adapter  OBVIOUS
<1>6. adapter = t /\ adapter' = t  BY <1>5
<1>7. AdapterOK => AdapterOK'  BY <1>1, <1>6 DEF AdapterOK, OpenAICounts
<1>8. Tools' = Tools /\ Servers' = Servers  BY <1>1 DEF Tools, Servers
<1>9. \A b : InProgress(b)' <=> InProgress(b)  BY <1>2 DEF InProgress
<1>10. AnthropicFit(adapter) => AnthropicFit(adapter)'
  <2>1. \A b : BlockOK(b)' <=> BlockOK(b)  BY <1>8 DEF BlockOK
  <2>2. BlocksOK(t.blocks)' <=> BlocksOK(t.blocks)  BY <2>1 DEF BlocksOK
  <2>3. \A j : ReadsCall(t, j)' <=> ReadsCall(t, j)  BY <1>1 DEF ReadsCall, Got
  <2> QED BY <1>6, <1>8, <2>2, <2>3 DEF AnthropicFit
<1>11. OpenAIFit(adapter) => OpenAIFit(adapter)'
  <2>1. \A x : Number(x)' = Number(x)  BY <1>1 DEF Number
  <2>2. \A c, b : CallOf(c, b)' <=> CallOf(c, b)  BY <2>1 DEF CallOf
  <2>3. \A b : NextCall(t, b)' = NextCall(t, b)  BY <1>1, <2>1 DEF NextCall
  <2> QED BY <1>6, <1>8, <1>9, <2>2, <2>3 DEF OpenAIFit
<1>12. ResponsesFit(adapter) => ResponsesFit(adapter)'
  <2>1. \A b : Key(b)' = Key(b)  BY <1>1 DEF Key
  <2>2. \A b : Has(t, b)' <=> Has(t, b)  BY <1>9, <2>1 DEF Has
  <2>3. \A b : At1(t, b)' = At1(t, b)  BY <2>1 DEF At1
  <2> QED BY <1>1, <1>6, <1>8, <1>9, <2>1, <2>2, <2>3 DEF ResponsesFit
<1>13. AdapterFit => AdapterFit'  BY <1>1, <1>10, <1>11, <1>12 DEF AdapterFit
<1> QED BY <1>4, <1>7, <1>13

LEMMA EventsStay ==
  ASSUME UNCHANGED setting
  PROVE  /\ \A c : Unspliced(c)' <=> Unspliced(c)
         /\ \A q : EventsOK(q)' <=> EventsOK(q)
<1>1. provider' = provider  BY SettingStays
<1>2. \A c : Unspliced(c)' <=> Unspliced(c)  BY <1>1 DEF Unspliced
<1> QED BY <1>2 DEF EventsOK

(* Steps of the consumer and the wrapper.                                   *)
LEMMA PassedCalls ==
  ASSUME CallsInv, UNCHANGED setting, sent' = sent, adapter' = adapter, Live' => Live, CallsOK'
  PROVE  CallsInv'
BY AdapterStays DEF CallsInv

LEMMA AcceptedCalls == ASSUME CallsInv, Accepted PROVE CallsInv'
<1>1. /\ phase = "connecting" /\ UNCHANGED setting /\ sent' = sent /\ adapter' = adapter
      /\ queue' = queue /\ out' = out /\ acc' = acc
  BY DEF Accepted, consumer
<1>2. Live  BY <1>1 DEF Live
<1>3. CallsOK'  BY <1>1, EventsStay DEF CallsInv, CallsOK, EventsOK
<1> QED BY <1>1, <1>2, <1>3, PassedCalls

LEMMA StutterCalls == ASSUME CallsInv, UNCHANGED vars PROVE CallsInv'
<1>1. /\ UNCHANGED setting /\ sent' = sent /\ adapter' = adapter /\ phase' = phase
      /\ queue' = queue /\ out' = out /\ acc' = acc
  BY DEF vars, consumer
<1>2. Live' => Live  BY <1>1 DEF Live
<1>3. CallsOK'  BY <1>1, EventsStay DEF CallsInv, CallsOK, EventsOK
<1> QED BY <1>1, <1>2, <1>3, PassedCalls

LEMMA PassCalls == ASSUME StreamInv, CallsInv, Pass PROVE CallsInv'
<1> DEFINE ev == Head(queue)
           t == Tail(queue)
           b == IF wrapped THEN Bracketed(open, ev) ELSE [open |-> open, out |-> <<ev>>, ends |-> FALSE]
<1>1. /\ phase \in {"reading", "ending"} /\ queue # <<>>
      /\ out' = b.out /\ queue' = IF b.ends THEN <<>> ELSE t
      /\ phase' = IF b.ends THEN "closed" ELSE phase
      /\ UNCHANGED setting /\ sent' = sent /\ adapter' = adapter /\ acc' = acc
  BY DEF Pass, Passing, consumer
<1>2. ev.type \in PlainTypes \cup EndTypes  BY <1>1, QueuedEvent DEF StreamInv
<1>3. open \in {"none", "content", "thinking"} /\ wrapped \in BOOLEAN  BY DEF StreamInv, OpenOK, SettingOK
<1>4. IsSeq(queue)
  <2>1. Plain(queue) \/ queue = <<BareError>> \/ Ending(queue)  BY <1>1 DEF StreamInv, QueueOK
  <2>2. IsSeq(<<BareError>>)  BY OneSeq
  <2> QED BY <2>1, <2>2 DEF Plain, Ending
<1> HIDE DEF ev
<1>5. \A e \in Range(b.out) : e = ev \/ e.type # "tool_use"
  <2>1. CASE wrapped
    <3>1. b = Bracketed(open, ev)  BY <2>1
    <3>2. BracketedWell(open, ev, b)  BY <1>2, <1>3, <3>1, BracketedNests
    <3> HIDE DEF b
    <3> QED BY <3>2 DEF BracketedWell
  <2>2. CASE ~ wrapped
    <3>1. b.out = <<ev>>  BY <2>2
    <3> HIDE DEF b
    <3> QED BY <3>1, OneSeq
  <2> QED BY <2>1, <2>2
<1> HIDE DEF b
<1>6. ev \in Range(queue) /\ Range(t) \subseteq Range(queue)  BY <1>1, <1>4, TailSeq DEF ev
<1> HIDE DEF t
<1>7. EventsOK(queue)  BY DEF CallsInv, CallsOK
<1>8. EventsOK(b.out) /\ EventsOK(t) /\ EventsOK(<<>>)  BY <1>5, <1>6, <1>7, EventsNone DEF EventsOK
<1>9. EventsOK(out') /\ EventsOK(queue')  BY <1>1, <1>8
<1>10. CallsOK'
  <2>1. EventsOK(out)' /\ EventsOK(queue)'  BY <1>1, <1>9, EventsStay DEF EventsOK
  <2> QED BY <1>1, <2>1, EventsStay DEF CallsInv, CallsOK
<1>11. Live' => Live  BY <1>1 DEF Live
<1> QED BY <1>1, <1>10, <1>11, PassedCalls

LEMMA FinishCalls == ASSUME StreamInv, CallsInv, Finish PROVE CallsInv'
<1>1. /\ phase = "ending" /\ queue = <<>> /\ out = <<>> /\ phase' = "closed"
      /\ out' = (IF wrapped THEN CloseBlock(open) ELSE <<>>)
      /\ UNCHANGED setting /\ sent' = sent /\ adapter' = adapter /\ queue' = queue /\ acc' = acc
  BY DEF Finish, Passing, consumer
<1>2. Ended  BY <1>1 DEF Ended
<1>3. wrapped => open = "none"  BY <1>2 DEF StreamInv, OpenOK
<1>4. out' = out  BY <1>1, <1>3 DEF CloseBlock
<1>5. CallsOK'  BY <1>1, <1>4, EventsStay DEF CallsInv, CallsOK, EventsOK
<1>6. ~ Live'  BY <1>1 DEF Live
<1> QED BY <1>1, <1>5, <1>6, PassedCalls

LEMMA LeaveCalls == ASSUME CallsInv, Leave PROVE CallsInv'
<1>1. /\ phase' = "left" /\ queue' = <<>> /\ out' = <<>> /\ acc' = acc
      /\ UNCHANGED setting /\ sent' = sent /\ adapter' = adapter
  BY DEF Leave, consumer
<1>2. EventsOK(out)' /\ EventsOK(queue)'  BY <1>1, EventsNone, EventsStay DEF EventsOK
<1>3. CallsOK'  BY <1>1, <1>2, EventsStay DEF CallsInv, CallsOK
<1>4. ~ Live'  BY <1>1 DEF Live
<1> QED BY <1>1, <1>3, <1>4, PassedCalls

LEMMA FoldedCalls ==
  ASSUME FoldOK, NEW ev
  PROVE  Add(acc, ev).calls = IF ev.type = "tool_use" THEN Append(acc.calls, ev.call) ELSE acc.calls
BY DEF FoldOK, Add

LEMMA TakeCalls == ASSUME StreamInv, CallsInv, Take PROVE CallsInv'
<1> DEFINE ev == Head(out)
           t == Tail(out)
<1>1. /\ out # <<>> /\ out' = t /\ acc' = Add(acc, ev) /\ phase' = phase /\ queue' = queue
      /\ UNCHANGED setting /\ sent' = sent /\ adapter' = adapter
  BY DEF Take
<1>2. ev \in Range(out) /\ Range(t) \subseteq Range(out)  BY <1>1, TailSeq DEF StreamInv, OutOK
<1> HIDE DEF ev, t
<1>3. EventsOK(queue) /\ EventsOK(out) /\ IsSeq(acc.calls) /\ \A c \in Range(acc.calls) : Unspliced(c)
  BY DEF CallsInv, CallsOK
<1>4. EventsOK(t) /\ (ev.type = "tool_use" => Unspliced(ev.call))  BY <1>2, <1>3 DEF EventsOK
<1>5. acc'.calls = IF ev.type = "tool_use" THEN Append(acc.calls, ev.call) ELSE acc.calls
  BY <1>1, FoldedCalls DEF StreamInv
<1>6. IsSeq(acc'.calls) /\ \A c \in Range(acc'.calls) : Unspliced(c)
  <2>1. CASE ev.type = "tool_use"
    <3>1. PICK a : a = acc.calls  OBVIOUS
    <3>2. IsSeq(Append(a, ev.call)) /\ Range(Append(a, ev.call)) = Range(a) \cup {ev.call}
      BY <1>3, <3>1, AppendSeq
    <3> QED BY <1>3, <1>4, <1>5, <2>1, <3>1, <3>2
  <2>2. CASE ev.type # "tool_use"  BY <1>3, <1>5, <2>2
  <2> QED BY <2>1, <2>2
<1>7. CallsOK'
  <2>1. EventsOK(out)' /\ EventsOK(queue)'  BY <1>1, <1>3, <1>4, EventsStay DEF EventsOK
  <2>2. IsSeq(acc.calls)' /\ \A c \in Range(acc'.calls) : Unspliced(c)'  BY <1>1, <1>6, EventsStay
  <2> QED BY <2>1, <2>2 DEF CallsOK
<1>8. Live' => Live  BY <1>1 DEF Live
<1> QED BY <1>1, <1>7, <1>8, PassedCalls

-----------------------------------------------------------------------------
(* Steps that handle a line, or its absence.                                *)
LEMMA HandledCalls ==
  ASSUME CallsInv, NEW r, Handle(r), out = <<>>, OrderOK', EventsOK(r.out), AdapterOK', ~ r.halt => AdapterFit'
  PROVE  CallsInv'
<1>1. /\ queue' = r.out /\ phase' = (IF r.halt THEN "ending" ELSE "reading")
      /\ UNCHANGED setting /\ out' = out /\ acc' = acc
  BY DEF Handle, consumer
<1>2. PICK o : o = r.out  OBVIOUS
<1>3. EventsOK(o) /\ queue' = o  BY <1>1, <1>2
<1>4. EventsOK(queue)' /\ EventsOK(out)'  BY <1>1, <1>3, EventsNone, EventsStay DEF EventsOK
<1>5. CallsOK'  BY <1>1, <1>4, EventsStay DEF CallsInv, CallsOK
<1>6. Live' => AdapterFit'  BY <1>1 DEF Live
<1> QED BY <1>5, <1>6 DEF CallsInv

(* What comes of a line that leaves the adapter as it was.                  *)
LEMMA UnmovedCalls ==
  ASSUME CallsInv, Live, NEW r, Handle(r), out = <<>>, sent' = sent, r.st = adapter, EventsOK(r.out)
  PROVE  CallsInv'
<1>1. UNCHANGED setting /\ adapter' = adapter  BY DEF Handle
<1>2. OrderOK' /\ AdapterOK' /\ AdapterFit'  BY <1>1, AdapterStays DEF CallsInv
<1> QED BY <1>2, HandledCalls

LEMMA ErrorOut == EventsOK(<<BareError>>)
BY QuietOut, EventTypes

LEMMA RefusedCalls == ASSUME StreamInv, CallsInv, Refused PROVE CallsInv'
<1> DEFINE r == [st |-> adapter, out |-> <<BareError>>, halt |-> TRUE]
<1>1. Handle(r) /\ phase = "connecting" /\ sent' = sent  BY DEF Refused
<1>2. r.st = adapter /\ EventsOK(r.out)  BY ErrorOut
<1> HIDE DEF r
<1>3. Live /\ out = <<>>  BY <1>1 DEF StreamInv, OutOK, Live
<1> QED BY <1>1, <1>2, <1>3, UnmovedCalls

LEMMA FailOut ==
  ASSUME NEW s, NEW r, r = Fail(s) PROVE r.st = s /\ r.halt /\ EventsOK(r.out)
<1>1. PICK e : e = IF s.started THEN ErrorWith(s.usage, Parts(s.blocks)) ELSE BareError  OBVIOUS
<1>2. e.type # "tool_use"  BY <1>1, EventTypes
<1>3. PICK q : q = <<e>>  OBVIOUS
<1>4. EventsOK(q)  BY <1>2, <1>3, QuietOut
<1>5. r = Stops(s, q)  BY <1>1, <1>3 DEF Fail
<1> QED BY <1>4, <1>5 DEF Stops

LEMMA ErrorOnly ==
  ASSUME NEW s, NEW r, NEW o, o = <<>> \/ o = <<BareError>>, r = Goes(s, o) \/ r = Stops(s, o)
  PROVE  r.st = s /\ EventsOK(r.out)
<1>1. EventsOK(o)  BY ErrorOut, EventsNone
<1>2. r.st = s /\ r.out = o  BY DEF Goes, Stops
<1> QED BY <1>1, <1>2

LEMMA GarbledCalls == ASSUME StreamInv, CallsInv, Garbled PROVE CallsInv'
<1> DEFINE l == Line("garbled")
           r == Read(l)
<1>1. Reading /\ Handle(r) /\ sent' = sent  BY DEF Garbled
<1>2. l.type = "garbled"  BY DEF Line
<1> HIDE DEF l
<1>3. PICK s : s = adapter  OBVIOUS
<1>4. PICK o : o = <<BareError>>  OBVIOUS
<1>5. provider \in Adapters  BY SettingIs DEF StreamInv
<1>6. r.st = s /\ EventsOK(r.out)
  <2>1. CASE provider = "anthropic"
    <3>1. r = Goes(s, o)  BY <1>2, <1>3, <1>4, <2>1 DEF Read, AnthropicLine
    <3> HIDE DEF r
    <3> QED BY <1>4, <3>1, ErrorOnly
  <2>2. CASE provider = "openai"
    <3>1. PICK p : p = IF s.finish # "none" THEN <<>> ELSE o  OBVIOUS
    <3>2. r = Goes(s, p)  BY <1>2, <1>3, <1>4, <2>2, <3>1 DEF Read, OpenAILine
    <3>3. p = <<>> \/ p = <<BareError>>  BY <1>4, <3>1
    <3> HIDE DEF r
    <3> QED BY <3>2, <3>3, ErrorOnly
  <2>3. CASE provider = "responses"
    <3>1. r = Goes(s, o)  BY <1>2, <1>3, <1>4, <2>3 DEF Read, ResponsesLine
    <3> HIDE DEF r
    <3> QED BY <1>4, <3>1, ErrorOnly
  <2>4. CASE provider = "gemini"
    <3>1. r = Goes(s, o)  BY <1>2, <1>3, <1>4, <2>4 DEF Read, GeminiLine
    <3> HIDE DEF r
    <3> QED BY <1>4, <3>1, ErrorOnly
  <2> QED BY <1>5, <2>1, <2>2, <2>3, <2>4 DEF Adapters
<1> HIDE DEF r
<1>7. Live /\ out = <<>>  BY <1>1 DEF Reading, Live
<1> QED BY <1>1, <1>3, <1>6, <1>7, UnmovedCalls

LEMMA ErrorEventCalls == ASSUME StreamInv, CallsInv, ErrorEvent PROVE CallsInv'
<1> DEFINE l == Line("error")
           r == Read(l)
<1>1. Reading /\ Handle(r) /\ sent' = sent /\ provider \in {"anthropic", "responses"}  BY DEF ErrorEvent
<1>2. l.type = "error"  BY DEF Line
<1> HIDE DEF l
<1>3. PICK s : s = adapter  OBVIOUS
<1>4. r.st = s /\ EventsOK(r.out)
  <2>1. CASE provider = "anthropic"
    <3>1. r = Fail(s)  BY <1>2, <1>3, <2>1 DEF Read, AnthropicLine
    <3> HIDE DEF r
    <3> QED BY <3>1, FailOut
  <2>2. CASE provider = "responses"
    <3>1. PICK o : o = <<BareError>>  OBVIOUS
    <3>2. r = Stops(s, o)  BY <1>2, <1>3, <2>2, <3>1 DEF Read, ResponsesLine
    <3> HIDE DEF r
    <3> QED BY <3>1, <3>2, ErrorOnly
  <2> QED BY <1>1, <2>1, <2>2
<1> HIDE DEF r
<1>5. Live /\ out = <<>>  BY <1>1 DEF Reading, Live
<1> QED BY <1>1, <1>3, <1>4, <1>5, UnmovedCalls

LEMMA CutCalls == ASSUME StreamInv, CallsInv, Cut PROVE CallsInv'
<1> DEFINE r == ReadEnd
<1>1. Reading /\ Handle(r) /\ sent' = sent  BY DEF Cut
<1>2. PICK s : s = adapter  OBVIOUS
<1>3. provider \in Adapters /\ SettingOK /\ SentOK  BY SettingIs DEF StreamInv
<1>4. Live /\ out = <<>>  BY <1>1 DEF Reading, Live
<1>5. CASE provider = "anthropic"
  <2>1. r = Fail(s)  BY <1>2, <1>5 DEF ReadEnd, AnthropicEnd
  <2> HIDE DEF r
  <2>2. r.st = s /\ EventsOK(r.out)  BY <2>1, FailOut
  <2> QED BY <1>1, <1>2, <1>4, <2>2, UnmovedCalls
<1>6. CASE provider \in {"responses", "gemini"}
  <2>1. PICK o : o = <<BareError>>  OBVIOUS
  <2>2. r = Stops(s, o)  BY <1>2, <1>6, <2>1 DEF ReadEnd, ResponsesEnd, GeminiEnd
  <2> HIDE DEF r
  <2>3. r.st = s /\ EventsOK(r.out)  BY <2>1, <2>2, ErrorOnly
  <2> QED BY <1>1, <1>2, <1>4, <2>3, UnmovedCalls
<1>7. CASE provider = "openai"
  <2>1. r = OpenAIEnd(s)  BY <1>2, <1>7 DEF ReadEnd
  <2> HIDE DEF r
  <2>2. OpenAIOK(s)  BY <1>2, <1>7 DEF StreamInv
  <2>3. OpenAIFit(s)  BY <1>2, <1>4, <1>7 DEF CallsInv, AdapterFit
  <2>12. OpenAICounts(s)  BY <1>2, <1>7 DEF CallsInv, AdapterOK
  <2>4. OpenAICounts(r.st) /\ EventsOK(r.out) /\ r.halt
    BY <1>3, <1>7, <2>1, <2>2, <2>3, <2>12, FitIs, OpenAIEnds
  <2>5. UNCHANGED setting /\ adapter' = r.st  BY <1>1 DEF Handle
  <2>6. PICK t : t = r.st  OBVIOUS
  <2>7. provider' = provider  BY <2>5, SettingStays
  <2>8. AdapterOK'  BY <1>7, <2>4, <2>5, <2>6, <2>7 DEF AdapterOK, OpenAICounts
  <2>9. OrderOK'
    <3>1. OrderOK  BY DEF CallsInv
    <3>2. /\ Groups' = Groups /\ \A g : LinesOf(g)' = LinesOf(g)
          /\ reply' = reply /\ provider' = provider /\ quirk' = quirk
      BY <2>5, SettingStays
    <3>3. \A g : Sent(g)' <=> Sent(g)  BY <1>1, <3>2 DEF Sent
    <3>4. \A g, h : Interleaves(g, h)' <=> Interleaves(g, h)  BY <3>2 DEF Interleaves
    <3> QED BY <1>1, <3>1, <3>2, <3>3, <3>4 DEF OrderOK
  <2> QED BY <1>1, <1>4, <2>4, <2>8, <2>9, HandledCalls
<1> QED BY <1>3, <1>5, <1>6, <1>7 DEF Adapters

LEMMA ReceiveCalls == ASSUME StreamInv, CallsInv, NEW g \in Groups, Receive(g) PROVE CallsInv'
<1> DEFINE k == sent[g] + 1
           l == LinesOf(g)[k]
           r == Read(l)
<1>1. Reading /\ Ready(g) /\ Handle(r) /\ sent' = [sent EXCEPT ![g] = @ + 1]  BY DEF Receive
<1>2. UNCHANGED setting /\ adapter' = r.st  BY <1>1 DEF Handle
<1>3. out = <<>> /\ Live  BY <1>1 DEF Reading, Live
<1>4. SettingOK /\ SentOK /\ provider \in Adapters /\ OrderOK /\ AdapterOK /\ AdapterFit
  BY <1>3, SettingIs DEF StreamInv, CallsInv
<1>5. OrderOK' /\ k \in 1..Len(LinesOf(g))  BY <1>1, <1>2, <1>4, SendFacts
<1>6. provider' = provider  BY <1>2, SettingStays
<1>7. PICK t : t = r.st  OBVIOUS
<1>8. adapter' = t  BY <1>2, <1>7
<1>9. CASE provider = "anthropic"
  <2>1. r = AnthropicLine(adapter, LinesOf(g)[sent[g] + 1])  BY <1>9 DEF Read
  <2>2. AnthropicOK(adapter) /\ AnthropicFit(adapter)  BY <1>4, <1>9 DEF AdapterOK, AdapterFit
  <2> HIDE DEF r
  <2>3. AnthropicOK(r.st) /\ EventsOK(r.out) /\ (~ r.halt => AnthropicFit(adapter)')
    BY <1>1, <1>2, <1>4, <1>9, <2>1, <2>2, AnthropicReceives
  <2>4. AdapterOK'  BY <1>6, <1>7, <1>8, <1>9, <2>3 DEF AdapterOK
  <2>5. ~ r.halt => AdapterFit'  BY <1>6, <1>9, <2>3 DEF AdapterFit
  <2> QED BY <1>1, <1>3, <1>5, <2>3, <2>4, <2>5, HandledCalls
<1>10. CASE provider = "openai"
  <2>1. r = OpenAILine(adapter, LinesOf(g)[sent[g] + 1])  BY <1>10 DEF Read
  <2>2. OpenAIOK(adapter) /\ OpenAICounts(adapter) /\ OpenAIFit(adapter)
    BY <1>4, <1>10 DEF StreamInv, AdapterOK, AdapterFit
  <2> HIDE DEF r
  <2>3. OpenAICounts(r.st) /\ EventsOK(r.out) /\ (~ r.halt => OpenAIFit(adapter)')
    BY <1>1, <1>2, <1>4, <1>10, <2>1, <2>2, OpenAIReceives
  <2>4. AdapterOK'  BY <1>6, <1>7, <1>8, <1>10, <2>3 DEF AdapterOK, OpenAICounts
  <2>5. ~ r.halt => AdapterFit'  BY <1>6, <1>10, <2>3 DEF AdapterFit
  <2> QED BY <1>1, <1>3, <1>5, <2>3, <2>4, <2>5, HandledCalls
<1>11. CASE provider = "responses"
  <2>1. r = ResponsesLine(adapter, LinesOf(g)[sent[g] + 1])  BY <1>11 DEF Read
  <2>2. ResponsesOK(adapter) /\ ResponsesFit(adapter)  BY <1>4, <1>11 DEF AdapterOK, AdapterFit
  <2> HIDE DEF r
  <2>3. ResponsesOK(r.st) /\ EventsOK(r.out) /\ (~ r.halt => ResponsesFit(adapter)')
    BY <1>1, <1>2, <1>4, <1>11, <2>1, <2>2, ResponsesReceives
  <2>4. AdapterOK'  BY <1>6, <1>7, <1>8, <1>11, <2>3 DEF AdapterOK
  <2>5. ~ r.halt => AdapterFit'  BY <1>6, <1>11, <2>3 DEF AdapterFit
  <2> QED BY <1>1, <1>3, <1>5, <2>3, <2>4, <2>5, HandledCalls
<1>12. CASE provider = "gemini"
  <2>1. PICK s : s = adapter  OBVIOUS
  <2>2. r = GeminiLine(s, l)  BY <1>12, <2>1 DEF Read
  <2>3. GeminiOK(s)  BY <1>4, <1>12, <2>1 DEF AdapterOK
  <2> HIDE DEF k
  <2>4. LineOK(l)  BY <1>4, <1>5, LinesAre
  <2> HIDE DEF l
  <2>5. l.type = "garbled" \/ (l.type = "chunk" /\ IsSeq(l.parts))  BY <1>12, <2>4 DEF LineOK
  <2> HIDE DEF r
  <2>6. EventsOK(r.out) /\ GeminiOK(r.st)  BY <1>12, <2>2, <2>3, <2>5, GeminiCalls
  <2>7. AdapterOK'  BY <1>6, <1>7, <1>8, <1>12, <2>6 DEF AdapterOK
  <2>8. AdapterFit'  BY <1>6, <1>12 DEF AdapterFit
  <2> QED BY <1>1, <1>3, <1>5, <2>6, <2>7, <2>8, HandledCalls
<1> QED BY <1>4, <1>9, <1>10, <1>11, <1>12 DEF Adapters

LEMMA LeaveOutCalls == ASSUME StreamInv, CallsInv, NEW g \in Groups, LeaveOut(g) PROVE CallsInv'
<1>1. /\ Reading /\ Ready(g) /\ sent' = [sent EXCEPT ![g] = @ + 1] /\ LinesOf(g)[sent[g] + 1].optional
      /\ UNCHANGED setting /\ adapter' = adapter /\ queue' = queue /\ out' = out /\ acc' = acc /\ phase' = phase
  BY DEF LeaveOut, consumer
<1>2. Live  BY <1>1 DEF Reading, Live
<1>3. SettingOK /\ SentOK /\ provider \in Adapters /\ OrderOK /\ AdapterOK /\ AdapterFit
  BY <1>2, SettingIs DEF StreamInv, CallsInv
<1>4. OrderOK'  BY <1>1, <1>3, SendFacts
<1>5. provider' = provider  BY <1>1, SettingStays
<1>6. AdapterOK'
  <2>1. PICK t : t = adapter  OBVIOUS
  <2>2. adapter = t /\ adapter' = t  BY <1>1, <2>1
  <2> QED BY <1>3, <1>5, <2>2 DEF AdapterOK, OpenAICounts
<1>7. AdapterFit'
  <2>1. provider = "anthropic" => AnthropicFit(adapter)'  BY <1>1, <1>3, AnthropicSkips DEF AdapterFit
  <2>2. provider = "openai" => OpenAIFit(adapter)'  BY <1>1, <1>3, OpenAISkips DEF AdapterFit
  <2>3. provider = "responses" => ResponsesFit(adapter)'  BY <1>1, <1>3, ResponsesSkips DEF AdapterFit
  <2> QED BY <1>5, <2>1, <2>2, <2>3 DEF AdapterFit
<1>8. CallsOK'  BY <1>1, EventsStay DEF CallsInv, CallsOK, EventsOK
<1> QED BY <1>4, <1>6, <1>7, <1>8 DEF CallsInv

LEMMA InitCalls == ASSUME Init PROVE CallsInv
<1>1. StreamInv  BY InitStream
<1>2. /\ provider \in Adapters /\ Groups = 0..(Len(reply.kinds) + 1) /\ DOMAIN reply.kinds \subseteq Groups
  BY <1>1, SettingIs DEF StreamInv
<1>3. sent = [g \in Groups |-> 0] /\ queue = <<>> /\ out = <<>> /\ acc.calls = <<>>  BY DEF Init, EmptyFold
<1>4. \A g \in Groups : sent[g] = 0 /\ ~ InProgress(g)  BY <1>3 DEF InProgress
<1>5. OrderOK  BY <1>4 DEF OrderOK
<1>6. CallsOK  BY <1>3, NoneSeq, EventsNone DEF CallsOK
<1>7. Tools \subseteq Groups  BY <1>2 DEF Tools
<1>8. PICK limit \in InputLimits : adapter = StartOfAdapter(provider, limit)  BY DEF Init
<1>9. limit \in Nat  BY <1>8, StreamAssumption
<1>10. PICK z : z = <<>>  OBVIOUS
<1>11. IsSeq(z) /\ Range(z) = {} /\ Len(z) = 0  BY <1>10, NoneSeq
<1>12. CASE provider = "anthropic"
  <2>1. PICK s : s = adapter  OBVIOUS
  <2>2. s = [limit |-> limit, started |-> FALSE, usage |-> FALSE, call |-> "none", callIndex |-> NoIndex,
             buf |-> z, blocks |-> z]
    BY <1>8, <1>10, <1>12, <2>1 DEF StartOfAdapter, AnthropicStart
  <2>3. AnthropicOK(s)
    <3>1. DOMAIN s = AnthropicFields  BY <2>2 DEF AnthropicFields
    <3>2. s.limit = limit /\ s.buf = z  BY <2>2
    <3> QED BY <1>9, <1>11, <3>1, <3>2 DEF AnthropicOK
  <2>4. s.call = "none" /\ s.blocks = z  BY <2>2
  <2>5. AnthropicFit(s)  BY <1>11, <2>4 DEF AnthropicFit, BlocksOK
  <2>6. AdapterOK /\ AdapterFit  BY <1>12, <2>1, <2>3, <2>5 DEF AdapterOK, AdapterFit
  <2> QED BY <1>5, <1>6, <2>6 DEF CallsInv
<1>13. CASE provider = "openai"
  <2>1. PICK s : s = adapter  OBVIOUS
  <2>2. s = [limit |-> limit, finish |-> "none", usage |-> FALSE, calls |-> z, latest |-> 0,
             pending |-> 0, sawDone |-> FALSE, anyCall |-> FALSE]
    BY <1>8, <1>10, <1>13, <2>1 DEF StartOfAdapter, OpenAIStart
  <2>3. s.calls = z /\ s.pending = 0  BY <2>2
  <2>4. OpenAIOK(s)  BY <1>1, <1>13, <2>1 DEF StreamInv
  <2>5. OpenAICounts(s)  BY <1>10, <2>3, <2>4, NoCallsCounted
  <2>6. Len(s.calls) = 0  BY <1>11, <2>3
  <2>7. \A p : p \notin 1..Len(s.calls)  BY <2>6
  <2>8. \A b \in Tools : ~ InProgress(b)  BY <1>4, <1>7
  <2>9. OpenAIFit(s)  BY <2>7, <2>8 DEF OpenAIFit
  <2>10. AdapterOK /\ AdapterFit  BY <1>13, <2>1, <2>5, <2>9 DEF AdapterOK, AdapterFit
  <2> QED BY <1>5, <1>6, <2>10 DEF CallsInv
<1>14. CASE provider = "responses"
  <2>1. PICK s : s = adapter  OBVIOUS
  <2>2. PICK e : e = [k \in {} |-> 0]  OBVIOUS
  <2>3. DOMAIN e = {}  BY <2>2
  <2>4. s = [limit |-> limit, buffers |-> z, keyed |-> e, pending |-> 0, anyCall |-> FALSE]
    BY <1>8, <1>10, <1>14, <2>1, <2>2 DEF StartOfAdapter, ResponsesStart
  <2>5. s.limit = limit /\ s.buffers = z /\ s.keyed = e /\ s.pending = 0  BY <2>4
  <2>6. Counted(s, Fragments(s.buffers, DOMAIN s.buffers))
    <3>1. DOMAIN z = {}  BY <1>10
    <3>2. Fragments(s.buffers, DOMAIN s.buffers) = {}  BY <2>5, <3>1 DEF Fragments
    <3>3. IsFiniteSet({}) /\ Cardinality({}) = 0  BY FS_EmptySet
    <3> QED BY <1>9, <2>5, <3>2, <3>3 DEF Counted
  <2>7. ResponsesOK(s)
    <3>1. DOMAIN s = ResponsesFields  BY <2>4 DEF ResponsesFields
    <3>2. z \in Seq(BufferSet)  BY <1>10
    <3> QED BY <1>9, <2>3, <2>5, <2>6, <3>1, <3>2 DEF ResponsesOK
  <2>8. \A b \in Tools : ~ InProgress(b)  BY <1>4, <1>7
  <2>9. ResponsesFit(s)  BY <2>3, <2>5, <2>8 DEF ResponsesFit, Has
  <2>10. AdapterOK /\ AdapterFit  BY <1>14, <2>1, <2>7, <2>9 DEF AdapterOK, AdapterFit
  <2> QED BY <1>5, <1>6, <2>10 DEF CallsInv
<1>15. CASE provider = "gemini"
  <2>1. adapter = [limit |-> limit, next |-> 0, usage |-> FALSE]
    BY <1>8, <1>15 DEF StartOfAdapter, GeminiStart
  <2>2. GeminiOK(adapter)  BY <1>9, <2>1 DEF GeminiOK
  <2>3. AdapterOK /\ AdapterFit  BY <1>15, <2>2 DEF AdapterOK, AdapterFit
  <2> QED BY <1>5, <1>6, <2>3 DEF CallsInv
<1> QED BY <1>2, <1>12, <1>13, <1>14, <1>15 DEF Adapters

LEMMA NextCalls == ASSUME StreamInv, CallsInv, [Next]_vars PROVE CallsInv'
BY RefusedCalls, AcceptedCalls, GarbledCalls, ErrorEventCalls, CutCalls, PassCalls, FinishCalls,
   TakeCalls, LeaveCalls, ReceiveCalls, LeaveOutCalls, StutterCalls
DEF Next

-----------------------------------------------------------------------------
(* The calls on their way, and the state behind them, in every reply.       *)
THEOREM CallsAreInvariant == Spec => []CallsInv
<1>1. Init => CallsInv  BY InitCalls
<1>2. StreamInv /\ CallsInv /\ [Next]_vars => CallsInv'  BY NextCalls
<1> QED BY <1>1, <1>2, StreamIsInvariant, PTL DEF Spec

(* What is buffered for unfinished calls is counted exactly and stays       *)
(* within Config.MaxToolInputBytes, whatever the limit, however many calls  *)
(* are in flight and in whatever order their deltas come                    *)
(* (openaicompat.go:667, responses.go:187).                                 *)
THEOREM BuffersStayBounded == Spec => []BuffersBounded
<1>1. StreamInv /\ CallsInv => BuffersBounded
  <2> SUFFICES ASSUME StreamInv, CallsInv PROVE BuffersBounded  OBVIOUS
  <2>1. provider \in Adapters /\ AdapterOK  BY SettingIs DEF StreamInv, CallsInv
  <2>2. CASE provider = "anthropic"
    <3>1. Buffered = Len(adapter.buf)  BY <2>2 DEF Buffered
    <3>2. Len(adapter.buf) <= adapter.limit  BY <2>1, <2>2 DEF AdapterOK, AnthropicOK
    <3> QED BY <2>2, <3>1, <3>2 DEF BuffersBounded
  <2>3. CASE provider = "openai"
    <3>1. Buffered = Cardinality(Fragments(adapter.calls, Unemitted(adapter.calls)))  BY <2>3 DEF Buffered
    <3>2. adapter.pending = Buffered /\ adapter.pending <= adapter.limit
      BY <2>1, <2>3, <3>1 DEF AdapterOK, OpenAICounts, Counted
    <3> QED BY <3>2 DEF BuffersBounded
  <2>4. CASE provider = "responses"
    <3>1. Buffered = Cardinality(Fragments(adapter.buffers, DOMAIN adapter.buffers))  BY <2>4 DEF Buffered
    <3>2. adapter.pending = Buffered /\ adapter.pending <= adapter.limit
      BY <2>1, <2>4, <3>1 DEF AdapterOK, ResponsesOK, Counted
    <3> QED BY <3>2 DEF BuffersBounded
  <2>5. CASE provider = "gemini"
    <3>1. Buffered = 0 /\ adapter.limit \in Nat  BY <2>1, <2>5 DEF Buffered, AdapterOK, GeminiOK
    <3> QED BY <2>5, <3>1 DEF BuffersBounded
  <2> QED BY <2>1, <2>2, <2>3, <2>4, <2>5 DEF Adapters
<1> QED BY <1>1, StreamIsInvariant, CallsAreInvariant, PTL

(* The arguments the consumer folds for a call are that call's own first    *)
(* fragments in their order, whichever calls ran in parallel, how their     *)
(* deltas interleaved or were numbered, what went missing and where the     *)
(* turn broke off (openaicompat.go:667, responses.go:187).                  *)
THEOREM ArgumentsStayWhole == Spec => []ArgsNeverSpliced
<1>1. CallsInv => ArgsNeverSpliced
  <2> SUFFICES ASSUME CallsInv PROVE ArgsNeverSpliced  OBVIOUS
  <2>1. IsSeq(acc.calls) /\ \A c \in Range(acc.calls) : Unspliced(c)  BY DEF CallsInv, CallsOK
  <2>2. \A i \in DOMAIN acc.calls : Unspliced(acc.calls[i])  BY <2>1, OwnSeq
  <2> QED BY <2>2 DEF ArgsNeverSpliced, Unspliced
<1> QED BY <1>1, CallsAreInvariant, PTL
==============================================================================
