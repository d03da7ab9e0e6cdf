---------------------------- MODULE SessionProofs ----------------------------
(***************************************************************************)
(* Proofs about Session, for any callers, clients and transcripts.         *)
(***************************************************************************)
EXTENDS Session, TLAPS

LEMMA BecomeFacts ==
    ASSUME call \in [Callers -> CallRecords], NEW c \in Callers,
           NEW record \in CallRecords, Become(c, record)
    PROVE  /\ call' \in [Callers -> CallRecords]
           /\ call'[c] = record
           /\ \A d \in Callers : d # c => call'[d] = call[d]
BY DEF Become

LEMMA GotoFacts ==
    ASSUME call \in [Callers -> CallRecords], NEW c \in Callers,
           NEW step \in {"idle", "lock", "prepare", "request", "commit", "return"},
           Goto(c, step)
    PROVE  /\ call' \in [Callers -> CallRecords]
           /\ call'[c].pc = step
           /\ call'[c].kind = call[c].kind
           /\ call'[c].continuation = call[c].continuation
           /\ call'[c].client = call[c].client
           /\ call'[c].sent = call[c].sent
           /\ call'[c].paused = call[c].paused
           /\ \A d \in Callers : d # c => call'[d] = call[d]
<1> DEFINE record == [call[c] EXCEPT !.pc = step]
<1>1. record \in CallRecords
  BY DEF CallRecords
<1>2. Become(c, record)
  BY DEF Goto
<1> HIDE DEF record
<1>3. /\ call' \in [Callers -> CallRecords]
      /\ call'[c] = record
      /\ \A d \in Callers : d # c => call'[d] = call[d]
  BY <1>1, <1>2, BecomeFacts
<1> QED
  BY <1>3 DEF record, CallRecords

LEMMA IdleIsACall == Idle \in CallRecords /\ Idle.pc = "idle"
BY FirstClientAssumption DEF Idle, NewCall, CallRecords

(* The transcript consists of messages, the lock has at most one holder, and *)
(* every call is in one of its steps with a client of the session.          *)
THEOREM TypeCorrect == Spec => []TypeOK
<1>1. Init => TypeOK
  BY IdleIsACall, FirstClientAssumption DEF Init, TypeOK
<1>2. TypeOK /\ [Next]_vars => TypeOK'
  <2> SUFFICES ASSUME TypeOK, [Next]_vars
               PROVE  TypeOK'
    OBVIOUS
  <2> USE DEF TypeOK
  <2>0. \A c \in Callers : User(c) \in Messages
    BY DEF User, Messages
  <2>1. ASSUME NEW c \in Callers, Start(c)
        PROVE  TypeOK'
    <3>1. PICK record \in CallRecords : Become(c, record)
      BY <2>1, FirstClientAssumption DEF Start, NewCall, CallRecords
    <3> QED
      BY <2>1, <3>1, BecomeFacts DEF Start
  <2>2. ASSUME NEW c \in Callers, Lock(c) \/ Refuse(c) \/ Abandon(c)
        PROVE  TypeOK'
    BY <2>2, GotoFacts DEF Lock, Refuse, Abandon
  <2>3. ASSUME NEW c \in Callers, Add(c)
        PROVE  TypeOK'
    <3>1. messages' \in Seq(Messages)
      BY <2>0, <2>3 DEF Add
    <3> QED
      BY <2>3, <3>1, GotoFacts DEF Add
  <2>4. ASSUME NEW c \in Callers, Prepare(c)
        PROVE  TypeOK'
    <3>1. Len(WithInput(c)) \in Nat
      BY <2>0 DEF WithInput
    <3>2. [call[c] EXCEPT !.pc = "request", !.client = client,
                          !.sent = Len(WithInput(c))] \in CallRecords
      BY <3>1 DEF CallRecords
    <3> QED
      BY <2>4, <3>2, BecomeFacts DEF Prepare
  <2>5. ASSUME NEW c \in Callers, Answer(c)
        PROVE  TypeOK'
    <3>1. \A paused \in BOOLEAN :
             [call[c] EXCEPT !.pc = "commit", !.paused = paused] \in CallRecords
      BY DEF CallRecords
    <3> QED
      BY <2>5, <3>1, BecomeFacts, GotoFacts DEF Answer
  <2>6. ASSUME NEW c \in Callers, EventDone(c)
        PROVE  TypeOK'
    <3>1. \A paused \in BOOLEAN :
             [call[c] EXCEPT !.done = TRUE, !.paused = paused] \in CallRecords
      BY DEF CallRecords
    <3> QED
      BY <2>6, <3>1, BecomeFacts DEF EventDone
  <2>7. ASSUME NEW c \in Callers, EndOfStream(c)
        PROVE  TypeOK'
    <3>1. Goto(c, "commit") \/ Goto(c, "return")
      BY <2>7 DEF EndOfStream
    <3> QED
      BY <2>7, <3>1, GotoFacts DEF EndOfStream
  <2>8. ASSUME NEW c \in Callers, Commit(c)
        PROVE  TypeOK'
    <3>1. Reply(call[c].client, call[c].client, call[c].sent, call[c].paused)
             \in Messages
      BY DEF Reply, Messages, CallRecords
    <3>2. messages' \in Seq(Messages)
      BY <2>0, <2>8, <3>1 DEF Commit, WithInput
    <3> QED
      BY <2>8, <3>2, GotoFacts DEF Commit
  <2>9. ASSUME NEW c \in Callers, Return(c)
        PROVE  TypeOK'
    BY <2>9, IdleIsACall, BecomeFacts DEF Return
  <2>10. ASSUME NEW p \in Clients, SwitchProvider(p)
         PROVE  TypeOK'
    BY <2>10 DEF SwitchProvider
  <2>11. CASE UNCHANGED vars
    BY <2>11 DEF vars
  <2> QED
    BY <2>1, <2>2, <2>3, <2>4, <2>5, <2>6, <2>7, <2>8, <2>9, <2>10, <2>11
       DEF Next, Step
<1> QED
  BY <1>1, <1>2, PTL DEF Spec

------------------------------------------------------------------------------

(* The strengthening: only the holder of turnMu is inside a turn, and while *)
(* it is, the transcript is still the one its request was made from.        *)
Inside(c) == call[c].pc \in {"prepare", "request", "commit", "return"}

Current(c) ==
    call[c].pc \in {"request", "commit"} =>
        /\ call[c].sent = Len(WithInput(c))
        /\ call[c].continuation => Paused(messages)

Alone ==
    \A c \in Callers : (Inside(c) => turnMu = c) /\ Current(c)

LEMMA AloneStep ==
    ASSUME TypeOK, Alone, [Next]_vars
    PROVE  Alone'
<1>0. call \in [Callers -> CallRecords]
  BY DEF TypeOK
<1>1. ASSUME NEW c \in Callers,
             call' \in [Callers -> CallRecords],
             \A d \in Callers : d # c => call'[d] = call[d],
             UNCHANGED <<turnMu, messages>>,
             Inside(c)' => Inside(c), Current(c)'
      PROVE  Alone'
  BY <1>0, <1>1 DEF Alone, Inside, Current, WithInput
<1>2. ASSUME NEW c \in Callers,
             \A d \in Callers : d # c => call'[d] = call[d],
             Inside(c), ~Inside(c)' \/ (turnMu' = c /\ call'[c].pc = "return")
      PROVE  Alone'
  <2>1. \A d \in Callers : d # c => ~Inside(d)
    BY <1>2, NoCallerAssumption DEF Alone
  <2>2. \A d \in Callers : d # c => ~Inside(d)'
    BY <1>2, <2>1 DEF Inside
  <2> QED
    BY <1>2, <2>2 DEF Alone, Inside, Current
<1>3. ASSUME NEW c \in Callers, Start(c)
      PROVE  Alone'
  <2>1. PICK record \in CallRecords : Become(c, record) /\ record.pc = "lock"
    <3>1. \A kind \in {"append", "send", "stream"}, continuation \in BOOLEAN :
             /\ NewCall(kind, continuation) \in CallRecords
             /\ NewCall(kind, continuation).pc = "lock"
      BY FirstClientAssumption DEF NewCall, CallRecords
    <3> QED
      BY <1>3, <3>1 DEF Start
  <2>2. /\ call' \in [Callers -> CallRecords]
        /\ call'[c] = record
        /\ \A d \in Callers : d # c => call'[d] = call[d]
    BY <1>0, <2>1, BecomeFacts
  <2> QED
    BY <1>1, <1>3, <2>1, <2>2 DEF Start, Inside, Current
<1>4. ASSUME NEW c \in Callers, Lock(c)
      PROVE  Alone'
  <2>1. \A d \in Callers : ~Inside(d)
    BY <1>4, NoCallerAssumption DEF Lock, Alone
  <2>2. /\ call'[c].pc = "prepare"
        /\ \A d \in Callers : d # c => call'[d] = call[d]
    BY <1>0, <1>4, GotoFacts DEF Lock
  <2> QED
    BY <1>4, <2>1, <2>2 DEF Lock, Alone, Inside, Current
<1>5. ASSUME NEW c \in Callers, Add(c) \/ Commit(c)
      PROVE  Alone'
  <2>1. Inside(c) /\ turnMu' = c
    BY <1>5 DEF Add, Commit, At, Inside, Alone
  <2>2. /\ call'[c].pc = "return"
        /\ \A d \in Callers : d # c => call'[d] = call[d]
    BY <1>0, <1>5, GotoFacts DEF Add, Commit
  <2> QED
    BY <1>2, <2>1, <2>2
<1>6. ASSUME NEW c \in Callers, Refuse(c) \/ Abandon(c)
      PROVE  Alone'
  BY <1>0, <1>1, <1>6, GotoFacts DEF Refuse, Abandon, At, Inside, Current
<1>7. ASSUME NEW c \in Callers, Prepare(c)
      PROVE  Alone'
  <2>1. Len(WithInput(c)) \in Nat
    BY DEF WithInput, TypeOK, User, Messages
  <2> DEFINE record == [call[c] EXCEPT !.pc = "request", !.client = client,
                                       !.sent = Len(WithInput(c))]
  <2>2. record \in CallRecords
    BY <2>1, <1>0 DEF CallRecords, TypeOK
  <2>3. /\ record.sent = Len(WithInput(c))
        /\ record.continuation = call[c].continuation
    BY <1>0 DEF CallRecords
  <2>4. Become(c, record)
    BY <1>7 DEF Prepare
  <2> HIDE DEF record
  <2>5. /\ call' \in [Callers -> CallRecords]
        /\ call'[c] = record
        /\ \A d \in Callers : d # c => call'[d] = call[d]
    BY <1>0, <2>2, <2>4, BecomeFacts
  <2>6. Current(c)'
    BY <1>7, <2>3, <2>5 DEF Prepare, Current, WithInput
  <2> QED
    BY <1>1, <1>7, <2>5, <2>6 DEF Prepare, At, Inside
<1>8. ASSUME NEW c \in Callers, NEW record \in CallRecords, Become(c, record),
             At(c, "request"), record.sent = call[c].sent,
             record.continuation = call[c].continuation,
             UNCHANGED <<turnMu, messages>>
      PROVE  Alone'
  <2>1. /\ call' \in [Callers -> CallRecords]
        /\ call'[c] = record
        /\ \A d \in Callers : d # c => call'[d] = call[d]
    BY <1>0, <1>8, BecomeFacts
  <2>2. Current(c)'
    BY <1>8, <2>1 DEF Alone, At, Current, WithInput
  <2> QED
    BY <1>1, <1>8, <2>1, <2>2 DEF At, Inside
<1>9. ASSUME NEW c \in Callers, Answer(c) \/ EventDone(c) \/ EndOfStream(c)
      PROVE  Alone'
  <2>1. \E step \in {"request", "commit", "return"}, done, paused \in BOOLEAN :
           Become(c, [call[c] EXCEPT !.pc = step, !.done = done, !.paused = paused])
    <3>1. CASE Answer(c) \/ EndOfStream(c)
      <4>1. \A step : [call[c] EXCEPT !.pc = step]
               = [call[c] EXCEPT !.pc = step, !.done = call[c].done,
                                 !.paused = call[c].paused]
        BY <1>0 DEF CallRecords
      <4>2. \A paused : [call[c] EXCEPT !.pc = "commit", !.paused = paused]
               = [call[c] EXCEPT !.pc = "commit", !.done = call[c].done,
                                 !.paused = paused]
        BY <1>0 DEF CallRecords
      <4>3. call[c].done \in BOOLEAN /\ call[c].paused \in BOOLEAN
        BY <1>0 DEF CallRecords
      <4>4. CASE \E step \in {"commit", "return"} : Goto(c, step)
        BY <4>1, <4>3, <4>4 DEF Goto
      <4>5. CASE \E paused \in BOOLEAN :
                    Become(c, [call[c] EXCEPT !.pc = "commit", !.paused = paused])
        BY <4>2, <4>3, <4>5
      <4> QED
        BY <3>1, <4>4, <4>5 DEF Answer, EndOfStream
    <3>2. CASE EventDone(c)
      <4>1. \A paused : [call[c] EXCEPT !.done = TRUE, !.paused = paused]
               = [call[c] EXCEPT !.pc = "request", !.done = TRUE, !.paused = paused]
        BY <1>0, <3>2 DEF EventDone, At, CallRecords
      <4> QED
        BY <3>2, <4>1 DEF EventDone
    <3> QED
      BY <1>9, <3>1, <3>2
  <2>2. PICK step \in {"request", "commit", "return"}, done \in BOOLEAN,
             paused \in BOOLEAN :
             Become(c, [call[c] EXCEPT !.pc = step, !.done = done, !.paused = paused])
    BY <2>1
  <2> DEFINE record == [call[c] EXCEPT !.pc = step, !.done = done, !.paused = paused]
  <2>3. /\ record \in CallRecords /\ record.sent = call[c].sent
        /\ record.continuation = call[c].continuation
    BY <1>0 DEF CallRecords
  <2> HIDE DEF record
  <2> QED
    BY <1>8, <1>9, <2>2, <2>3 DEF record, Answer, EventDone, EndOfStream
<1>10. ASSUME NEW c \in Callers, Return(c)
       PROVE  Alone'
  <2>1. /\ call'[c] = Idle
        /\ \A d \in Callers : d # c => call'[d] = call[d]
    BY <1>0, <1>10, IdleIsACall, BecomeFacts DEF Return
  <2> QED
    BY <1>2, <1>10, <2>1, IdleIsACall DEF Return, At, Inside
<1>11. ASSUME NEW p \in Clients, SwitchProvider(p)
       PROVE  Alone'
  BY <1>11 DEF SwitchProvider, Alone, Inside, Current, WithInput
<1>12. CASE UNCHANGED vars
  BY <1>12 DEF vars, Alone, Inside, Current, WithInput
<1> QED
  BY <1>3, <1>4, <1>5, <1>6, <1>7, <1>9, <1>10, <1>11, <1>12 DEF Next, Step

LEMMA AloneInvariant == Spec => []Alone
<1>1. Init => Alone
  BY IdleIsACall DEF Init, Alone, Inside, Current
<1>2. TypeOK /\ Alone /\ [Next]_vars => Alone'
  BY AloneStep
<1> QED
  BY <1>1, <1>2, TypeCorrect, PTL DEF Spec

------------------------------------------------------------------------------

(* Only Add and Commit change the transcript.                               *)
LEMMA TranscriptSteps ==
    ASSUME [Next]_vars, messages' # messages
    PROVE  \E c \in Callers : Add(c) \/ Commit(c)
BY DEF Next, Step, Start, Lock, Refuse, Prepare, Answer, EventDone, Abandon,
       EndOfStream, Return, SwitchProvider, vars

(* Each step of the session is a step of Transcript or leaves it alone.     *)
LEMMA StepIsATurn ==
    ASSUME TypeOK, Alone, [Next]_vars
    PROVE  [Abstract!Next]_messages
<1>0. SUFFICES ASSUME messages' # messages
               PROVE  Abstract!Next
  OBVIOUS
<1>1. PICK c \in Callers : Add(c) \/ Commit(c)
  BY <1>0, TranscriptSteps
<1>2. CASE Add(c)
  BY <1>2 DEF Add, Abstract!Next, Abstract!Addition, User, Abstract!User
<1>3. CASE Commit(c)
  <2> DEFINE p == call[c].client
             paused == call[c].paused
  <2>1. /\ p \in Clients /\ paused \in BOOLEAN
        /\ call[c].continuation \in BOOLEAN
    BY DEF TypeOK, CallRecords
  <2>2. call[c].sent = Len(WithInput(c))
    BY <1>3 DEF Alone, Current, Commit, At
  <2>3. CASE call[c].continuation
    <3>1. Paused(messages) /\ WithInput(c) = messages
      BY <1>3, <2>3 DEF Alone, Current, Commit, At, WithInput
    <3>2. Abstract!Continuation(p, paused)
      BY <1>3, <2>2, <3>1 DEF Commit, Abstract!Continuation, Paused, Abstract!Paused,
         Reply, Abstract!Reply
    <3> QED
      BY <2>1, <3>2 DEF Abstract!Next
  <2>4. CASE ~call[c].continuation
    <3>1. User(c) \in Messages
      BY DEF User, Messages
    <3>2. WithInput(c) = Append(messages, User(c))
      BY <2>4 DEF WithInput
    <3>3. call[c].sent = Len(messages) + 1
      BY <2>2, <3>1, <3>2 DEF TypeOK
    <3>4. Abstract!Turn(c, p, paused)
      BY <1>3, <3>2, <3>3 DEF Commit, Abstract!Turn, User, Abstract!User, Reply, Abstract!Reply
    <3> QED
      BY <2>1, <3>4 DEF Abstract!Next
  <2> QED
    BY <2>1, <2>3, <2>4
<1> QED
  BY <1>1, <1>2, <1>3

(* Whatever is called and switched at the same time, the transcript grows   *)
(* as if turns were run one after the other.                                *)
THEOREM SessionImplementsTranscript == Spec => TurnsAreAtomic
<1>1. Init => Abstract!Init
  BY DEF Init, Abstract!Init
<1>2. TypeOK /\ Alone /\ [Next]_vars => [Abstract!Next]_messages
  BY StepIsATurn
<1> QED
  BY <1>1, <1>2, TypeCorrect, AloneInvariant, PTL DEF Spec, TurnsAreAtomic, Abstract!Spec

(* No reply is ever attributed to a client that did not give it.            *)
THEOREM TrueProvenance == Spec => []ProvenanceIsTrue
<1>1. Init => ProvenanceIsTrue
  BY DEF Init, ProvenanceIsTrue
<1>2. TypeOK /\ ProvenanceIsTrue /\ [Next]_vars => ProvenanceIsTrue'
  <2> SUFFICES ASSUME TypeOK, ProvenanceIsTrue, [Next]_vars
               PROVE  ProvenanceIsTrue'
    OBVIOUS
  <2>1. CASE messages' = messages
    BY <2>1 DEF ProvenanceIsTrue
  <2>2. ASSUME NEW c \in Callers, Add(c) \/ Commit(c)
        PROVE  ProvenanceIsTrue'
    <3> DEFINE u == User(c)
               r == Reply(call[c].client, call[c].client, call[c].sent, call[c].paused)
    <3>1. /\ u \in Messages /\ u.role = "user"
          /\ r \in Messages /\ r.provider = r.ran
      BY DEF TypeOK, CallRecords, User, Reply, Messages
    <3>2. /\ messages \in Seq(Messages)
          /\ messages' \in {Append(messages, u), Append(messages, r),
                            Append(Append(messages, u), r)}
      BY <2>2 DEF Add, Commit, WithInput, TypeOK
    <3> HIDE DEF u, r
    <3>3. ASSUME NEW ms \in Seq(Messages), NEW m \in Messages,
                 m.role = "user" \/ m.provider = m.ran,
                 \A i \in 1 .. Len(ms) :
                    ms[i].role = "assistant" => ms[i].provider = ms[i].ran
          PROVE  /\ Append(ms, m) \in Seq(Messages)
                 /\ \A i \in 1 .. Len(Append(ms, m)) :
                       Append(ms, m)[i].role = "assistant"
                          => Append(ms, m)[i].provider = Append(ms, m)[i].ran
      BY <3>3
    <3> QED
      BY <3>1, <3>2, <3>3 DEF ProvenanceIsTrue
  <2> QED
    BY <2>1, <2>2, TranscriptSteps
<1> QED
  BY <1>1, <1>2, TypeCorrect, PTL DEF Spec
==============================================================================
