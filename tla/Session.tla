------------------------------- MODULE Session -------------------------------
(***************************************************************************)
(* Session of session.go: concurrent Send, Stream, Continue and Append     *)
(* calls on one conversation, while SwitchProvider replaces the client.    *)
(*                                                                         *)
(* turnMu is held for a whole turn and is modelled.  stateMu is held for a *)
(* few assignments at a time, so each of its critical sections is a step,  *)
(* and a snapshot (Conversation, Usage) is the state between two steps.    *)
(***************************************************************************)
EXTENDS ConversationOps

CONSTANTS
    NoCaller,     \* nobody
    FirstClient,  \* the client the session starts with
    MaxMessages   \* bound: no call starts on a transcript this long

ASSUME NoCallerAssumption == NoCaller \notin Callers
ASSUME FirstClientAssumption == FirstClient \in Clients

VARIABLES
    turnMu,    \* the caller that holds it
    client,    \* s.client
    messages,  \* s.conv.Messages
    call       \* the calls

vars == <<turnMu, client, messages, call>>

(* A call: whether it continues a paused turn, the client it has captured,  *)
(* the length of its request, whether the stream's terminal event is there, *)
(* and whether the response says that the turn has paused.                  *)
CallRecords ==
    [pc : {"idle", "lock", "prepare", "request", "commit", "return"},
     kind : {"send", "stream", "append"}, continuation : BOOLEAN,
     client : Clients, sent : Nat, done : BOOLEAN, paused : BOOLEAN]

NewCall(kind, continuation) ==
    [pc |-> "lock", kind |-> kind, continuation |-> continuation,
     client |-> FirstClient, sent |-> 0, done |-> FALSE, paused |-> FALSE]

Idle == [NewCall("append", FALSE) EXCEPT !.pc = "idle"]

TypeOK ==
    /\ turnMu \in Callers \union {NoCaller}
    /\ client \in Clients
    /\ messages \in Seq(Messages)
    /\ call \in [Callers -> CallRecords]

Init ==
    /\ turnMu = NoCaller
    /\ client = FirstClient
    /\ messages = <<>>
    /\ call = [c \in Callers |-> Idle]

------------------------------------------------------------------------------

At(c, step) == call[c].pc = step

Become(c, record) == call' = [call EXCEPT ![c] = record]

Goto(c, step) == Become(c, [call[c] EXCEPT !.pc = step])

(* Send and Stream have a prompt, Continue and StreamContinue none.         *)
Start(c) ==
    /\ At(c, "idle")
    /\ Len(messages) < MaxMessages
    /\ \/ Become(c, NewCall("append", FALSE))
       \/ \E kind \in {"send", "stream"}, continuation \in BOOLEAN :
             Become(c, NewCall(kind, continuation))
    /\ UNCHANGED <<turnMu, client, messages>>

Lock(c) ==
    /\ At(c, "lock")
    /\ turnMu = NoCaller
    /\ turnMu' = c
    /\ Goto(c, "prepare")
    /\ UNCHANGED <<client, messages>>

(* Faulty: Append does not wait for the turn in flight. *)
AddUnlocked(c) ==
    /\ At(c, "lock")
    /\ call[c].kind = "append"
    /\ messages' = Append(messages, User(c))
    /\ Become(c, Idle)
    /\ UNCHANGED <<turnMu, client>>

Add(c) ==
    /\ At(c, "prepare")
    /\ call[c].kind = "append"
    /\ messages' = Append(messages, User(c))
    /\ Goto(c, "return")
    /\ UNCHANGED <<turnMu, client>>

(* The transcript with the input of the turn: a continuation has none.      *)
WithInput(c) ==
    IF call[c].continuation THEN messages ELSE Append(messages, User(c))

(* Faulty: ErrNotPaused is returned with turnMu held. *)
RefuseWithLock(c) ==
    /\ At(c, "prepare")
    /\ call[c].continuation
    /\ ~Paused(messages)
    /\ Become(c, Idle)
    /\ UNCHANGED <<turnMu, client, messages>>

(* prepareTurn of a continuation when there is nothing to continue.         *)
Refuse(c) ==
    /\ At(c, "prepare")
    /\ call[c].continuation
    /\ ~Paused(messages)
    /\ Goto(c, "return")
    /\ UNCHANGED <<turnMu, client, messages>>

(* prepareTurn: the client is captured with the transcript it is sent.      *)
Prepare(c) ==
    /\ At(c, "prepare")
    /\ call[c].kind # "append"
    /\ call[c].continuation => Paused(messages)
    /\ Become(c, [call[c] EXCEPT !.pc = "request", !.client = client,
                                 !.sent = Len(WithInput(c))])
    /\ UNCHANGED <<turnMu, client, messages>>

(* Complete answers, or fails (a nil response counts as a failure).         *)
Answer(c) ==
    /\ At(c, "request")
    /\ call[c].kind = "send"
    /\ \/ \E paused \in BOOLEAN :
             Become(c, [call[c] EXCEPT !.pc = "commit", !.paused = paused])
       \/ Goto(c, "return")
    /\ UNCHANGED <<turnMu, client, messages>>

(* EventDone arrives and the consumer goes on.  Other events change nothing *)
(* that is recorded here; they may follow as well.                          *)
EventDone(c) ==
    /\ At(c, "request")
    /\ call[c].kind = "stream"
    /\ ~call[c].done
    /\ \E paused \in BOOLEAN :
          Become(c, [call[c] EXCEPT !.done = TRUE, !.paused = paused])
    /\ UNCHANGED <<turnMu, client, messages>>

(* The stream fails, or the consumer breaks, be it at EventDone.            *)
Abandon(c) ==
    /\ At(c, "request")
    /\ call[c].kind = "stream"
    /\ Goto(c, "return")
    /\ UNCHANGED <<turnMu, client, messages>>

(* The stream ends.                                                         *)
EndOfStream(c) ==
    /\ At(c, "request")
    /\ call[c].kind = "stream"
    /\ Goto(c, IF call[c].done THEN "commit" ELSE "return")
    /\ UNCHANGED <<turnMu, client, messages>>

(* Faulty: the reply is attributed to the client of the moment. *)
CommitAsCurrent(c) ==
    /\ At(c, "commit")
    /\ messages' = Append(WithInput(c), Reply(client, call[c].client, call[c].sent,
                                              call[c].paused))
    /\ Goto(c, "return")
    /\ UNCHANGED <<turnMu, client>>

(* commitTurn *)
Commit(c) ==
    /\ At(c, "commit")
    /\ messages' = Append(WithInput(c), Reply(call[c].client, call[c].client,
                                              call[c].sent, call[c].paused))
    /\ Goto(c, "return")
    /\ UNCHANGED <<turnMu, client>>

(* The deferred Unlock. *)
Return(c) ==
    /\ At(c, "return")
    /\ turnMu' = NoCaller
    /\ Become(c, Idle)
    /\ UNCHANGED <<client, messages>>

(* SwitchProvider, at any moment: between two events of a stream as well.   *)
SwitchProvider(p) ==
    /\ client # p
    /\ client' = p
    /\ UNCHANGED <<turnMu, messages, call>>

Step(c) ==
    \/ Lock(c) \/ Add(c) \/ Refuse(c) \/ Prepare(c) \/ Answer(c) \/ EventDone(c)
    \/ Abandon(c) \/ EndOfStream(c) \/ Commit(c) \/ Return(c)

Next ==
    \/ \E c \in Callers : Start(c) \/ Step(c)
    \/ \E p \in Clients : SwitchProvider(p)

Spec == Init /\ [][Next]_vars

(* A sync.Mutex hands itself to whoever has waited for long; a client's     *)
(* calls return and its streams end; a consumer does not call the session   *)
(* for another turn from within the loop, where it would wait for itself.   *)
FairSpec ==
    /\ Spec
    /\ \A c \in Callers : WF_vars(Step(c)) /\ SF_vars(Lock(c))

------------------------------------------------------------------------------

(* The transcript is that of turns run one after the other: nothing stands  *)
(* between what a provider was sent and its reply, a continuation follows   *)
(* the turn that paused, and each reply is attributed to the client that    *)
(* gave it, whatever was appended or switched while it was in flight.       *)
Abstract == INSTANCE Transcript
TurnsAreAtomic == Abstract!Spec

(* A reply's provenance is true, although the client may be replaced while  *)
(* the turn is in flight: what decides later which thinking blocks may be   *)
(* replayed to whom.                                                        *)
ProvenanceIsTrue ==
    \A i \in 1 .. Len(messages) :
        messages[i].role = "assistant" => messages[i].provider = messages[i].ran

(* Every call returns, however many others want their turn.                 *)
CallsReturn == \A c \in Callers : ~At(c, "idle") ~> At(c, "idle")
==============================================================================
