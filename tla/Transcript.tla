----------------------------- MODULE Transcript ------------------------------
(***************************************************************************)
(* What a Session promises of its conversation, whoever uses it: it grows  *)
(* by whole turns, as if each ran alone and at once.                       *)
(***************************************************************************)
EXTENDS ConversationOps

VARIABLE messages

Init == messages = <<>>

Addition(c) == messages' = Append(messages, User(c))

(* The prompt and its reply appear together, the client was sent exactly    *)
(* what stands before the reply, and the reply is attributed to it.         *)
Turn(c, p, paused) ==
    messages' = Append(Append(messages, User(c)),
                       Reply(p, p, Len(messages) + 1, paused))

(* What continues a paused turn follows it directly.                        *)
Continuation(p, paused) ==
    /\ Paused(messages)
    /\ messages' = Append(messages, Reply(p, p, Len(messages), paused))

Next ==
    \/ \E c \in Callers :
          Addition(c) \/ \E p \in Clients, paused \in BOOLEAN : Turn(c, p, paused)
    \/ \E p \in Clients, paused \in BOOLEAN : Continuation(p, paused)

Spec == Init /\ [][Next]_messages
==============================================================================
