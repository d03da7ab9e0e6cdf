--------------------------- MODULE ConversationOps ---------------------------
(***************************************************************************)
(* The messages of a Conversation, as far as a Session tells them apart.   *)
(***************************************************************************)
EXTENDS Naturals, Sequences

CONSTANTS Callers, Clients

User(c) == [role |-> "user", from |-> c]

(* A reply says whose it is (its provenance) and whether its turn has only  *)
(* paused.  ran and sent are history: the client that gave it, and how many *)
(* messages that client was sent.                                           *)
Reply(provider, ran, sent, paused) ==
    [role |-> "assistant", provider |-> provider, ran |-> ran, sent |-> sent,
     paused |-> paused]

Messages ==
    [role : {"user"}, from : Callers]
        \union [role : {"assistant"}, provider : Clients, ran : Clients,
                sent : Nat, paused : BOOLEAN]

(* pausedTurn *)
Paused(ms) ==
    /\ ms # <<>>
    /\ ms[Len(ms)].role = "assistant"
    /\ ms[Len(ms)].paused
==============================================================================
