-------------------------- MODULE MCStreamPipeline --------------------------
(* Replies of up to three blocks that bring out every handler: parallel     *)
(* calls, a call between texts, reasoning before a call, a server tool.     *)
EXTENDS StreamPipeline

MCBlockIDs == <<"b1", "b2", "b3">>

MCTurns == {<<"text">>, <<"thinking", "text">>, <<"tool", "tool">>, <<"thinking", "tool", "tool">>,
            <<"text", "tool", "text">>, <<"server", "result", "text">>, <<"server", "tool">>}
=============================================================================
