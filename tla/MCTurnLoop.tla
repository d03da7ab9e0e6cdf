---------------------------- MODULE MCTurnLoop -----------------------------
(* One model per way an adapter encodes a request.                          *)
EXTENDS TurnLoop
LOCAL INSTANCE TLC

Base == [provider |-> "openai", line |-> "gpt-4o", snapshot |-> "none", thinking |-> FALSE,
         supportsThinking |-> FALSE, responsesAPI |-> FALSE, noTools |-> FALSE, noSampling |-> FALSE,
         maxTokens |-> 64000, off |-> "none", noForcedChoice |-> FALSE, disabledUpToHigh |-> FALSE,
         efforts |-> {}]

Claude(line, off) == [Base EXCEPT !.provider = "anthropic", !.line = line, !.off = off, !.supportsThinking = TRUE]

MCModels ==
    {Base,
     [Base EXCEPT !.line = "gpt-5", !.responsesAPI = TRUE, !.supportsThinking = TRUE],
     [Base EXCEPT !.provider = "gemini", !.line = "gemini-flash", !.supportsThinking = TRUE, !.maxTokens = 100000],
     Claude("claude-haiku-4-5", "budget"),
     [Claude("claude-sonnet-5-5", "between") EXCEPT !.noForcedChoice = TRUE]}

MCGemini == {m \in MCModels : m.provider = "gemini"}

MCPlain == [stream |-> FALSE, tools |-> FALSE, serverTools |-> FALSE, container |-> FALSE, format |-> "none",
            level |-> "none", budget |-> 0, effort |-> "none", temperature |-> "none", strict |-> TRUE,
            sampled |-> FALSE, passedEffort |-> "none", choice |-> "auto", maxTokens |-> 8192]

MCAttachments == {DocumentPart(FALSE)}

MCSettings ==
    {[MCPlain EXCEPT !.tools = TRUE, !.choice = "required"],
     [MCPlain EXCEPT !.serverTools = TRUE],
     [MCPlain EXCEPT !.level = "high", !.tools = TRUE],
     [MCPlain EXCEPT !.level = "minimal", !.budget = 70000, !.maxTokens = 1100]}
=============================================================================
