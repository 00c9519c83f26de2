------------------------------ MODULE MCAgentRun ------------------------------
(***************************************************************************)
(* AgentRun for TLC: one run and one replay of it; a preview holds two     *)
(* pieces, so that answers of three, and one of the files, are cut.        *)
(***************************************************************************)
EXTENDS AgentRun

CONSTANTS r1, r2, readme, doc

MCTexts == {<<"x">>, <<"y", "y", "y">>}
MCContent == [path \in {readme, doc} |-> <<"x">>]
MCWords == {readme, doc, "x", "y", "none", "primary", "mock", Dots}
MCHits == {<<"none">>, <<doc>>, <<doc, doc, doc>>}

Ask(agent, kind) ==
  [agent |-> agent, kind |-> kind, model |-> None, input |-> "a question", shared |-> FALSE]

MCRequests ==
  {Ask("echo", "openai"), Ask("echo", "anthropic"), [Ask("echo", "gemini") EXCEPT !.shared = TRUE],
   Ask("research-chain", "mock"), Ask("hitl-demo", "mock"), Ask("plugin", "gemini"),
   Ask("research", "mock"),
   [Ask("research", "groq") EXCEPT !.input = "a path", !.model = "another"]}

MCReplayings ==
  {[of |-> agent, agent |-> agent, shared |-> FALSE] : agent \in Agents}
  \cup {[of |-> "echo", agent |-> "echo", shared |-> TRUE],
        [of |-> "research", agent |-> "research-chain", shared |-> FALSE]}

MCConfigs ==
  {[failover |-> TRUE, privacy |-> FALSE, hitl |-> TRUE],
   [failover |-> FALSE, privacy |-> TRUE, hitl |-> FALSE]}
=============================================================================
