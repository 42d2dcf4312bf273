--------------------------- MODULE MCToolAgentLoop ---------------------------
(* Small instances of ToolAgentLoop for TLC. *)
EXTENDS ToolAgentLoop

TwoConversations == {"c1", "c2"}

\* Tools that return images, behind vLLM with logprobs
Tools == [assistantTurns |-> 0, userTurns |-> 0, interaction |-> FALSE,
          processor |-> TRUE, logprobs |-> TRUE, reserved |-> 0]
\* A simulated user and no images, behind vLLM
Users == [assistantTurns |-> 0, userTurns |-> 2, interaction |-> TRUE,
          processor |-> FALSE, logprobs |-> TRUE, reserved |-> 0]
\* SGLang, with few turns
Short == [assistantTurns |-> 2, userTurns |-> 1, interaction |-> FALSE,
          processor |-> FALSE, logprobs |-> FALSE, reserved |-> 1]

ThreeSettings == {Tools, Users, Short}
=============================================================================
