\* Two requests, one with tools and one with a simulated user, and one answer is
\* enough.
CONSTANTS
  N = 2
  WithTools <- OneOfTwo
  WithInteraction <- Second
  PromptTokens = 1
  PromptLength = 2
  ResponseLength = 5
  MaxModelLen = 8
  MaxAssistantTurns = 2
  MaxUserTurns = 1
  Target = 1
  MaxReply = 1
  MaxToolTokens = 2
  MayFail = TRUE
SPECIFICATION FairSpec
INVARIANTS
  TypeOK
  RowsAreConversations
  EnoughAnswered
  ToolsReleased
PROPERTY BatchEnds
