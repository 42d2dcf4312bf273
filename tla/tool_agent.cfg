\* Two conversations with up to two calls a turn on a pool of two threads and one permit.
CONSTANTS
  Conversations <- TwoConversations
  PromptTokens = 2
  PromptLength = 2
  ResponseLength = 3
  Settings <- ThreeSettings
  MaxParallelCalls = 2
  NumWorkers = 2
  RateLimit = 1
  MaxRetries = 2
  MaxReply = 2
  MaxCalls = 3
  MaxAnswer = 2
SPECIFICATION FairSpec
INVARIANTS
  TypeOK
  OutputAligned
  RefusedOnlyForUsers
  ImagesHaveTokens
  RateRespected
PROPERTY EndsQuietly
