\* A question by itself or as a turn of a conversation, answered by any client.
SPECIFICATION FairSpec
CONSTANTS
  MaxTokens = 3
  Providers = {"openaicompat", "anthropic", "ollama"}
  StoreFails = TRUE
INVARIANTS StoredAsTold StreamProtocol EndIsTold
PROPERTY HandlerReturns
CHECK_DEADLOCK FALSE
