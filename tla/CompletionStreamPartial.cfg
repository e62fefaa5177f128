\* A body that ends without its terminator, read by a client that takes it for whole.
SPECIFICATION Spec
CONSTANTS
  MaxTokens = 1
  Providers = {"openaicompat"}
  StoreFails = FALSE
INVARIANT PartialIsNotStored
CHECK_DEADLOCK FALSE
