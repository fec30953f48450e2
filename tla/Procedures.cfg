INIT Init
NEXT Next
CONSTANTS
  MaxCalls = 5
  Emitting = TRUE
  Concurrent = TRUE
INVARIANTS BaseRestored FramesUnique StackIsCallChain
CHECK_DEADLOCK FALSE
