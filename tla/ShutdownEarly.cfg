CONSTANTS
  Tokens <- TheTokens
  Waiters <- TheWaiters
SPECIFICATION Spec
INVARIANTS ShutdownAwaitsTasks
CHECK_DEADLOCK FALSE
