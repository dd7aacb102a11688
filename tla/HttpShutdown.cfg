CONSTANTS
  Tokens <- TheTokens
  Waiters <- TheWaiters
SPECIFICATION FairSpec
INVARIANTS TrackerTypeOK ShutdownTypeOK PromiseSetOnce NoLostWakeUp ReturnMeansIdled
PROPERTIES ShutdownReturns
CHECK_DEADLOCK FALSE
