CONSTANTS
  Clients <- TwoClients
  Threads <- TwoThreads
  Topic <- TwoTopics
  Follows <- TwoViews
  Limit = 2
  MaxEvents <- FewEvents
SPECIFICATION StreamFairSpec
INVARIANT StreamTypeOK
INVARIANT DropsOnlyWhenFull
PROPERTY QueuedIsShown
CHECK_DEADLOCK FALSE
