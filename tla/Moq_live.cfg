SPECIFICATION Spec
CONSTANTS
  GroupCapacity = 2
  QueueCapacity = 2
  BroadcastCapacity = 2
  MaxCalls = 2
  Pubs <- MCPubs
  Subs <- MCSubs
  Tracks <- MCTracks
  Budgets <- MCBudgets
CHECK_DEADLOCK FALSE
INVARIANTS
  AliasResolves
  CacheIsWindow
  SeamlessJoin
  HeadsFirst
  TasksEnd
