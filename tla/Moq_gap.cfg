SPECIFICATION Spec
CONSTANTS
  GroupCapacity = 2
  QueueCapacity = 2
  BroadcastCapacity = 2
  MaxCalls = 2
  Pubs <- MCPubs
  Subs <- MCSubs
  Tracks <- MCTracks
  Budgets <- GapBudgets
CHECK_DEADLOCK FALSE
INVARIANTS
  WindowHasGroup
