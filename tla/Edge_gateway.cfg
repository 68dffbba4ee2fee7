SPECIFICATION Spec
CONSTANTS
  Capacity = 3
  Timeout = 2
  Burst = 2
  Cost = 2
  MaxBuckets = 1
  Window = 3
  Threshold = 2
  Ratio = 2
  M = 5
  Backends = {1, 2, 3}
  Readers = {r1, r2}
  Flows <- MCFlows
  Interval = 1
  SweepEvery = 2
  MaxTime = 4
  Budgets <- MCBudgets
INVARIANTS TableFollowsProbes SnapshotsAreSafe LutBalanced TableIsLru FiltersAreExact
CHECK_DEADLOCK FALSE
