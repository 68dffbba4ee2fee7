SPECIFICATION FairSpec
CONSTANTS
  c1 = c1
  c2 = c2
  w1 = w1
  w2 = w2
  Callers = {c1, c2}
  Workers = {w1, w2}
  MaxAttempts = 2
  MaxCalls = 2
  MaxLives = 2
  Instances <- MCInstances
  NoCall = NoCall
INVARIANTS HandlerOnce RpcSafe
PROPERTIES CallEnds DropEnds
CHECK_DEADLOCK FALSE
