CONSTANTS
  Threads = {t1, t2}
  grant = grant
  short = short
  long = long
  late = late
  ApiItems = {short, long}
  IoItems = {grant, late}
  Control = {grant}
  Prio <- MCPrio
  NumPriorities = 2
  Budget = 2
SPECIFICATION FairSpec
INVARIANTS ExactlyOnePlace FlushedBeforeDropped
PROPERTIES HighestFirst PushedIsSent ShutdownEnds
CHECK_DEADLOCK FALSE
