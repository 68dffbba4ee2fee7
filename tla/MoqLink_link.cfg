SPECIFICATION Spec
CONSTANTS
  CookieTtl = 2
  TicketTtl = 1
  WindowSize = 3
  Noise = Noise
  Conns <- MCConns
  MaxSeq = 6
  Budgets <- MCBudgets
CHECK_DEADLOCK FALSE
INVARIANTS
  SameView
  UsedOnce
  WindowIsExact
  DeliveredIsPrefix
  LinksProgress
