SPECIFICATION Spec
CONSTANTS
  Nodes = {a, b}
  MaxConns = 3
  SockCap = 1
  ChanCap = 2
  CmdCap = 1
  Budgets <- MCBudgets
INVARIANTS Registered RelayedFaithfully HangsAreExplained
CHECK_DEADLOCK FALSE
SYMMETRY Symmetry
