CONSTANTS
  m1 = m1
  m2 = m2
  Msgs = {m1, m2}
  MsgLen <- MCRivals
  Pokeable = {m1, m2}
  NoMsg = NoMsg
  PacketSize = 2
  UnscheduledBytes = 2
  GrantIncrement = 2
  MaxIncoming = 2
  Overcommit = 1
  MaxUnanswered = 0
  CompletedCache = 2
  MaxMsgLen = 8
SYMMETRY RivalSymmetry
SPECIFICATION Spec
INVARIANTS TransportSafe ReassemblyOpen
PROPERTY ImplementsDelivery
CHECK_DEADLOCK FALSE
