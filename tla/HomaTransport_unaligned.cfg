CONSTANTS
  m1 = m1
  m2 = m2
  Msgs = {m1}
  MsgLen <- MCLongLen
  Pokeable = {}
  NoMsg = NoMsg
  PacketSize = 2
  UnscheduledBytes = 2
  GrantIncrement = 3
  MaxIncoming = 2
  Overcommit = 2
  MaxUnanswered = 2
  CompletedCache = 2
  MaxMsgLen = 16
SPECIFICATION Spec
INVARIANT ReassemblyOpen
CHECK_DEADLOCK FALSE
