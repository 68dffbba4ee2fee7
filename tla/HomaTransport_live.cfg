CONSTANTS
  m1 = m1
  m2 = m2
  Msgs = {m1, m2}
  MsgLen <- MCLiveTwo
  Pokeable = {m2}
  NoMsg = NoMsg
  PacketSize = 1
  UnscheduledBytes = 1
  GrantIncrement = 1
  MaxIncoming = 1
  Overcommit = 2
  MaxUnanswered = 1
  CompletedCache = 2
  MaxMsgLen = 16
SPECIFICATION FairSpec
PROPERTIES ReassemblyEnds NoStall
CHECK_DEADLOCK FALSE
