CONSTANTS
  a1 = a1
  a2 = a2
  a3 = a3
  p1 = p1
  p2 = p2
  NoAppender = NoAppender
  NoPacket = NoPacket
  TornRow = TornRow
  Appender = {a1, a2, a3}
  Packet = {p1, p2}
  MaxCalls = 5
  MaxFaults = 2
SPECIFICATION FairSpec
INVARIANTS
  TypeOK
  NoPartialRow
  PacketOnce
  OneAcceptance
PROPERTIES
  ImplementsEvidenceLog
  AppendsEnd
CHECK_DEADLOCK FALSE
