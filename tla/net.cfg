CONSTANTS
  Sockets = {s1}
  s1 = s1
  MaxRead = 2
  MaxSay = 2
  MaxKick = 2
SPECIFICATION FairSpec
CHECK_DEADLOCK FALSE
INVARIANTS
  TypeOK
  EverySocketHasOnePlace
  EveryPacketHasOnePlace
  PacketsMeetTheirHandler
PROPERTIES
  ClosedIsReleased
