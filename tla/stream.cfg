CONSTANTS
  Lens = {2, 3}
  MaxPackets = 3
  OutSize = 4
  MaxOut = 8
  InSize = 4
  MaxIn = 9
  Room = 3
  HeaderLen = 2
  MaxPacket = 3
  ReadSize = 2
  MoveForward = 5
  BufferSize = 10
SPECIFICATION FairSpec
CHECK_DEADLOCK FALSE
INVARIANTS
  TypeOK
  UnsentIsScheduled
  BufferNeverWraps
PROPERTIES
  OnlyBacklogDrops
  KeepsItsPromise
