CONSTANTS
  Period = 3
  Frame = 1
  Latency = 1
  Start = 3
  s1 = s1
  s2 = s2
  Slots = {s1, s2}
  MaxEntities = 2
  MaxCalls = 3
  MaxClock = 14
SPECIFICATION Spec
CHECK_DEADLOCK FALSE
SYMMETRY Symm
INVARIANTS
  TypeOK
  CallbacksFindTheirAccount
  EachSlotHasOneUse
  FreedInTime
PROPERTIES
  GraceIsKept
