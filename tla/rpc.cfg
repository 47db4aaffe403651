CONSTANTS
  Procs = {p1, p2}
  p1 = p1
  p2 = p2
  Kinds <- GameAndPeer
  TableOrder <- Order
  MaxConns = 2
  MaxSaid = 2
  None = None
SPECIFICATION FairSpec
CHECK_DEADLOCK FALSE
INVARIANTS
  TypeOK
  PointersAreLive
  HeardInOrder
PROPERTIES
  EverySayingIsHeard
