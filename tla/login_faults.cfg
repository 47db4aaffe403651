CONSTANTS
  Games = {g1, g2}
  g1 = g1
  g2 = g2
  StubGame = g1
  Clients = {c1, c2}
  c1 = c1
  c2 = c2
  Users = {u1}
  u1 = u1
  u2 = u2
  UserOf <- OneUser
  Ids = {i1, i2}
  i1 = i1
  i2 = i2
  NewId = i1
  DbFaults = {"failed", "lost"}
  ConnIndex <- Collision
  MaxLogin = 2
  MaxCreate = 1
  MaxRole = 2
  NoGame = NoGame
  NoId = NoId
  NoEntity = NoEntity
  NoClient = NoClient
  Stub = Stub
SPECIFICATION Spec
CHECK_DEADLOCK FALSE
SYMMETRY Symm2
CONSTRAINT TwoLogins
INVARIANTS
  IInv
