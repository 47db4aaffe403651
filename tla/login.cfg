CONSTANTS
  Games = {g1, g2}
  g1 = g1
  g2 = g2
  StubGame = g1
  Clients = {c1, c2}
  c1 = c1
  c2 = c2
  Users = {u1}
  u1 = u1
  u2 = u2
  UserOf <- OneUser
  Ids = {i1}
  i1 = i1
  i2 = i2
  NewId = i1
  DbFaults = {}
  ConnIndex <- NoCollision
  MaxLogin = 1
  MaxCreate = 1
  MaxRole = 2
  NoGame = NoGame
  NoId = NoId
  NoEntity = NoEntity
  NoClient = NoClient
  Stub = Stub
SPECIFICATION FairSpec
CHECK_DEADLOCK FALSE
INVARIANTS
  TypeOK
  OnlyRegisteredRoleIsActive
  RelayNeverKicksRole
  OneRelayAtATime
  OneDeviceUnkicked
PROPERTIES
  KickedBeforeReplaced
  RelayEnds
  LoginAnswered
