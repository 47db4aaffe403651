CONSTANTS
  g1 = g1
  d1 = d1
  Procs = {g1, d1}
  StubProc = g1
  Watchers = {g1, d1}
  Dbs = {d1}
  DesireNum = 1
  MaxFault = 2
  NULL = NULL
SPECIFICATION Spec
CHECK_DEADLOCK FALSE
INVARIANT OneStub
