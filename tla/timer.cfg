CONSTANTS
  SECOND_IN_MINUTE = 3
  MINUTE_IN_HOUR = 3
  HOUR_IN_DAY = 2
  DayNum = 2
  Timer = {t1, t2, t3}
  RefreshDelay = 1
  InitDelay = 2
  ServerDelays = {1}
  RobotDelays = {1, 3, 5, 9, 13, 23}
  MaxStall = 2
  MaxTime = 23
  NULL = NULL
SPECIFICATION Spec
CHECK_DEADLOCK FALSE
SYMMETRY Symm
INVARIANTS
  ListsAreSound
  OnlyArmedTimersRun
  NeverLate
  EarlyByCarriesOnly
