CONSTANTS
  BuildingIndex = {"p", "q"}
  BuildingType = {"farm", "mill", "mine"}
  Resource = {"gold", "wood", "iron"}
  UnlockNeedMoney <- Unlock
  BuildingUpgrade <- Upgrades
  StartResources <- Start
  Founded <- Rows
  INVALID_RESOURCE_TYPE = "none"
  StartTime = 3
  MaxStall = 2
  MaxTime = 6
  NULL = NULL
SPECIFICATION Spec
CHECK_DEADLOCK FALSE
INVARIANTS
  TypeOK
  NoDebt
  OnlyGapsTakeItDown
PROPERTIES
  LazyIsEager
