----------------------------- MODULE RoleTables -----------------------------
(* The tables a game loads before it serves anybody (building.xml,         *)
(* building_upgrade.xml, common.xml), and what the economy of a role reads *)
(* from them.  A cost is a list of types and amounts; it is a function     *)
(* here, as a list that names a type twice would be checked and charged    *)
(* in two parts.  Amounts are taken to fit in TResourceNum_t.              *)
EXTENDS Integers

CONSTANTS
  BuildingIndex, BuildingType, Resource,
  UnlockNeedMoney, \* tbl_building: the cost of a building of each type
  BuildingUpgrade, \* tbl_building_upgrade: per level and type, cost to upgrade and product
  StartResources,  \* tbl_common, row 1: what a new role owns
  INVALID_RESOURCE_TYPE

(* An amount of some resources.                                            *)
IsAmount(c) == DOMAIN c \subseteq Resource /\ \A r \in DOMAIN c : c[r] \in Nat

(* get(level) finds a row; the row lists a type.                           *)
HasLevel(level) == level \in DOMAIN BuildingUpgrade
Lists(level, type) == HasLevel(level) /\ type \in DOMAIN BuildingUpgrade[level]

(* A building of one type makes the same resource at all levels: read_row  *)
(* takes the type of the product from the first entry of the cost.         *)
ASSUME TablesAssumption ==
  /\ INVALID_RESOURCE_TYPE \notin Resource
  /\ IsAmount(StartResources)
  /\ DOMAIN UnlockNeedMoney \subseteq BuildingType
  /\ \A t \in DOMAIN UnlockNeedMoney : IsAmount(UnlockNeedMoney[t])
  /\ DOMAIN BuildingUpgrade \subseteq Nat \ {0} /\ 1 \in DOMAIN BuildingUpgrade
  /\ \A l \in DOMAIN BuildingUpgrade : DOMAIN BuildingUpgrade[l] \subseteq BuildingType
  /\ \A l \in DOMAIN BuildingUpgrade : \A t \in DOMAIN BuildingUpgrade[l] :
       /\ IsAmount(BuildingUpgrade[l][t].need)
       /\ BuildingUpgrade[l][t].first \in DOMAIN BuildingUpgrade[l][t].need
       /\ BuildingUpgrade[l][t].unit \in Nat
       /\ BuildingUpgrade[l][t].interval \in Nat
  /\ \A l, k \in DOMAIN BuildingUpgrade :
       \A t \in DOMAIN BuildingUpgrade[l] \cap DOMAIN BuildingUpgrade[k] :
         BuildingUpgrade[l][t].first = BuildingUpgrade[k][t].first

(* role::get_resource_speed: the product of a building, and how much of it *)
(* a second makes.                                                         *)
Product(level, type) ==
  IF Lists(level, type) THEN BuildingUpgrade[level][type].first ELSE INVALID_RESOURCE_TYPE
Speed(level, type) ==
  IF Lists(level, type) THEN BuildingUpgrade[level][type].unit ELSE 0

(* Variant for the checks: one resource of the cost is enough.             *)
AffordsSome(owned, cost) ==
  \E r \in DOMAIN cost : r \in DOMAIN owned /\ owned[r] >= cost[r]

(* role::check_resource for each entry of a cost.                          *)
Affords(owned, cost) ==
  \A r \in DOMAIN cost : r \in DOMAIN owned /\ owned[r] >= cost[r]

(* role::desc_resource for each entry of a cost.                           *)
Charged(owned, cost) ==
  [r \in DOMAIN owned |-> IF r \in DOMAIN cost THEN owned[r] - cost[r] ELSE owned[r]]
=============================================================================
