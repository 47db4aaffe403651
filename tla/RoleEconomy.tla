---------------------------- MODULE RoleEconomy ----------------------------
(* The economy of a role (game/src/role.cpp): buildings that produce, are  *)
(* collected from, built and upgraded by the commands of its client.       *)
(* Nothing runs each second: a building keeps the time it was last         *)
(* accounted for, and on_building_changed catches up.  The commands name a *)
(* place and a type; a role comes new, from account::create_role, or from  *)
(* its row in the database.                                                *)
(*                                                                         *)
(* Left out: what the client is told, role::level, which nothing changes,  *)
(* and role::save, which nothing calls.                                    *)
EXTENDS RoleTables

CONSTANTS
  StartTime,  \* system time when the role comes to be
  Founded,    \* the buildings create_role writes to the database, by index
  MaxStall,   \* bound: seconds between two turns of the loop
  MaxTime,    \* bound: seconds of a behaviour
  NULL

ASSUME RoleAssumption ==
  /\ StartTime \in Nat \ {0} /\ MaxStall \in Nat \ {0} /\ MaxTime \in Nat
  /\ DOMAIN Founded \subseteq BuildingIndex
  /\ \A i \in DOMAIN Founded : Founded[i] \in BuildingType

(* building_info: what a building has in store is num of res, and what it  *)
(* made since start.                                                       *)
BuildingInfo == [type : BuildingType, level : Nat, res : Resource \cup {INVALID_RESOURCE_TYPE},
                 num : Nat, start : Nat, income : Nat]

(* A building as RoleProduction sees it.                                   *)
SiteInfo == [type : BuildingType, level : Nat, held : [Resource -> Nat], collected : Nat]

ASSUME NullAssumption == NULL \notin BuildingInfo \cup SiteInfo \cup BuildingIndex

VARIABLES
  now,        \* DTimeMgr.now_sys_time
  resources,  \* m_role_data.resources
  buildings,  \* m_role_data.buildings
  down        \* the building whose request took the process down

vars == <<now, resources, buildings, down>>

(* account::on_load_role_callback: the row has the buildings as they were  *)
(* first written, and no resources.                                        *)
Loaded(i) == [type |-> Founded[i], level |-> 0, res |-> INVALID_RESOURCE_TYPE,
              num |-> 0, start |-> 0, income |-> 0]

Init ==
  /\ now = StartTime /\ down = NULL
  /\ \/ resources = StartResources /\ buildings = [i \in BuildingIndex |-> NULL]
     \/ /\ resources = << >>
        /\ buildings = [i \in BuildingIndex |-> IF i \in DOMAIN Founded THEN Loaded(i) ELSE NULL]

(* time_manager::update, once in a turn of the loop.                       *)
Tick ==
  /\ down = NULL
  /\ \E seconds \in 1..MaxStall :
       /\ now + seconds <= StartTime + MaxTime
       /\ now' = now + seconds
  /\ UNCHANGED <<resources, buildings, down>>

(* Variant for the checks: the times are swapped.                          *)
OnBuildingChangedSwapped(b) ==
  [b EXCEPT !.res = Product(b.level, b.type),
            !.num = @ + (b.start - now) * Speed(b.level, b.type),
            !.start = now]

(* role::on_building_changed.                                              *)
OnBuildingChanged(b) ==
  [b EXCEPT !.res = Product(b.level, b.type),
            !.num = @ + (now - b.start) * Speed(b.level, b.type),
            !.start = now]

(* The part of on_income_resource that adds to the resources: one the role *)
(* does not have yet is made in a local variable and forgotten.            *)
Credited(owned, res, num) ==
  [r \in DOMAIN owned |-> IF r = res THEN owned[r] + num ELSE owned[r]]

(* role::income_resource.                                                  *)
IncomeResource(i) ==
  /\ down = NULL /\ buildings[i] # NULL
  /\ Lists(buildings[i].level, buildings[i].type)
  /\ buildings[i].income + BuildingUpgrade[buildings[i].level][buildings[i].type].interval <= now
  /\ LET b == OnBuildingChanged(buildings[i]) IN
       /\ resources' = Credited(resources, b.res, b.num)
       /\ buildings' = [buildings EXCEPT ![i] = [b EXCEPT !.num = 0, !.income = now]]
  /\ UNCHANGED <<now, down>>

(* check_income_resource reads the row of the level without looking        *)
(* whether there is one.                                                   *)
IncomeWithoutRow(i) ==
  /\ down = NULL /\ buildings[i] # NULL
  /\ ~HasLevel(buildings[i].level)
  /\ down' = i
  /\ UNCHANGED <<now, resources, buildings>>

(* Variant for the checks: the level is left as the constructor sets it.   *)
BuiltUnlevelled(t) == OnBuildingChanged(
  [type |-> t, level |-> 0, res |-> INVALID_RESOURCE_TYPE, num |-> 0, start |-> now, income |-> 0])

(* The building that on_build_building_success adds.                       *)
Built(t) == OnBuildingChanged(
  [type |-> t, level |-> 1, res |-> INVALID_RESOURCE_TYPE, num |-> 0, start |-> now, income |-> 0])

(* role::build_building.                                                   *)
BuildBuilding(i, t) ==
  /\ down = NULL
  /\ t \in DOMAIN UnlockNeedMoney /\ buildings[i] = NULL
  /\ Affords(resources, UnlockNeedMoney[t])
  /\ resources' = Charged(resources, UnlockNeedMoney[t])
  /\ buildings' = [buildings EXCEPT ![i] = Built(t)]
  /\ UNCHANGED <<now, down>>

(* Variant for the checks: the new level counts for the time before.       *)
UpgradedFirst(b) == OnBuildingChanged([b EXCEPT !.level = @ + 1])

(* The end of on_up_building_level_success.                                *)
Upgraded(b) == [OnBuildingChanged(b) EXCEPT !.level = @ + 1]

(* role::check_up_building_level.                                          *)
MayUpgrade(b) ==
  Lists(b.level, b.type) /\ Affords(resources, BuildingUpgrade[b.level][b.type].need)

(* role::up_building_level.                                                *)
UpBuildingLevel(i) ==
  /\ down = NULL /\ buildings[i] # NULL /\ MayUpgrade(buildings[i])
  /\ resources' = Charged(resources, BuildingUpgrade[buildings[i].level][buildings[i].type].need)
  /\ buildings' = [buildings EXCEPT ![i] = Upgraded(@)]
  /\ UNCHANGED <<now, down>>

Next == \/ Tick
        \/ \E i \in BuildingIndex : IncomeResource(i) \/ IncomeWithoutRow(i) \/ UpBuildingLevel(i)
        \/ \E i \in BuildingIndex, t \in BuildingType : BuildBuilding(i, t)

Spec == Init /\ [][Next]_vars

---------------------------------------------------------------------------
(* The types of the state; no building was accounted for or collected from *)
(* in the future.                                                          *)
TypeOK ==
  /\ now \in Nat
  /\ DOMAIN resources \subseteq Resource
  /\ buildings \in [BuildingIndex -> BuildingInfo \cup {NULL}]
  /\ \A i \in BuildingIndex : buildings[i] # NULL => buildings[i].start <= now /\ buildings[i].income <= now
  /\ down \in BuildingIndex \cup {NULL}

(* Nothing the role owns ever goes below zero, whatever is bought in which *)
(* order (check_resource and desc_resource over the entries of a cost).    *)
NoDebt == \A r \in DOMAIN resources : resources[r] \in Nat

(* The last row of the table that lists a type has a price, which leads to *)
(* a level without a row.                                                  *)
Endless(t) == \E l \in DOMAIN BuildingUpgrade : Lists(l, t) /\ ~HasLevel(l + 1)

(* check_income_resource looks up a row that is not there only for a       *)
(* building that came from the database and was never levelled, or for one *)
(* of a type whose prices do not end before the table does.                *)
OnlyGapsTakeItDown ==
  down # NULL => \/ buildings[down].level = 0 /\ DOMAIN resources = {}
                 \/ Endless(buildings[down].type)

(* What a building holds of each resource at a time from start on, with    *)
(* what it made since.                                                     *)
Held(b, time) ==
  [r \in Resource |->
     IF r = (IF Lists(b.level, b.type) THEN Product(b.level, b.type) ELSE b.res)
     THEN b.num + (time - b.start) * Speed(b.level, b.type) ELSE 0]

Site == [i \in BuildingIndex |->
  IF buildings[i] = NULL THEN NULL
  ELSE [type |-> buildings[i].type, level |-> buildings[i].level,
        held |-> Held(buildings[i], now), collected |-> buildings[i].income]]

Production == INSTANCE RoleProduction WITH owned <- resources, site <- Site

(* Accounting at the next change comes to the same as producing every      *)
(* second: over any sequence of builds, upgrades and collections nothing   *)
(* is lost, made twice or made at the speed of another level.              *)
LazyIsEager == Production!Spec
=============================================================================
