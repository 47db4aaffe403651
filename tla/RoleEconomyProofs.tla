-------------------------- MODULE RoleEconomyProofs --------------------------
(* The economy of a role, for every table, start and length of time: its   *)
(* invariants, and that accounting at the next change implements producing *)
(* every second.                                                           *)
EXTENDS RoleEconomy, TLAPS

(* What is read from the tables, listed or not.                            *)
LEMMA TableTypes ==
  ASSUME NEW l, NEW t
  PROVE  /\ Product(l, t) \in Resource \cup {INVALID_RESOURCE_TYPE}
         /\ Lists(l, t) => Product(l, t) \in Resource
         /\ ~Lists(l, t) => Product(l, t) = INVALID_RESOURCE_TYPE
         /\ Speed(l, t) \in Nat
         /\ ~Lists(l, t) => Speed(l, t) = 0
BY TablesAssumption DEF Product, Speed, Lists, HasLevel, IsAmount

(* A cost read from the tables is an amount.                               *)
LEMMA Needs ==
  ASSUME NEW l, NEW t, Lists(l, t)
  PROVE  /\ IsAmount(BuildingUpgrade[l][t].need)
         /\ BuildingUpgrade[l][t].interval \in Nat
BY TablesAssumption DEF Lists, HasLevel

LEMMA NatTimes == ASSUME NEW a \in Nat, NEW b \in Nat PROVE a * b \in Nat
OBVIOUS

LEMMA NatTimesPlus ==
  ASSUME NEW a \in Int, NEW b \in Int, NEW c \in Int
  PROVE  (a + b) * c = a * c + b * c
OBVIOUS

(* on_building_changed keeps a building a building, and says what changes. *)
LEMMA Changed ==
  ASSUME NEW b \in BuildingInfo, now \in Nat, b.start <= now
  PROVE  /\ OnBuildingChanged(b) \in BuildingInfo
         /\ OnBuildingChanged(b).type = b.type
         /\ OnBuildingChanged(b).level = b.level
         /\ OnBuildingChanged(b).res = Product(b.level, b.type)
         /\ OnBuildingChanged(b).num = b.num + (now - b.start) * Speed(b.level, b.type)
         /\ OnBuildingChanged(b).start = now
         /\ OnBuildingChanged(b).income = b.income
<1> DEFINE made == (now - b.start) * Speed(b.level, b.type)
           res == Product(b.level, b.type)
<1>1. now - b.start \in Nat
  BY DEF BuildingInfo
<1>2. made \in Nat
  BY <1>1, TableTypes, NatTimes
<1>3. OnBuildingChanged(b) = [b EXCEPT !.res = res, !.num = b.num + made, !.start = now]
  BY DEF OnBuildingChanged
<1>4. res \in Resource \cup {INVALID_RESOURCE_TYPE}
  BY TableTypes
<1> HIDE DEF made, res
<1>5. OnBuildingChanged(b) = [type |-> b.type, level |-> b.level, res |-> res,
                              num |-> b.num + made, start |-> now, income |-> b.income]
  BY <1>3 DEF BuildingInfo
<1>6. b.num + made \in Nat
  BY <1>2 DEF BuildingInfo
<1>7. OnBuildingChanged(b) \in BuildingInfo
  BY <1>4, <1>5, <1>6 DEF BuildingInfo
<1> QED
  BY <1>5, <1>7 DEF made, res

(* A purchase that is afforded leaves no debt.                             *)
LEMMA ChargedOK ==
  ASSUME NEW owned, NEW cost, IsAmount(cost), Affords(owned, cost),
         \A r \in DOMAIN owned : owned[r] \in Nat
  PROVE  /\ DOMAIN Charged(owned, cost) = DOMAIN owned
         /\ \A r \in DOMAIN owned : Charged(owned, cost)[r] \in Nat
BY DEF Charged, Affords, IsAmount

---------------------------------------------------------------------------
(* A building without a row for its level is one of those that             *)
(* OnlyGapsTakeItDown allows.                                              *)
Grounded(b) ==
  \/ HasLevel(b.level)
  \/ b.level = 0 /\ DOMAIN resources = {}
  \/ Endless(b.type)

BuildingOK(i) ==
  buildings[i] # NULL =>
    /\ buildings[i] \in BuildingInfo
    /\ buildings[i].start <= now /\ buildings[i].income <= now
    /\ Grounded(buildings[i])

(* The inductive invariant: why a request finds no row can only be told    *)
(* from the level and the type of the building, so all buildings have to   *)
(* be Grounded before any is asked for.                                    *)
IInv ==
  /\ now \in Nat
  /\ DOMAIN resources \subseteq Resource /\ NoDebt
  /\ buildings \in [BuildingIndex -> BuildingInfo \cup {NULL}]
  /\ \A i \in BuildingIndex : BuildingOK(i)
  /\ down \in BuildingIndex \cup {NULL}
  /\ down # NULL => buildings[down] # NULL /\ ~HasLevel(buildings[down].level)

LEMMA InvImplies == IInv => TypeOK /\ NoDebt /\ OnlyGapsTakeItDown
BY NullAssumption DEF IInv, BuildingOK, Grounded, TypeOK, NoDebt, OnlyGapsTakeItDown

LEMMA InitInv == Init => IInv
<1> SUFFICES ASSUME Init PROVE IInv
  OBVIOUS
<1> USE RoleAssumption, TablesAssumption, NullAssumption
<1>1. CASE resources = StartResources /\ buildings = [i \in BuildingIndex |-> NULL]
  BY <1>1 DEF Init, IInv, BuildingOK, NoDebt, IsAmount
<1>2. CASE /\ resources = << >>
           /\ buildings = [i \in BuildingIndex |-> IF i \in DOMAIN Founded THEN Loaded(i) ELSE NULL]
  <2>1. \A i \in DOMAIN Founded :
          /\ Loaded(i) \in BuildingInfo
          /\ Loaded(i).level = 0 /\ Loaded(i).start = 0 /\ Loaded(i).income = 0
    BY DEF Loaded, BuildingInfo
  <2>2. DOMAIN resources = {}
    BY <1>2
  <2>3. \A i \in BuildingIndex : BuildingOK(i)
    BY <1>2, <2>1, <2>2 DEF Init, BuildingOK, Grounded
  <2> QED
    BY <1>2, <2>1, <2>2, <2>3 DEF Init, IInv, NoDebt
<1> QED
  BY <1>1, <1>2 DEF Init

(* What every command does: one building changes to one that is allowed,   *)
(* the resources keep their types and stay above zero.                     *)
LEMMA CommandInv ==
  ASSUME IInv, down = NULL, NEW i \in BuildingIndex, NEW b,
         b \in BuildingInfo, b.start <= now, b.income <= now,
         HasLevel(b.level) \/ Endless(b.type),
         buildings' = [buildings EXCEPT ![i] = b],
         DOMAIN resources' = DOMAIN resources,
         \A r \in DOMAIN resources : resources'[r] \in Nat,
         UNCHANGED <<now, down>>
  PROVE  IInv'
<1>1. buildings' \in [BuildingIndex -> BuildingInfo \cup {NULL}]
  BY DEF IInv
<1>2. \A j \in BuildingIndex : BuildingOK(j)'
  BY DEF IInv, BuildingOK, Grounded
<1> QED
  BY <1>1, <1>2 DEF IInv, NoDebt

LEMMA TickInv == IInv /\ Tick => IInv'
<1> SUFFICES ASSUME IInv, Tick PROVE IInv'
  OBVIOUS
<1>1. now' \in Nat /\ now <= now'
  BY RoleAssumption DEF IInv, Tick
<1>2. \A i \in BuildingIndex : BuildingOK(i)'
  BY <1>1 DEF IInv, Tick, BuildingOK, Grounded, BuildingInfo
<1> QED
  BY <1>1, <1>2 DEF IInv, Tick, NoDebt

LEMMA IncomeInv == ASSUME IInv, NEW i \in BuildingIndex, IncomeResource(i) PROVE IInv'
<1> DEFINE b == OnBuildingChanged(buildings[i])
           c == [b EXCEPT !.num = 0, !.income = now]
<1>1. /\ now \in Nat /\ buildings[i] \in BuildingInfo /\ buildings[i].start <= now
      /\ down = NULL /\ HasLevel(buildings[i].level)
  BY DEF IInv, BuildingOK, IncomeResource, Lists
<1>2. /\ b \in BuildingInfo /\ b.start = now /\ b.level = buildings[i].level
      /\ b.num \in Nat
  BY <1>1, Changed DEF BuildingInfo
<1>3. /\ buildings' = [buildings EXCEPT ![i] = c]
      /\ resources' = Credited(resources, b.res, b.num)
      /\ UNCHANGED <<now, down>>
  BY DEF IncomeResource
<1> HIDE DEF b
<1>4. /\ c \in BuildingInfo /\ c.start <= now /\ c.income <= now /\ HasLevel(c.level)
  <2>1. c \in BuildingInfo
    BY <1>1, <1>2 DEF BuildingInfo
  <2>2. c.start = b.start /\ c.income = now /\ c.level = b.level
    BY <1>2 DEF BuildingInfo
  <2> QED
    BY <1>1, <1>2, <2>1, <2>2
<1>5. /\ DOMAIN resources' = DOMAIN resources
      /\ \A r \in DOMAIN resources : resources'[r] \in Nat
  BY <1>2, <1>3 DEF Credited, IInv, NoDebt
<1> HIDE DEF c
<1> QED
  BY <1>1, <1>3, <1>4, <1>5, CommandInv

LEMMA BuildInv ==
  ASSUME IInv, NEW i \in BuildingIndex, NEW t \in BuildingType, BuildBuilding(i, t) PROVE IInv'
<1> DEFINE n == [type |-> t, level |-> 1, res |-> INVALID_RESOURCE_TYPE,
                 num |-> 0, start |-> now, income |-> 0]
<1>1. now \in Nat /\ n \in BuildingInfo /\ n.start <= now
  BY DEF IInv, BuildingInfo
<1>2. /\ Built(t) \in BuildingInfo /\ Built(t).start = now /\ Built(t).level = 1 /\ Built(t).income = 0
  <2> HIDE DEF n
  <2>1. Built(t) = OnBuildingChanged(n)
    BY DEF Built, n
  <2>2. /\ OnBuildingChanged(n) \in BuildingInfo /\ OnBuildingChanged(n).start = now
        /\ OnBuildingChanged(n).level = n.level /\ OnBuildingChanged(n).income = n.income
    BY <1>1, Changed
  <2> QED
    BY <2>1, <2>2 DEF n
<1>3. HasLevel(Built(t).level)
  BY <1>2, TablesAssumption DEF HasLevel
<1>4. /\ DOMAIN resources' = DOMAIN resources
      /\ \A r \in DOMAIN resources : resources'[r] \in Nat
  BY TablesAssumption, ChargedOK DEF BuildBuilding, IInv, NoDebt
<1>5. Built(t).start <= now /\ Built(t).income <= now
  BY <1>1, <1>2
<1> QED
  BY <1>2, <1>3, <1>4, <1>5, CommandInv DEF BuildBuilding

LEMMA UpgradeInv == ASSUME IInv, NEW i \in BuildingIndex, UpBuildingLevel(i) PROVE IInv'
<1> DEFINE b == OnBuildingChanged(buildings[i])
           c == Upgraded(buildings[i])
<1>1. /\ now \in Nat /\ buildings[i] \in BuildingInfo /\ buildings[i].start <= now
      /\ buildings[i].income <= now /\ Lists(buildings[i].level, buildings[i].type)
  BY DEF IInv, BuildingOK, UpBuildingLevel, MayUpgrade
<1>2. /\ b \in BuildingInfo /\ b.start = now /\ b.level = buildings[i].level
      /\ b.type = buildings[i].type /\ b.income = buildings[i].income
  BY <1>1, Changed
<1>3. c = [b EXCEPT !.level = @ + 1]
  BY DEF Upgraded
<1> HIDE DEF b, c
<1>4. /\ c \in BuildingInfo /\ c.start = now /\ c.level = buildings[i].level + 1
      /\ c.type = buildings[i].type /\ c.income = buildings[i].income
  BY <1>2, <1>3 DEF BuildingInfo
<1>5. HasLevel(c.level) \/ Endless(c.type)
  BY <1>1, <1>4 DEF Endless, Lists, HasLevel
<1>6. /\ DOMAIN resources' = DOMAIN resources
      /\ \A r \in DOMAIN resources : resources'[r] \in Nat
  BY <1>1, Needs, ChargedOK DEF UpBuildingLevel, MayUpgrade, IInv, NoDebt
<1>7. buildings' = [buildings EXCEPT ![i] = c] /\ down = NULL /\ UNCHANGED <<now, down>>
  BY DEF UpBuildingLevel, c
<1>8. c.start <= now /\ c.income <= now
  BY <1>1, <1>4
<1> QED
  BY <1>4, <1>5, <1>6, <1>7, <1>8, CommandInv

LEMMA IncomeWithoutRowInv == ASSUME IInv, NEW i \in BuildingIndex, IncomeWithoutRow(i) PROVE IInv'
BY NullAssumption DEF IInv, IncomeWithoutRow, BuildingOK, Grounded, NoDebt

LEMMA NextInv == IInv /\ [Next]_vars => IInv'
<1> SUFFICES ASSUME IInv, [Next]_vars PROVE IInv'
  OBVIOUS
<1>1. CASE UNCHANGED vars
  BY <1>1 DEF vars, IInv, BuildingOK, Grounded, NoDebt
<1>2. CASE Next
  BY <1>2, TickInv, IncomeInv, IncomeWithoutRowInv, UpgradeInv, BuildInv DEF Next
<1> QED
  BY <1>1, <1>2

(* The economy keeps its invariant (the commands of role.cpp).             *)
THEOREM EconomyIsSound == Spec => []IInv
BY InitInv, NextInv, PTL DEF Spec

(* Every variable keeps its type, for any tables.                          *)
THEOREM EconomyTypes == Spec => []TypeOK
BY EconomyIsSound, InvImplies, PTL

(* check_resource and desc_resource: no purchase leaves a debt.            *)
THEOREM NoDebtEver == Spec => []NoDebt
BY EconomyIsSound, InvImplies, PTL

(* check_income_resource misses a row for no other buildings than those    *)
(* of level 0 from the database and those of a type without a last level.  *)
THEOREM OnlyGaps == Spec => []OnlyGapsTakeItDown
BY EconomyIsSound, InvImplies, PTL

---------------------------------------------------------------------------
(* The refinement: Site maps the buildings to what they hold.              *)

LEMMA SameTables ==
  ASSUME NEW l, NEW t
  PROVE  /\ Production!HasLevel(l) <=> HasLevel(l)
         /\ Production!Lists(l, t) <=> Lists(l, t)
         /\ Production!Product(l, t) = Product(l, t)
         /\ Production!Speed(l, t) = Speed(l, t)
BY DEF Production!HasLevel, HasLevel, Production!Lists, Lists, Production!Product, Product,
       Production!Speed, Speed

LEMMA SamePurchases ==
  ASSUME NEW owned, NEW cost
  PROVE  /\ Production!Affords(owned, cost) <=> Affords(owned, cost)
         /\ Production!Charged(owned, cost) = Charged(owned, cost)
BY DEF Production!Affords, Affords, Production!Charged, Charged

(* What a building holds.                                                  *)
LEMMA HeldType ==
  ASSUME now \in Nat, NEW b \in BuildingInfo, b.start <= now
  PROVE  Held(b, now) \in [Resource -> Nat]
<1>1. now - b.start \in Nat
  BY DEF BuildingInfo
<1>2. (now - b.start) * Speed(b.level, b.type) \in Nat
  BY <1>1, TableTypes, NatTimes
<1>3. b.num + (now - b.start) * Speed(b.level, b.type) \in Nat
  BY <1>2 DEF BuildingInfo
<1> QED
  BY <1>3 DEF Held

(* A building that is accounted for at this time.                          *)
LEMMA HeldNow ==
  ASSUME now \in Nat, NEW b \in BuildingInfo, b.start = now
  PROVE  Held(b, now) = [r \in Resource |->
           IF r = (IF Lists(b.level, b.type) THEN Product(b.level, b.type) ELSE b.res)
           THEN b.num ELSE 0]
<1>1. (now - b.start) * Speed(b.level, b.type) = 0
  BY TableTypes
<1>2. b.num + (now - b.start) * Speed(b.level, b.type) = b.num
  BY <1>1 DEF BuildingInfo
<1> QED
  BY <1>2 DEF Held

LEMMA SiteType ==
  ASSUME IInv, NEW i \in BuildingIndex
  PROVE  /\ buildings[i] = NULL => Site[i] = NULL
         /\ buildings[i] # NULL =>
              /\ Site[i] # NULL /\ buildings[i] \in BuildingInfo
              /\ Site[i] = [type |-> buildings[i].type, level |-> buildings[i].level,
                            held |-> Held(buildings[i], now), collected |-> buildings[i].income]
<1>1. CASE buildings[i] = NULL
  BY <1>1 DEF Site
<1>2. CASE buildings[i] # NULL
  <2>1. now \in Nat /\ buildings[i] \in BuildingInfo /\ buildings[i].start <= now
    BY <1>2 DEF IInv, BuildingOK
  <2>2. Site[i] = [type |-> buildings[i].type, level |-> buildings[i].level,
                   held |-> Held(buildings[i], now), collected |-> buildings[i].income]
    BY <1>2 DEF Site
  <2>3. Held(buildings[i], now) \in [Resource -> Nat]
    BY <2>1, HeldType
  <2>4. Site[i] \in SiteInfo
    BY <2>1, <2>2, <2>3 DEF SiteInfo, BuildingInfo
  <2> QED
    BY <1>2, <2>1, <2>2, <2>4, NullAssumption
<1> QED
  BY <1>1, <1>2

LEMMA InitRefined == Init => Production!Init
<1> SUFFICES ASSUME Init PROVE Production!Init
  OBVIOUS
<1>1. CASE resources = StartResources /\ buildings = [i \in BuildingIndex |-> NULL]
  BY <1>1 DEF Init, Site, Production!Init
<1>2. CASE /\ resources = << >>
           /\ buildings = [i \in BuildingIndex |-> IF i \in DOMAIN Founded THEN Loaded(i) ELSE NULL]
  <2>1. ASSUME NEW i \in DOMAIN Founded
        PROVE  /\ Loaded(i) \in BuildingInfo /\ Loaded(i) # NULL
               /\ Held(Loaded(i), now) = Production!Nothing
    <3>1. Loaded(i) \in BuildingInfo
      BY RoleAssumption DEF Loaded, BuildingInfo
    <3>2. /\ Loaded(i).level = 0 /\ Loaded(i).res = INVALID_RESOURCE_TYPE
          /\ ~Lists(Loaded(i).level, Loaded(i).type)
      BY TablesAssumption DEF Loaded, Lists, HasLevel
    <3>3. Held(Loaded(i), now) = Production!Nothing
      BY <3>2, TablesAssumption DEF Held, Production!Nothing
    <3> QED
      BY <3>1, <3>3, NullAssumption
  <2>2. Site = [i \in BuildingIndex |-> IF i \notin DOMAIN Founded THEN NULL
           ELSE [type |-> Founded[i], level |-> 0, held |-> Production!Nothing, collected |-> 0]]
    <3> SUFFICES ASSUME NEW i \in BuildingIndex
                 PROVE  Site[i] = IF i \notin DOMAIN Founded THEN NULL
                          ELSE [type |-> Founded[i], level |-> 0,
                                held |-> Production!Nothing, collected |-> 0]
      BY DEF Site
    <3>1. CASE i \in DOMAIN Founded
      <4>1. buildings[i] = Loaded(i)
        BY <1>2, <3>1
      <4>2. Site[i] = [type |-> Loaded(i).type, level |-> Loaded(i).level,
                       held |-> Held(Loaded(i), now), collected |-> Loaded(i).income]
        BY <2>1, <3>1, <4>1 DEF Site
      <4> QED
        BY <2>1, <3>1, <4>2 DEF Loaded
    <3>2. CASE i \notin DOMAIN Founded
      BY <1>2, <3>2 DEF Site
    <3> QED
      BY <3>1, <3>2
  <2> QED
    BY <1>2, <2>2 DEF Init, Production!Init
<1> QED
  BY <1>1, <1>2 DEF Init

(* Time passes: what a building holds grows at the speed of its level.     *)
LEMMA HeldGrows ==
  ASSUME NEW time \in Nat, NEW seconds \in Nat, NEW b \in BuildingInfo
  PROVE  Held(b, time + seconds) = [r \in Resource |->
           IF r = Product(b.level, b.type)
           THEN Held(b, time)[r] + seconds * Speed(b.level, b.type)
           ELSE Held(b, time)[r]]
<1> DEFINE v == Speed(b.level, b.type)
           p == Product(b.level, b.type)
           res == IF Lists(b.level, b.type) THEN p ELSE b.res
<1>1. v \in Nat /\ (~Lists(b.level, b.type) => v = 0 /\ p \notin Resource)
  BY TableTypes, TablesAssumption
<1>2. b.start \in Nat /\ b.num \in Nat
  BY DEF BuildingInfo
<1>3. /\ Held(b, time) = [r \in Resource |->
           IF r = res THEN b.num + (time - b.start) * v ELSE 0]
      /\ Held(b, time + seconds) = [r \in Resource |->
           IF r = res THEN b.num + ((time + seconds) - b.start) * v ELSE 0]
  BY DEF Held
<1>4. (Lists(b.level, b.type) => res = p) /\ (~Lists(b.level, b.type) => res = b.res)
  OBVIOUS
<1> HIDE DEF v, p, res
<1>5. ((time + seconds) - b.start) * v = (time - b.start) * v + seconds * v
  <2>1. (time + seconds) - b.start = (time - b.start) + seconds
    BY <1>2
  <2>2. time - b.start \in Int
    BY <1>2
  <2> QED
    BY <1>1, <2>1, <2>2, NatTimesPlus
<1>6. (time - b.start) * v \in Int /\ seconds * v \in Nat
  BY <1>1, <1>2, NatTimes
<1> DEFINE before == (time - b.start) * v
           made == seconds * v
<1>7. before \in Int /\ made \in Nat /\ ((time + seconds) - b.start) * v = before + made
  BY <1>5, <1>6
<1>8. /\ Held(b, time) = [r \in Resource |-> IF r = res THEN b.num + before ELSE 0]
      /\ Held(b, time + seconds) = [r \in Resource |-> IF r = res THEN b.num + (before + made) ELSE 0]
  BY <1>3, <1>7
<1>9. ~Lists(b.level, b.type) => made = 0
  BY <1>1
<1> HIDE DEF before, made
<1>10. Held(b, time + seconds) = [r \in Resource |->
          IF r = p THEN Held(b, time)[r] + made ELSE Held(b, time)[r]]
  <2>1. CASE Lists(b.level, b.type)
    BY <1>2, <1>4, <1>7, <1>8, <2>1
  <2>2. CASE ~Lists(b.level, b.type)
    BY <1>1, <1>2, <1>4, <1>7, <1>8, <1>9, <2>2
  <2> QED
    BY <2>1, <2>2
<1> QED
  BY <1>10 DEF v, p, made

LEMMA TickRefined == IInv /\ Tick => Production!Elapse
<1> SUFFICES ASSUME IInv, Tick PROVE Production!Elapse
  OBVIOUS
<1>1. PICK seconds \in 1..MaxStall : now' = now + seconds
  BY DEF Tick
<1>2. seconds \in Nat /\ now \in Nat /\ UNCHANGED <<resources, buildings>>
  BY RoleAssumption DEF Tick, IInv
<1>3. ASSUME NEW i \in BuildingIndex
      PROVE  Site'[i] = IF Site[i] = NULL THEN NULL ELSE Production!Made(Site[i], seconds)
  <2>1. CASE buildings[i] = NULL
    BY <1>2, <2>1, SiteType DEF Site
  <2>2. CASE buildings[i] # NULL
    <3> DEFINE b == buildings[i]
    <3>1. b \in BuildingInfo
      BY <2>2 DEF IInv, BuildingOK
    <3>2. /\ Site[i] # NULL
          /\ Site[i] = [type |-> b.type, level |-> b.level,
                        held |-> Held(b, now), collected |-> b.income]
      BY <2>2, SiteType
    <3>3. Site'[i] = [type |-> b.type, level |-> b.level,
                      held |-> Held(b, now + seconds), collected |-> b.income]
      BY <1>1, <1>2, <2>2 DEF Site
    <3>4. Production!Made(Site[i], seconds) =
            [type |-> b.type, level |-> b.level, collected |-> b.income,
             held |-> [r \in Resource |->
               IF r = Product(b.level, b.type)
               THEN Held(b, now)[r] + seconds * Speed(b.level, b.type)
               ELSE Held(b, now)[r]]]
      BY <3>2, SameTables DEF Production!Made
    <3>5. Site'[i] = Production!Made(Site[i], seconds)
      BY <1>2, <3>1, <3>3, <3>4, HeldGrows
    <3> QED
      BY <3>2, <3>5
  <2> QED
    BY <2>1, <2>2
<1>4. Site' = [i \in BuildingIndex |->
                IF Site[i] = NULL THEN NULL ELSE Production!Made(Site[i], seconds)]
  BY <1>3 DEF Site
<1> QED
  BY <1>1, <1>2, <1>4 DEF Production!Elapse

(* A command changes what the mapping shows of one building.               *)
LEMMA SiteChanged ==
  ASSUME IInv, NEW i \in BuildingIndex, NEW b, b # NULL,
         buildings' = [buildings EXCEPT ![i] = b], now' = now
  PROVE  Site' = [Site EXCEPT ![i] = [type |-> b.type, level |-> b.level,
                    held |-> Held(b, now), collected |-> b.income]]
<1> DEFINE s == [type |-> b.type, level |-> b.level, held |-> Held(b, now), collected |-> b.income]
<1>1. buildings \in [BuildingIndex -> BuildingInfo \cup {NULL}]
  BY DEF IInv
<1>2. ASSUME NEW j \in BuildingIndex PROVE Site'[j] = IF j = i THEN s ELSE Site[j]
  <2>1. CASE j = i
    BY <1>1, <2>1 DEF Site
  <2>2. CASE j # i
    BY <1>1, <2>2 DEF Site
  <2> QED
    BY <2>1, <2>2
<1> HIDE DEF s
<1>3. Site' = [j \in BuildingIndex |-> IF j = i THEN s ELSE Site[j]]
  BY <1>2 DEF Site
<1>4. Site' = [Site EXCEPT ![i] = s]
  BY <1>3 DEF Site
<1> QED
  BY <1>4 DEF s

LEMMA IncomeRefined ==
  ASSUME IInv, NEW i \in BuildingIndex, IncomeResource(i) PROVE Production!Collect(i)
<1> DEFINE a == buildings[i]
           b == OnBuildingChanged(a)
           c == [b EXCEPT !.num = 0, !.income = now]
           s == [type |-> a.type, level |-> a.level, held |-> Production!Nothing, collected |-> now]
<1>1. /\ now \in Nat /\ a # NULL /\ a \in BuildingInfo /\ a.start <= now
      /\ Lists(a.level, a.type)
  BY DEF IInv, BuildingOK, IncomeResource
<1>2. /\ b \in BuildingInfo /\ b.start = now /\ b.level = a.level /\ b.type = a.type
      /\ b.res = Product(a.level, a.type)
      /\ b.num = a.num + (now - a.start) * Speed(a.level, a.type)
  BY <1>1, Changed
<1>3. /\ buildings' = [buildings EXCEPT ![i] = c]
      /\ resources' = Credited(resources, b.res, b.num)
      /\ a.income + BuildingUpgrade[a.level][a.type].interval <= now
      /\ now' = now
  BY DEF IncomeResource
<1>4. /\ Site[i] # NULL
      /\ Site[i] = [type |-> a.type, level |-> a.level, held |-> Held(a, now), collected |-> a.income]
  BY <1>1, SiteType
<1> HIDE DEF b
<1>5. /\ c \in BuildingInfo /\ c # NULL /\ c.start = now /\ c.num = 0 /\ c.income = now
      /\ c.level = a.level /\ c.type = a.type
  <2>1. c \in BuildingInfo
    BY <1>1, <1>2 DEF BuildingInfo
  <2>2. /\ c.start = b.start /\ c.num = 0 /\ c.income = now
        /\ c.level = b.level /\ c.type = b.type
    BY <1>2 DEF BuildingInfo
  <2> QED
    BY <1>2, <2>1, <2>2, NullAssumption
<1> HIDE DEF c
<1>6. Held(c, now) = Production!Nothing
  BY <1>1, <1>5, HeldNow DEF Production!Nothing
<1>7. Site' = [Site EXCEPT ![i] = s]
  BY <1>3, <1>5, <1>6, SiteChanged
<1>8. Production!Emptied(Site[i]) = s
  BY <1>4 DEF Production!Emptied
<1>9. resources' = [r \in DOMAIN resources |-> resources[r] + Site[i].held[r]]
  <2>1. \A r \in DOMAIN resources : r \in Resource /\ resources[r] \in Nat
    BY DEF IInv, NoDebt
  <2>2. Site[i].held = [r \in Resource |-> IF r = b.res THEN b.num ELSE 0]
    BY <1>1, <1>2, <1>4 DEF Held
  <2>3. \A r \in DOMAIN resources :
          (IF r = b.res THEN resources[r] + b.num ELSE resources[r]) = resources[r] + Site[i].held[r]
    BY <2>1, <2>2
  <2> QED
    BY <1>3, <2>3 DEF Credited
<1>10. /\ Site[i].level = a.level /\ Site[i].type = a.type /\ Site[i].collected = a.income
  BY <1>4
<1> QED
  BY <1>1, <1>3, <1>4, <1>7, <1>8, <1>9, <1>10, SameTables DEF Production!Collect

LEMMA UpgradeRefined ==
  ASSUME IInv, NEW i \in BuildingIndex, UpBuildingLevel(i) PROVE Production!Upgrade(i)
<1> DEFINE a == buildings[i]
           b == OnBuildingChanged(a)
           c == Upgraded(a)
           need == BuildingUpgrade[a.level][a.type].need
<1>1. /\ now \in Nat /\ a # NULL /\ a \in BuildingInfo /\ a.start <= now
      /\ Lists(a.level, a.type)
  BY DEF IInv, BuildingOK, UpBuildingLevel, MayUpgrade
<1>2. /\ b \in BuildingInfo /\ b.start = now /\ b.level = a.level /\ b.type = a.type
      /\ b.res = Product(a.level, a.type) /\ b.income = a.income
      /\ b.num = a.num + (now - a.start) * Speed(a.level, a.type)
  BY <1>1, Changed
<1>3. /\ buildings' = [buildings EXCEPT ![i] = c]
      /\ Affords(resources, need) /\ resources' = Charged(resources, need)
      /\ now' = now
  BY DEF UpBuildingLevel, MayUpgrade
<1>4. /\ Site[i] # NULL
      /\ Site[i] = [type |-> a.type, level |-> a.level, held |-> Held(a, now), collected |-> a.income]
  BY <1>1, SiteType
<1>5. c = [b EXCEPT !.level = @ + 1]
  BY DEF Upgraded
<1> HIDE DEF b, c
<1>6. /\ c \in BuildingInfo /\ c # NULL /\ c.start = now /\ c.num = b.num /\ c.income = a.income
      /\ c.level = a.level + 1 /\ c.type = a.type /\ c.res = b.res
  <2>1. c \in BuildingInfo
    BY <1>2, <1>5 DEF BuildingInfo
  <2>2. /\ c.start = b.start /\ c.num = b.num /\ c.income = b.income
        /\ c.level = b.level + 1 /\ c.type = b.type /\ c.res = b.res
    BY <1>2, <1>5 DEF BuildingInfo
  <2> QED
    BY <1>2, <2>1, <2>2, NullAssumption
(* The next level makes the same resource, or none.                        *)
<1>7. Held(c, now) = Held(a, now)
  <2>1. Held(a, now) = [r \in Resource |-> IF r = b.res THEN b.num ELSE 0]
    BY <1>1, <1>2 DEF Held
  <2>2. Lists(c.level, c.type) => Product(c.level, c.type) = Product(a.level, a.type)
    BY <1>1, <1>6, TablesAssumption DEF Product, Lists, HasLevel
  <2> QED
    BY <1>1, <1>2, <1>6, <2>1, <2>2, HeldNow
<1>8. Site' = [Site EXCEPT ![i] = Production!Raised(Site[i])]
  <2>1. Site' = [Site EXCEPT ![i] = [type |-> a.type, level |-> a.level + 1,
                  held |-> Held(a, now), collected |-> a.income]]
    BY <1>3, <1>6, <1>7, SiteChanged
  <2>2. Production!Raised(Site[i]) = [type |-> a.type, level |-> a.level + 1,
                  held |-> Held(a, now), collected |-> a.income]
    BY <1>4 DEF Production!Raised
  <2> QED
    BY <2>1, <2>2
<1>9. Site[i].level = a.level /\ Site[i].type = a.type
  BY <1>4
<1> QED
  BY <1>1, <1>3, <1>4, <1>8, <1>9, SameTables, SamePurchases DEF Production!Upgrade

LEMMA BuildRefined ==
  ASSUME IInv, NEW i \in BuildingIndex, NEW t \in BuildingType, BuildBuilding(i, t)
  PROVE  Production!Build(i, t)
<1> DEFINE n == [type |-> t, level |-> 1, res |-> INVALID_RESOURCE_TYPE,
                 num |-> 0, start |-> now, income |-> 0]
           b == Built(t)
<1>1. now \in Nat /\ n \in BuildingInfo /\ n.start = now /\ n.num = 0
  BY DEF IInv, BuildingInfo
<1>2. /\ b \in BuildingInfo /\ b # NULL /\ b.start = now /\ b.level = 1 /\ b.type = t
      /\ b.num = 0 /\ b.income = 0
  <2> HIDE DEF n
  <2>1. b = OnBuildingChanged(n)
    BY DEF Built, n
  <2>2. /\ b \in BuildingInfo /\ b.start = now /\ b.level = n.level /\ b.type = n.type
        /\ b.num = n.num + (now - n.start) * Speed(n.level, n.type) /\ b.income = n.income
    BY <1>1, <2>1, Changed
  <2>3. (now - n.start) * Speed(n.level, n.type) = 0
    BY <1>1, TableTypes
  <2>4. b.num = 0
    BY <1>1, <2>2, <2>3
  <2> QED
    BY <2>2, <2>4, NullAssumption DEF n
<1>3. /\ t \in DOMAIN UnlockNeedMoney /\ buildings[i] = NULL
      /\ Affords(resources, UnlockNeedMoney[t])
      /\ resources' = Charged(resources, UnlockNeedMoney[t])
      /\ buildings' = [buildings EXCEPT ![i] = b] /\ now' = now
  BY DEF BuildBuilding
<1>4. Site[i] = NULL
  BY <1>3, SiteType
<1> HIDE DEF b
<1>5. Held(b, now) = Production!Nothing
  BY <1>1, <1>2, HeldNow DEF Production!Nothing
<1>6. Site' = [Site EXCEPT ![i] = [type |-> t, level |-> 1,
                held |-> Production!Nothing, collected |-> 0]]
  BY <1>2, <1>3, <1>5, SiteChanged
<1> QED
  BY <1>3, <1>4, <1>6, SamePurchases DEF Production!Build

LEMMA NextRefined == IInv /\ [Next]_vars => [Production!Next]_(Production!vars)
<1> SUFFICES ASSUME IInv, [Next]_vars PROVE [Production!Next]_(Production!vars)
  OBVIOUS
<1>1. CASE Tick
  BY <1>1, TickRefined DEF Production!Next
<1>2. ASSUME NEW i \in BuildingIndex, IncomeResource(i) PROVE Production!Next
  BY <1>2, IncomeRefined DEF Production!Next
<1>3. ASSUME NEW i \in BuildingIndex, UpBuildingLevel(i) PROVE Production!Next
  BY <1>3, UpgradeRefined DEF Production!Next
<1>4. ASSUME NEW i \in BuildingIndex, NEW t \in BuildingType, BuildBuilding(i, t)
      PROVE  Production!Next
  BY <1>4, BuildRefined DEF Production!Next
<1>5. ASSUME UNCHANGED <<now, resources, buildings>> PROVE UNCHANGED Production!vars
  <2>1. Site' = Site
    BY <1>5 DEF Site
  <2> QED
    BY <1>5, <2>1 DEF Production!vars
<1>6. CASE UNCHANGED vars
  BY <1>5, <1>6 DEF vars
<1>7. ASSUME NEW i \in BuildingIndex, IncomeWithoutRow(i) PROVE UNCHANGED Production!vars
  BY <1>5, <1>7 DEF IncomeWithoutRow
<1> QED
  BY <1>1, <1>2, <1>3, <1>4, <1>6, <1>7 DEF Next

(* Lazy accounting (on_building_changed and its callers) implements        *)
(* producing every second, for every table in which a type of building     *)
(* makes one resource.                                                     *)
THEOREM EagerRefinement == Spec => LazyIsEager
BY InitRefined, NextRefined, EconomyIsSound, PTL DEF Spec, LazyIsEager, Production!Spec
=============================================================================
