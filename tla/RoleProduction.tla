--------------------------- MODULE RoleProduction ---------------------------
(* What the economy of a role promises: every building makes its product   *)
(* second by second at the speed of the level it has then, and a           *)
(* collection brings home all that was made and nothing else.              *)
EXTENDS RoleTables

CONSTANTS
  StartTime,  \* system time when the role comes to be
  Founded,    \* buildings a role can come with, of level 0
  MaxStall,   \* bound: seconds that pass at once
  NULL

VARIABLES
  now,        \* system time
  owned,      \* the resources of the role
  site        \* the buildings: what each holds of every resource

vars == <<now, owned, site>>

Nothing == [r \in Resource |-> 0]

Init ==
  /\ now = StartTime
  /\ \/ owned = StartResources /\ site = [i \in BuildingIndex |-> NULL]
     \/ /\ owned = << >>
        /\ site = [i \in BuildingIndex |-> IF i \notin DOMAIN Founded THEN NULL
             ELSE [type |-> Founded[i], level |-> 0, held |-> Nothing, collected |-> 0]]

(* Time passes and the buildings work.                                     *)
Made(s, seconds) ==
  [s EXCEPT !.held = [r \in Resource |->
     IF r = Product(s.level, s.type) THEN @[r] + seconds * Speed(s.level, s.type) ELSE @[r]]]

Elapse ==
  \E seconds \in 1..MaxStall :
    /\ now' = now + seconds
    /\ site' = [i \in BuildingIndex |-> IF site[i] = NULL THEN NULL ELSE Made(site[i], seconds)]
    /\ UNCHANGED owned

(* What is left of a building after a collection, and at the next level.   *)
Emptied(s) == [type |-> s.type, level |-> s.level, held |-> Nothing, collected |-> now]
Raised(s) == [s EXCEPT !.level = @ + 1]

(* What a building holds is brought home, once per interval of its level.  *)
(* A role only keeps the resources it owns from the start.                 *)
Collect(i) ==
  /\ site[i] # NULL /\ Lists(site[i].level, site[i].type)
  /\ site[i].collected + BuildingUpgrade[site[i].level][site[i].type].interval <= now
  /\ owned' = [r \in DOMAIN owned |-> owned[r] + site[i].held[r]]
  /\ site' = [site EXCEPT ![i] = Emptied(@)]
  /\ UNCHANGED now

(* A building is bought for a free place.                                  *)
Build(i, t) ==
  /\ site[i] = NULL /\ t \in DOMAIN UnlockNeedMoney /\ Affords(owned, UnlockNeedMoney[t])
  /\ owned' = Charged(owned, UnlockNeedMoney[t])
  /\ site' = [site EXCEPT ![i] = [type |-> t, level |-> 1, held |-> Nothing, collected |-> 0]]
  /\ UNCHANGED now

(* A level is bought; it counts from now on.                               *)
Upgrade(i) ==
  /\ site[i] # NULL /\ Lists(site[i].level, site[i].type)
  /\ LET need == BuildingUpgrade[site[i].level][site[i].type].need IN
       Affords(owned, need) /\ owned' = Charged(owned, need)
  /\ site' = [site EXCEPT ![i] = Raised(@)]
  /\ UNCHANGED now

Next == \/ Elapse
        \/ \E i \in BuildingIndex : Collect(i) \/ Upgrade(i)
        \/ \E i \in BuildingIndex, t \in BuildingType : Build(i, t)

Spec == Init /\ [][Next]_vars
=============================================================================
