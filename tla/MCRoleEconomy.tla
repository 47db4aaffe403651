--------------------------- MODULE MCRoleEconomy ---------------------------
(* An instance of RoleEconomy for TLC: "farm" can be upgraded past the     *)
(* table, "mill" cannot and stops working at its last level, what "mine"   *)
(* makes is not among the resources a role starts with.                    *)
EXTENDS RoleEconomy, TLC

Unlock == "farm" :> ("gold" :> 1) @@ "mill" :> ("gold" :> 1 @@ "wood" :> 1) @@ "mine" :> << >>

Row(need, first, unit, interval) ==
  [need |-> need, first |-> first, unit |-> unit, interval |-> interval]

Upgrades ==
  << "farm" :> Row("gold" :> 1, "gold", 1, 2)
       @@ "mill" :> Row("wood" :> 2 @@ "gold" :> 1, "wood", 2, 1)
       @@ "mine" :> Row("iron" :> 1, "iron", 1, 1),
     "farm" :> Row("gold" :> 2, "gold", 2, 1) >>

Start == "gold" :> 2 @@ "wood" :> 1

Rows == "p" :> "farm"
=============================================================================
