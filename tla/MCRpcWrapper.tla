---------------------------- MODULE MCRpcWrapper ----------------------------
(* Instances of RpcWrapper for TLC.                                        *)
EXTENDS RpcWrapper, TLC

CONSTANTS p1, p2

(* Two games, or a game and a db_manager.                                  *)
GameAndPeer == {k \in [{p1, p2} -> {"game", "db"}] : k[p1] = "game"}
Order == <<"account", "role">>
=============================================================================
