---------------------------- MODULE MCDiscovery ----------------------------
(* An instance of Discovery for TLC.                                       *)
EXTENDS Discovery, TLC

CONSTANTS g1, d1
=============================================================================
