---------------------------- MODULE MCNetThreads ----------------------------
(* Instances of NetThreads for TLC.                                        *)
EXTENDS NetThreads, TLC

CONSTANTS s1
=============================================================================
