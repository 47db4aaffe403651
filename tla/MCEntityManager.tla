-------------------------- MODULE MCEntityManager --------------------------
(* Instances of EntityManager for TLC.                                     *)
EXTENDS EntityManager, TLC

CONSTANTS s1, s2

Symm == Permutations(Slots)
=============================================================================
