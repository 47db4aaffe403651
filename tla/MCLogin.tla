------------------------------ MODULE MCLogin ------------------------------
(* Instances of Login for TLC.                                             *)
EXTENDS Login, TLC

CONSTANTS g1, g2, c1, c2, u1, u2, i1, i2

Symm2 == Permutations({c1, c2})

(* All clients are devices of one user.                                    *)
OneUser == [c \in Clients |-> u1]

(* The client ids of the gate and its connection indices do not meet.      *)
NoCollision == [g \in Games |-> NoClient]

(* The second connection the gate made, to g2, has the socket index that   *)
(* the second websocket client has as its client id.                       *)
Collision == [g \in Games |-> IF g = g2 THEN c2 ELSE NoClient]

(* Two logins, of one device each or of one device that logs in again on a *)
(* connection that has an account or a role already.                       *)
TwoLogins == logins[c1] + logins[c2] <= 2
=============================================================================
