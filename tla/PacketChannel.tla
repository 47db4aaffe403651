--------------------------- MODULE PacketChannel ---------------------------
(***************************************************************************)
(* What a connection between two processes promises: packets arrive whole, *)
(* once and in the order they were written, for as long as it stands, and  *)
(* all of them do if it stands for ever.                                   *)
(***************************************************************************)
EXTENDS Integers, Sequences

CONSTANT Packets

VARIABLES
  written,   \* the packets written, in order
  arrived,   \* the packets handed to the receiver, in order
  stands     \* is the connection up at both ends?

vars == <<written, arrived, stands>>

Init == written = <<>> /\ arrived = <<>> /\ stands = TRUE

WritePacket ==
  /\ \E p \in Packets : written' = Append(written, p)
  /\ UNCHANGED <<arrived, stands>>

(* What was on its way when the sender closed may still arrive.            *)
Arrive ==
  /\ Len(arrived) < Len(written)
  /\ arrived' = Append(arrived, written[Len(arrived) + 1])
  /\ UNCHANGED <<written, stands>>

Fall ==
  /\ stands' = FALSE
  /\ UNCHANGED <<written, arrived>>

Next == WritePacket \/ Arrive \/ Fall

(* The order, and that all of them arrive.                                 *)
Safe == Init /\ [][Next]_vars

Spec == Safe /\ WF_vars(stands /\ Arrive)
=============================================================================
