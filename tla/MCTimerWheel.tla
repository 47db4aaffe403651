--------------------------- MODULE MCTimerWheel ---------------------------
(* An instance of TimerWheel for TLC: minutes of 3 seconds, hours of 3     *)
(* minutes, days of 2 hours.                                               *)
EXTENDS TimerWheel, TLC

Symm == Permutations(Timer)
=============================================================================
