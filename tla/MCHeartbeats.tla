--------------------------- MODULE MCHeartbeats ---------------------------
(***************************************************************************)
(* Heartbeats for TLC: two workers, and the default intervals of the code  *)
(* in units of five seconds (10, 15, 60 and 120 seconds).                  *)
(***************************************************************************)
EXTENDS Heartbeats

ASSUME Defaults ==
  /\ BeatEvery = 10 \div 5 /\ PollEvery = 15 \div 5
  /\ Stale = 60 \div 5 /\ Orphan = 120 \div 5
==========================================================================
