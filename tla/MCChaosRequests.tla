-------------------------- MODULE MCChaosRequests --------------------------
(***************************************************************************)
(* ChaosRequests for TLC.  The hour and the longest run are scaled down to *)
(* one second, so that requests and reports on both sides of the hour      *)
(* exist within the bound on the clock.                                    *)
(***************************************************************************)
EXTENDS ChaosRequests

ClockPassesTheHour == MaxTime > Hour
ASSUME ClockPassesTheHour
==========================================================================
