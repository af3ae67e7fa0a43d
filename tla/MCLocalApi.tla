---------------------------- MODULE MCLocalApi ----------------------------
(***************************************************************************)
(* LocalApi for TLC: with more tasks than the queue and the worker can     *)
(* hold, and more time than an idle entry is kept.                         *)
(***************************************************************************)
EXTENDS LocalApi

ASSUME BoundsReachLimits ==
  /\ Cardinality(Tasks) > Capacity + 1
  /\ Cardinality(Tasks) > Burst
  /\ MaxTime > IdleLimit
==========================================================================
