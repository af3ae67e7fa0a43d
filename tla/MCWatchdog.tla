---------------------------- MODULE MCWatchdog ----------------------------
(***************************************************************************)
(* Watchdog for TLC: the worker.down key with its failure counter, and one *)
(* ordinary key.  Every row is opened by a condition that appears, by an   *)
(* event taken away from outside, or by a fault, so MaxEvents is chosen    *)
(* large enough never to block the poll loop.                              *)
(***************************************************************************)
EXTENDS Watchdog

BoundIsEnough == 2 * MaxInputs + MaxFaults <= MaxEvents
ASSUME BoundIsEnough
==========================================================================
