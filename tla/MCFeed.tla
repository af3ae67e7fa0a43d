------------------------------ MODULE MCFeed ------------------------------
(***************************************************************************)
(* Feed for TLC: one ordinary condition and two connections.  Two rows can *)
(* be active at once (the second after a restart of the watchdog, or an    *)
(* insert that reported an error), which is one more than the limits of    *)
(* the snapshot and of the page's list leave room for.                     *)
(***************************************************************************)
EXTENDS Feed

HealingMessages ==
  [event : 1..MaxEvents, status : {"active", "acknowledged", "resolved"}]
==========================================================================
