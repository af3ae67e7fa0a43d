------------------------------ MODULE Faults ------------------------------
(***************************************************************************)
(* The failures a behaviour may meet, bounded so that TLC can enumerate    *)
(* them.  A fault is an error of PostgreSQL, SQS or the file system that   *)
(* the code only logs or ignores, or a call that took effect although it   *)
(* reported an error.                                                      *)
(* (An error the code answers with another step, such as a failed          *)
(* inference, is not counted: it may happen any number of times.)          *)
(* A crash is the end of a process or of a request between two steps.      *)
(***************************************************************************)
EXTENDS Naturals

CONSTANTS
  MaxFaults,         \* bound on faults in a behaviour
  MaxCrashes         \* bound on crashes in a behaviour

ASSUME FaultAssumption == MaxFaults \in Nat /\ MaxCrashes \in Nat

VARIABLES faults, crashes

faultVars == <<faults, crashes>>

FaultTypeOK ==
  /\ faults \in 0..MaxFaults
  /\ crashes \in 0..MaxCrashes

FaultInit == faults = 0 /\ crashes = 0

Fault ==
  /\ faults < MaxFaults
  /\ faults' = faults + 1
  /\ UNCHANGED crashes

CrashHappens ==
  /\ crashes < MaxCrashes
  /\ crashes' = crashes + 1
  /\ UNCHANGED faults
==========================================================================
