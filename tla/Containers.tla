---------------------------- MODULE Containers ----------------------------
(***************************************************************************)
(* The containers the chaos scenarios break, as the chaos runner sees them *)
(* through its Docker controller (cmd/chaos/internal/chaos/docker): one    *)
(* operator per effect of a call.  Docker itself is external; Accepts in   *)
(* ChaosScenarios says when it takes a call.  The delay that               *)
(* slow-inference injects is a variable of the ai-runtime process and dies *)
(* with it.                                                                *)
(***************************************************************************)
EXTENDS Integers

Services == {"worker", "postgres", "ai-runtime"}

VARIABLES
  container,     \* container[c]: what Docker says of c
  autoRestart,   \* the worker's restart policy is unless-stopped
  delayed        \* the ai-runtime delays every inference

containerVars == <<container, autoRestart, delayed>>

ContainersTypeOK ==
  /\ container \in [Services -> {"running", "paused", "exited"}]
  /\ autoRestart \in BOOLEAN
  /\ delayed \in BOOLEAN

ContainersInit ==
  /\ container = [c \in Services |-> "running"]
  /\ autoRestart = TRUE
  /\ delayed = FALSE

\* Nothing that a scenario breaks is broken.
Intact == ContainersInit

\* Health: a paused container is not probed and keeps the last answer.
MayBeHealthy(c) == container[c] # "exited"
MayBeUnhealthy(c) == container[c] # "running"

Becomes(c, s) == container' = [container EXCEPT ![c] = s]

Exits(c) ==
  /\ Becomes(c, "exited")
  /\ delayed' = (delayed /\ c # "ai-runtime")
  /\ UNCHANGED autoRestart

Runs(c) == Becomes(c, "running") /\ UNCHANGED <<autoRestart, delayed>>

Pauses(c) == Becomes(c, "paused") /\ UNCHANGED <<autoRestart, delayed>>

\* Stop, then Start.
Reboots(c) ==
  /\ Becomes(c, "running")
  /\ delayed' = (delayed /\ c # "ai-runtime")
  /\ UNCHANGED autoRestart

\* DisableRestart and EnableRestart, which only worker-crash calls.
SetRestart(b) == autoRestart' = b /\ UNCHANGED <<container, delayed>>

\* setChaosConfig and resetChaosConfig: HTTP calls to the ai-runtime.
SetDelay(b) == delayed' = b /\ UNCHANGED <<container, autoRestart>>
==========================================================================
