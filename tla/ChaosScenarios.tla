-------------------------- MODULE ChaosScenarios --------------------------
(***************************************************************************)
(* The six chaos scenarios (cmd/chaos/internal/chaos/scenarios), each a    *)
(* program per stage: the sequence of the calls whose outcome decides what *)
(* the scenario does to the containers or where it goes next.  What is     *)
(* measured and reported, and what stabilizeSystem does to rows and        *)
(* queues, is left out.                                                    *)
(***************************************************************************)
EXTENDS Containers, Sequences

\* A call: what it does, to which containers, and what its error does:
\* "abort" ends the stage, "warn" is logged, "any" is one or the other.
Call(op, on, err) == [op |-> op, on |-> on, err |-> err]

Require(on) == Call("require", on, "abort")          \* container health
Check == Call("check", {}, "abort")                  \* a condition or a wait that must be met
Submit == Call("submit", {}, "abort")                \* POST /tasks, without the context
AwaitEvent == Call("await", {}, "abort")             \* WaitFor, fatal only when cut off
Await == Call("await", {}, "warn")

QueueFloodCleanup ==
  <<Await>>

QueueFlood ==
  [setup    |-> <<Require({"worker"}), Check>>,
   inject   |-> <<Submit>>,
   observe  |-> <<AwaitEvent>>,
   validate |-> <<>>,
   cleanup  |-> QueueFloodCleanup]

PostgresFailureCleanup ==
  <<Call("ensure", {"postgres"}, "warn"), Await>>

PostgresFailure ==
  [setup    |-> <<Require({"worker", "postgres"}), Check>>,
   inject   |-> <<Call("stop", {"postgres"}, "abort")>>,
   observe  |-> <<Await>>,
   validate |-> <<Call("start", {"postgres"}, "abort"), Await>>,
   cleanup  |-> PostgresFailureCleanup]

\* Mutant of WorkerCrashCleanup: the restart policy is not restored.
WorkerCrashCleanupForgets == <<Call("ensure", {"worker"}, "warn"), Await>>

WorkerCrashCleanup ==
  <<Call("enableRestart", {"worker"}, "warn"),
    Call("ensure", {"worker"}, "warn"), Await>>

WorkerCrash ==
  [setup    |-> <<Require({"worker", "postgres"}), Check, Submit>>,
   inject   |-> <<Call("disableRestart", {"worker"}, "abort"),
                  Call("kill", {"worker"}, "abort")>>,
   observe  |-> <<AwaitEvent>>,
   validate |-> <<Call("start", {"worker"}, "abort"), Await>>,
   cleanup  |-> WorkerCrashCleanup]

\* resume: IsPaused, then Unpause, or Start if the health check says so.
RuntimeHangCleanup ==
  <<Call("resume", {"ai-runtime"}, "any"),
    Call("reboot", {"ai-runtime"}, "abort"), Await>>

RuntimeHang ==
  [setup    |-> <<Call("reboot", {"ai-runtime"}, "warn"), Require(Services), Await>>,
   inject   |-> <<Submit, Check, Call("pause", {"ai-runtime"}, "abort")>>,
   observe  |-> <<AwaitEvent>>,
   validate |-> <<>>,
   cleanup  |-> RuntimeHangCleanup]

AIFailureCleanup ==
  <<Call("ensure", {"ai-runtime"}, "warn"), Await>>

AIFailure ==
  [setup    |-> <<Require({"worker"}), Call("ensure", {"ai-runtime"}, "warn"),
                  Check, Submit, Check>>,
   inject   |-> <<Call("stop", {"ai-runtime"}, "abort"), Submit>>,
   observe  |-> <<AwaitEvent>>,
   validate |-> <<Call("start", {"ai-runtime"}, "abort"), Await>>,
   cleanup  |-> AIFailureCleanup]

SlowInferenceCleanup ==
  <<Call("resetDelay", {"ai-runtime"}, "warn"), Await>>

SlowInference ==
  [setup    |-> <<Require({"worker"}), Call("ensure", {"ai-runtime"}, "warn"),
                  Check, Call("resetDelay", {"ai-runtime"}, "warn")>>,
   inject   |-> <<Call("setDelay", {"ai-runtime"}, "abort"), Submit>>,
   observe  |-> <<AwaitEvent>>,
   validate |-> <<>>,
   cleanup  |-> SlowInferenceCleanup]

Programs ==
  [queue_flood |-> QueueFlood, postgres_failure |-> PostgresFailure,
   worker_crash |-> WorkerCrash, runtime_hang |-> RuntimeHang,
   ai_failure |-> AIFailure, slow_inference |-> SlowInference]

Scenarios == DOMAIN Programs

----------------------------------------------------------------------------
(* What a call does.                                                       *)

\* The calls that are given the scenario's context.
UsesContext(call) == call.op \notin {"submit", "setDelay", "resetDelay"}

\* The calls during which time passes: ensure and reboot wait for the container
\* to be healthy, for 30 to 240 seconds.
Waits(call) == call.op \in {"check", "await", "submit", "ensure", "reboot"}

\* The calls that may fail because of what they find.
MayDisappoint(call) == call.op \in {"require", "check", "submit"}

\* When the container is in a state in which the call can succeed.
Accepts(call) ==
  \A c \in call.on :
    CASE call.op = "require" -> MayBeHealthy(c)
      [] call.op = "kill" -> container[c] # "exited"
      [] call.op = "start" -> container[c] # "paused"
      [] call.op \in {"pause", "setDelay", "resetDelay"} -> container[c] = "running"
      [] OTHER -> TRUE

\* The effect of a call that succeeds.
Effect(call) ==
  \/ call.op \in {"require", "check", "submit", "await"} /\ UNCHANGED containerVars
  \/ \E c \in call.on :
       \/ call.op \in {"stop", "kill"} /\ Exits(c)
       \/ call.op = "start" /\ Runs(c)
       \/ call.op = "pause" /\ Pauses(c)
       \/ call.op = "ensure" /\ container[c] # "paused" /\ Runs(c)
       \/ call.op = "resume" /\ Runs(c)
       \/ call.op = "reboot" /\ Reboots(c)
       \/ call.op \in {"ensure", "reboot"} /\ MayBeHealthy(c) /\ UNCHANGED containerVars
       \/ call.op \in {"disableRestart", "enableRestart"}
            /\ SetRestart(call.op = "enableRestart")
       \/ call.op \in {"setDelay", "resetDelay"} /\ SetDelay(call.op = "setDelay")

\* What a call that reports an error may have done.
Remains(call) ==
  \/ UNCHANGED containerVars
  \/ Accepts(call) /\ Effect(call)
  \/ call.op = "reboot" /\ \E c \in call.on : Exits(c)
==========================================================================
