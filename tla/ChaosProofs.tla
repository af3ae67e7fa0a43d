---------------------------- MODULE ChaosProofs ----------------------------
(***************************************************************************)
(* Proofs about ChaosRunner, for every choice of suites, of scenarios that *)
(* outlast their deadline, and of the bounds: type correctness, that a     *)
(* scenario whose Cleanup met no error leaves nothing broken, and that the *)
(* healing events are withheld only while a runner is at work.             *)
(***************************************************************************)
EXTENDS ChaosRunner, TLAPS

----------------------------------------------------------------------------
(* What the programs of the scenarios do to the containers.                *)

\* The call of Cleanup that puts the containers right which its scenario
\* may have broken.
MendingCall(s) == IF s = "worker_crash" THEN 2 ELSE 1

Mends(call) == call.op \in {"ensure", "resume", "resetDelay"}

\* What the i-th call of a stage may be: a container is broken only by a
\* scenario that has it among its targets, and what one call of Inject
\* breaks, one call of Cleanup restores.
WellPlaced(s, st, i, call) ==
  /\ call.on \in SUBSET Services
  /\ call.op \in {"stop", "kill", "pause", "reboot"} => call.on \subseteq Targets(s)
  /\ call.op \in {"stop", "kill", "pause", "disableRestart", "setDelay"} => st = "inject"
  /\ call.op = "pause" => s = "runtime_hang" /\ call.on = {"ai-runtime"}
  /\ call.op = "disableRestart" => s = "worker_crash"
  /\ call.op = "setDelay" => s = "slow_inference"
  /\ st = "cleanup" /\ i = MendingCall(s) =>
       \A c \in Targets(s) : Mends(call) /\ call.on = {c}
  /\ st = "cleanup" /\ i = 1 =>
       /\ s = "runtime_hang" => call.op = "resume"
       /\ s = "worker_crash" => call.op = "enableRestart"
       /\ s = "slow_inference" => call.op = "resetDelay"
  /\ call.op \in {"enableRestart", "setDelay", "resetDelay", "resume"} =>
       \E c \in Services : call.on = {c}

\* The containers each scenario may leave stopped or paused.
LEMMA TargetsOf ==
  /\ Targets("queue_flood") = {}
  /\ Targets("postgres_failure") = {"postgres"}
  /\ Targets("worker_crash") = {"worker"}
  /\ Targets("runtime_hang") = {"ai-runtime"}
  /\ Targets("ai_failure") = {"ai-runtime"}
  /\ Targets("slow_inference") = {"ai-runtime"}
<1> USE DEF Targets, Programs, Call, Submit, Check
<1>1. Targets("queue_flood") = {}
  BY DEF QueueFlood
<1>2. Targets("postgres_failure") = {"postgres"}
  BY DEF PostgresFailure
<1>3. Targets("worker_crash") = {"worker"}
  BY DEF WorkerCrash
<1>4. Targets("runtime_hang") = {"ai-runtime"}
  BY DEF RuntimeHang
<1>5. Targets("ai_failure") = {"ai-runtime"}
  BY DEF AIFailure
<1>6. Targets("slow_inference") = {"ai-runtime"}
  BY DEF SlowInference
<1> QED BY <1>1, <1>2, <1>3, <1>4, <1>5, <1>6

\* The six scenarios are the fields of Programs.
LEMMA ScenarioNames ==
  Scenarios = {"queue_flood", "postgres_failure", "worker_crash",
               "runtime_hang", "ai_failure", "slow_inference"}
BY DEF Scenarios, Programs

\* The stages of queue-flood.
LEMMA QueueFloodStages ==
  /\ Programs["queue_flood"]["setup"] = <<Require({"worker"}), Check>>
  /\ Programs["queue_flood"]["inject"] = <<Submit>>
  /\ Programs["queue_flood"]["observe"] = <<AwaitEvent>>
  /\ Programs["queue_flood"]["validate"] = <<>>
  /\ Programs["queue_flood"]["cleanup"] = <<Await>>
BY DEF Programs, QueueFlood, QueueFloodCleanup

\* Every call of queue-flood is well placed.
LEMMA QueueFloodCalls ==
  ASSUME NEW st \in Stages, NEW i \in DOMAIN Programs["queue_flood"][st]
  PROVE  WellPlaced("queue_flood", st, i, Programs["queue_flood"][st][i])
<1> USE QueueFloodStages, TargetsOf DEF WellPlaced, Call, Require, Check, Submit,
        AwaitEvent, Await, MendingCall, Mends, Services
<1>1. CASE st = "setup"
  <2>1. CASE i = 1
    BY <1>1, <2>1
  <2>2. CASE i = 2
    BY <1>1, <2>2
  <2> QED BY <1>1, <2>1, <2>2
<1>2. CASE st = "inject"
  BY <1>2
<1>3. CASE st = "observe"
  BY <1>3
<1>4. CASE st = "validate"
  BY <1>4
<1>5. CASE st = "cleanup"
  BY <1>5
<1> QED BY <1>1, <1>2, <1>3, <1>4, <1>5 DEF Stages

\* The stages of postgres-failure.
LEMMA PostgresFailureStages ==
  /\ Programs["postgres_failure"]["setup"] = <<Require({"worker", "postgres"}), Check>>
  /\ Programs["postgres_failure"]["inject"] = <<Call("stop", {"postgres"}, "abort")>>
  /\ Programs["postgres_failure"]["observe"] = <<Await>>
  /\ Programs["postgres_failure"]["validate"] = <<Call("start", {"postgres"}, "abort"), Await>>
  /\ Programs["postgres_failure"]["cleanup"] = <<Call("ensure", {"postgres"}, "warn"), Await>>
BY DEF Programs, PostgresFailure, PostgresFailureCleanup

\* Every call of postgres-failure is well placed.
LEMMA PostgresFailureCalls ==
  ASSUME NEW st \in Stages, NEW i \in DOMAIN Programs["postgres_failure"][st]
  PROVE  WellPlaced("postgres_failure", st, i, Programs["postgres_failure"][st][i])
<1> USE PostgresFailureStages, TargetsOf DEF WellPlaced, Call, Require, Check, Submit,
        AwaitEvent, Await, MendingCall, Mends, Services
<1>1. CASE st = "setup"
  <2>1. CASE i = 1
    BY <1>1, <2>1
  <2>2. CASE i = 2
    BY <1>1, <2>2
  <2> QED BY <1>1, <2>1, <2>2
<1>2. CASE st = "inject"
  BY <1>2
<1>3. CASE st = "observe"
  BY <1>3
<1>4. CASE st = "validate"
  <2>1. CASE i = 1
    BY <1>4, <2>1
  <2>2. CASE i = 2
    BY <1>4, <2>2
  <2> QED BY <1>4, <2>1, <2>2
<1>5. CASE st = "cleanup"
  <2>1. CASE i = 1
    BY <1>5, <2>1
  <2>2. CASE i = 2
    BY <1>5, <2>2
  <2> QED BY <1>5, <2>1, <2>2
<1> QED BY <1>1, <1>2, <1>3, <1>4, <1>5 DEF Stages

\* The stages of worker-crash.
LEMMA WorkerCrashStages ==
  /\ Programs["worker_crash"]["setup"] = <<Require({"worker", "postgres"}), Check, Submit>>
  /\ Programs["worker_crash"]["inject"] = <<Call("disableRestart", {"worker"}, "abort"),
         Call("kill", {"worker"}, "abort")>>
  /\ Programs["worker_crash"]["observe"] = <<AwaitEvent>>
  /\ Programs["worker_crash"]["validate"] = <<Call("start", {"worker"}, "abort"), Await>>
  /\ Programs["worker_crash"]["cleanup"] = <<Call("enableRestart", {"worker"}, "warn"),
         Call("ensure", {"worker"}, "warn"), Await>>
BY DEF Programs, WorkerCrash, WorkerCrashCleanup

\* Every call of worker-crash is well placed.
LEMMA WorkerCrashCalls ==
  ASSUME NEW st \in Stages, NEW i \in DOMAIN Programs["worker_crash"][st]
  PROVE  WellPlaced("worker_crash", st, i, Programs["worker_crash"][st][i])
<1> USE WorkerCrashStages, TargetsOf DEF WellPlaced, Call, Require, Check, Submit,
        AwaitEvent, Await, MendingCall, Mends, Services
<1>1. CASE st = "setup"
  <2>1. CASE i = 1
    BY <1>1, <2>1
  <2>2. CASE i = 2
    BY <1>1, <2>2
  <2>3. CASE i = 3
    BY <1>1, <2>3
  <2> QED BY <1>1, <2>1, <2>2, <2>3
<1>2. CASE st = "inject"
  <2>1. CASE i = 1
    BY <1>2, <2>1
  <2>2. CASE i = 2
    BY <1>2, <2>2
  <2> QED BY <1>2, <2>1, <2>2
<1>3. CASE st = "observe"
  BY <1>3
<1>4. CASE st = "validate"
  <2>1. CASE i = 1
    BY <1>4, <2>1
  <2>2. CASE i = 2
    BY <1>4, <2>2
  <2> QED BY <1>4, <2>1, <2>2
<1>5. CASE st = "cleanup"
  <2>1. CASE i = 1
    BY <1>5, <2>1
  <2>2. CASE i = 2
    BY <1>5, <2>2
  <2>3. CASE i = 3
    BY <1>5, <2>3
  <2> QED BY <1>5, <2>1, <2>2, <2>3
<1> QED BY <1>1, <1>2, <1>3, <1>4, <1>5 DEF Stages

\* The stages of runtime-hang.
LEMMA RuntimeHangStages ==
  /\ Programs["runtime_hang"]["setup"] = <<
         Call("reboot", {"ai-runtime"}, "warn"), Require(Services), Await>>
  /\ Programs["runtime_hang"]["inject"] = <<Submit, Check,
         Call("pause", {"ai-runtime"}, "abort")>>
  /\ Programs["runtime_hang"]["observe"] = <<AwaitEvent>>
  /\ Programs["runtime_hang"]["validate"] = <<>>
  /\ Programs["runtime_hang"]["cleanup"] = <<Call("resume", {"ai-runtime"}, "any"),
         Call("reboot", {"ai-runtime"}, "abort"), Await>>
BY DEF Programs, RuntimeHang, RuntimeHangCleanup

\* Every call of runtime-hang is well placed.
LEMMA RuntimeHangCalls ==
  ASSUME NEW st \in Stages, NEW i \in DOMAIN Programs["runtime_hang"][st]
  PROVE  WellPlaced("runtime_hang", st, i, Programs["runtime_hang"][st][i])
<1> USE RuntimeHangStages, TargetsOf DEF WellPlaced, Call, Require, Check, Submit,
        AwaitEvent, Await, MendingCall, Mends, Services
<1>1. CASE st = "setup"
  <2>1. CASE i = 1
    BY <1>1, <2>1
  <2>2. CASE i = 2
    BY <1>1, <2>2
  <2>3. CASE i = 3
    BY <1>1, <2>3
  <2> QED BY <1>1, <2>1, <2>2, <2>3
<1>2. CASE st = "inject"
  <2>1. CASE i = 1
    BY <1>2, <2>1
  <2>2. CASE i = 2
    BY <1>2, <2>2
  <2>3. CASE i = 3
    BY <1>2, <2>3
  <2> QED BY <1>2, <2>1, <2>2, <2>3
<1>3. CASE st = "observe"
  BY <1>3
<1>4. CASE st = "validate"
  BY <1>4
<1>5. CASE st = "cleanup"
  <2>1. CASE i = 1
    BY <1>5, <2>1
  <2>2. CASE i = 2
    BY <1>5, <2>2
  <2>3. CASE i = 3
    BY <1>5, <2>3
  <2> QED BY <1>5, <2>1, <2>2, <2>3
<1> QED BY <1>1, <1>2, <1>3, <1>4, <1>5 DEF Stages

\* The stages of ai-failure.
LEMMA AIFailureStages ==
  /\ Programs["ai_failure"]["setup"] = <<Require({"worker"}),
         Call("ensure", {"ai-runtime"}, "warn"), Check, Submit, Check>>
  /\ Programs["ai_failure"]["inject"] = <<Call("stop", {"ai-runtime"}, "abort"), Submit>>
  /\ Programs["ai_failure"]["observe"] = <<AwaitEvent>>
  /\ Programs["ai_failure"]["validate"] = <<Call("start", {"ai-runtime"}, "abort"), Await>>
  /\ Programs["ai_failure"]["cleanup"] = <<Call("ensure", {"ai-runtime"}, "warn"), Await>>
BY DEF Programs, AIFailure, AIFailureCleanup

\* Every call of ai-failure is well placed.
LEMMA AIFailureCalls ==
  ASSUME NEW st \in Stages, NEW i \in DOMAIN Programs["ai_failure"][st]
  PROVE  WellPlaced("ai_failure", st, i, Programs["ai_failure"][st][i])
<1> USE AIFailureStages, TargetsOf DEF WellPlaced, Call, Require, Check, Submit,
        AwaitEvent, Await, MendingCall, Mends, Services
<1>1. CASE st = "setup"
  <2>1. CASE i = 1
    BY <1>1, <2>1
  <2>2. CASE i = 2
    BY <1>1, <2>2
  <2>3. CASE i = 3
    BY <1>1, <2>3
  <2>4. CASE i = 4
    BY <1>1, <2>4
  <2>5. CASE i = 5
    BY <1>1, <2>5
  <2> QED BY <1>1, <2>1, <2>2, <2>3, <2>4, <2>5
<1>2. CASE st = "inject"
  <2>1. CASE i = 1
    BY <1>2, <2>1
  <2>2. CASE i = 2
    BY <1>2, <2>2
  <2> QED BY <1>2, <2>1, <2>2
<1>3. CASE st = "observe"
  BY <1>3
<1>4. CASE st = "validate"
  <2>1. CASE i = 1
    BY <1>4, <2>1
  <2>2. CASE i = 2
    BY <1>4, <2>2
  <2> QED BY <1>4, <2>1, <2>2
<1>5. CASE st = "cleanup"
  <2>1. CASE i = 1
    BY <1>5, <2>1
  <2>2. CASE i = 2
    BY <1>5, <2>2
  <2> QED BY <1>5, <2>1, <2>2
<1> QED BY <1>1, <1>2, <1>3, <1>4, <1>5 DEF Stages

\* The stages of slow-inference.
LEMMA SlowInferenceStages ==
  /\ Programs["slow_inference"]["setup"] = <<Require({"worker"}),
         Call("ensure", {"ai-runtime"}, "warn"), Check, Call("resetDelay", {"ai-runtime"}, "warn")>>
  /\ Programs["slow_inference"]["inject"] = <<
         Call("setDelay", {"ai-runtime"}, "abort"), Submit>>
  /\ Programs["slow_inference"]["observe"] = <<AwaitEvent>>
  /\ Programs["slow_inference"]["validate"] = <<>>
  /\ Programs["slow_inference"]["cleanup"] = <<
         Call("resetDelay", {"ai-runtime"}, "warn"), Await>>
BY DEF Programs, SlowInference, SlowInferenceCleanup

\* Every call of slow-inference is well placed.
LEMMA SlowInferenceCalls ==
  ASSUME NEW st \in Stages, NEW i \in DOMAIN Programs["slow_inference"][st]
  PROVE  WellPlaced("slow_inference", st, i, Programs["slow_inference"][st][i])
<1> USE SlowInferenceStages, TargetsOf DEF WellPlaced, Call, Require, Check, Submit,
        AwaitEvent, Await, MendingCall, Mends, Services
<1>1. CASE st = "setup"
  <2>1. CASE i = 1
    BY <1>1, <2>1
  <2>2. CASE i = 2
    BY <1>1, <2>2
  <2>3. CASE i = 3
    BY <1>1, <2>3
  <2>4. CASE i = 4
    BY <1>1, <2>4
  <2> QED BY <1>1, <2>1, <2>2, <2>3, <2>4
<1>2. CASE st = "inject"
  <2>1. CASE i = 1
    BY <1>2, <2>1
  <2>2. CASE i = 2
    BY <1>2, <2>2
  <2> QED BY <1>2, <2>1, <2>2
<1>3. CASE st = "observe"
  BY <1>3
<1>4. CASE st = "validate"
  BY <1>4
<1>5. CASE st = "cleanup"
  <2>1. CASE i = 1
    BY <1>5, <2>1
  <2>2. CASE i = 2
    BY <1>5, <2>2
  <2> QED BY <1>5, <2>1, <2>2
<1> QED BY <1>1, <1>2, <1>3, <1>4, <1>5 DEF Stages

\* A stage is a finite sequence of calls, and Cleanup has its mending call.
LEMMA ProgramLengths ==
  ASSUME NEW s \in Scenarios, NEW st \in Stages
  PROVE  /\ Len(Programs[s][st]) \in Nat
         /\ DOMAIN Programs[s][st] = 1..Len(Programs[s][st])
         /\ st = "cleanup" => MendingCall(s) \in DOMAIN Programs[s][st]
<1>1. CASE s = "queue_flood"
  <2>1. CASE st = "setup"
    BY <1>1, <2>1, QueueFloodStages
  <2>2. CASE st = "inject"
    BY <1>1, <2>2, QueueFloodStages
  <2>3. CASE st = "observe"
    BY <1>1, <2>3, QueueFloodStages
  <2>4. CASE st = "validate"
    BY <1>1, <2>4, QueueFloodStages
  <2>5. CASE st = "cleanup"
    <3>1. MendingCall(s) = 1
      BY <1>1 DEF MendingCall
    <3>2. DOMAIN Programs[s][st] = 1..1
      BY <1>1, <2>5, QueueFloodStages
    <3>3. Len(Programs[s][st]) \in Nat /\ DOMAIN Programs[s][st] = 1..Len(Programs[s][st])
      BY <1>1, <2>5, QueueFloodStages
    <3>4. MendingCall(s) \in DOMAIN Programs[s][st]
      BY <3>1, <3>2
    <3> QED BY <3>3, <3>4
  <2> QED BY <2>1, <2>2, <2>3, <2>4, <2>5 DEF Stages
<1>2. CASE s = "postgres_failure"
  <2>1. CASE st = "setup"
    BY <1>2, <2>1, PostgresFailureStages
  <2>2. CASE st = "inject"
    BY <1>2, <2>2, PostgresFailureStages
  <2>3. CASE st = "observe"
    BY <1>2, <2>3, PostgresFailureStages
  <2>4. CASE st = "validate"
    BY <1>2, <2>4, PostgresFailureStages
  <2>5. CASE st = "cleanup"
    <3>1. MendingCall(s) = 1
      BY <1>2 DEF MendingCall
    <3>2. DOMAIN Programs[s][st] = 1..2
      BY <1>2, <2>5, PostgresFailureStages
    <3>3. Len(Programs[s][st]) \in Nat /\ DOMAIN Programs[s][st] = 1..Len(Programs[s][st])
      BY <1>2, <2>5, PostgresFailureStages
    <3>4. MendingCall(s) \in DOMAIN Programs[s][st]
      BY <3>1, <3>2
    <3> QED BY <3>3, <3>4
  <2> QED BY <2>1, <2>2, <2>3, <2>4, <2>5 DEF Stages
<1>3. CASE s = "worker_crash"
  <2>1. CASE st = "setup"
    BY <1>3, <2>1, WorkerCrashStages
  <2>2. CASE st = "inject"
    BY <1>3, <2>2, WorkerCrashStages
  <2>3. CASE st = "observe"
    BY <1>3, <2>3, WorkerCrashStages
  <2>4. CASE st = "validate"
    BY <1>3, <2>4, WorkerCrashStages
  <2>5. CASE st = "cleanup"
    <3>1. MendingCall(s) = 2
      BY <1>3 DEF MendingCall
    <3>2. DOMAIN Programs[s][st] = 1..3
      BY <1>3, <2>5, WorkerCrashStages
    <3>3. Len(Programs[s][st]) \in Nat /\ DOMAIN Programs[s][st] = 1..Len(Programs[s][st])
      BY <1>3, <2>5, WorkerCrashStages
    <3>4. MendingCall(s) \in DOMAIN Programs[s][st]
      BY <3>1, <3>2
    <3> QED BY <3>3, <3>4
  <2> QED BY <2>1, <2>2, <2>3, <2>4, <2>5 DEF Stages
<1>4. CASE s = "runtime_hang"
  <2>1. CASE st = "setup"
    BY <1>4, <2>1, RuntimeHangStages
  <2>2. CASE st = "inject"
    BY <1>4, <2>2, RuntimeHangStages
  <2>3. CASE st = "observe"
    BY <1>4, <2>3, RuntimeHangStages
  <2>4. CASE st = "validate"
    BY <1>4, <2>4, RuntimeHangStages
  <2>5. CASE st = "cleanup"
    <3>1. MendingCall(s) = 1
      BY <1>4 DEF MendingCall
    <3>2. DOMAIN Programs[s][st] = 1..3
      BY <1>4, <2>5, RuntimeHangStages
    <3>3. Len(Programs[s][st]) \in Nat /\ DOMAIN Programs[s][st] = 1..Len(Programs[s][st])
      BY <1>4, <2>5, RuntimeHangStages
    <3>4. MendingCall(s) \in DOMAIN Programs[s][st]
      BY <3>1, <3>2
    <3> QED BY <3>3, <3>4
  <2> QED BY <2>1, <2>2, <2>3, <2>4, <2>5 DEF Stages
<1>5. CASE s = "ai_failure"
  <2>1. CASE st = "setup"
    BY <1>5, <2>1, AIFailureStages
  <2>2. CASE st = "inject"
    BY <1>5, <2>2, AIFailureStages
  <2>3. CASE st = "observe"
    BY <1>5, <2>3, AIFailureStages
  <2>4. CASE st = "validate"
    BY <1>5, <2>4, AIFailureStages
  <2>5. CASE st = "cleanup"
    <3>1. MendingCall(s) = 1
      BY <1>5 DEF MendingCall
    <3>2. DOMAIN Programs[s][st] = 1..2
      BY <1>5, <2>5, AIFailureStages
    <3>3. Len(Programs[s][st]) \in Nat /\ DOMAIN Programs[s][st] = 1..Len(Programs[s][st])
      BY <1>5, <2>5, AIFailureStages
    <3>4. MendingCall(s) \in DOMAIN Programs[s][st]
      BY <3>1, <3>2
    <3> QED BY <3>3, <3>4
  <2> QED BY <2>1, <2>2, <2>3, <2>4, <2>5 DEF Stages
<1>6. CASE s = "slow_inference"
  <2>1. CASE st = "setup"
    BY <1>6, <2>1, SlowInferenceStages
  <2>2. CASE st = "inject"
    BY <1>6, <2>2, SlowInferenceStages
  <2>3. CASE st = "observe"
    BY <1>6, <2>3, SlowInferenceStages
  <2>4. CASE st = "validate"
    BY <1>6, <2>4, SlowInferenceStages
  <2>5. CASE st = "cleanup"
    <3>1. MendingCall(s) = 1
      BY <1>6 DEF MendingCall
    <3>2. DOMAIN Programs[s][st] = 1..2
      BY <1>6, <2>5, SlowInferenceStages
    <3>3. Len(Programs[s][st]) \in Nat /\ DOMAIN Programs[s][st] = 1..Len(Programs[s][st])
      BY <1>6, <2>5, SlowInferenceStages
    <3>4. MendingCall(s) \in DOMAIN Programs[s][st]
      BY <3>1, <3>2
    <3> QED BY <3>3, <3>4
  <2> QED BY <2>1, <2>2, <2>3, <2>4, <2>5 DEF Stages
<1> QED BY <1>1, <1>2, <1>3, <1>4, <1>5, <1>6, ScenarioNames

\* Every call of every scenario is well placed.
LEMMA CallsWellPlaced ==
  ASSUME NEW s \in Scenarios, NEW st \in Stages,
         NEW i \in 1..Len(Programs[s][st])
  PROVE  WellPlaced(s, st, i, Programs[s][st][i])
BY ScenarioNames, ProgramLengths, QueueFloodCalls, PostgresFailureCalls,
   WorkerCrashCalls, RuntimeHangCalls, AIFailureCalls, SlowInferenceCalls

----------------------------------------------------------------------------
(* The inductive invariant: whatever is broken is owed to a scenario whose *)
(* Cleanup went wrong, or to the current one, whose Cleanup has not yet    *)
(* made the call that mends it.                                            *)

\* The current scenario is s, and the first n calls of its Cleanup are not
\* all behind it.
Before(s, n) ==
  phase = "scenario" /\ Head(todo) = s /\ ~(stage = "cleanup" /\ step > n)

Spoils(c) == \E s \in spoilt : c \in Targets(s)

DownIsOwed ==
  \A c \in Services : container[c] # "running" =>
    \/ Spoils(c)
    \/ \E s \in Scenarios : c \in Targets(s) /\ Before(s, MendingCall(s))

PausedIsOwed ==
  \A c \in Services : container[c] = "paused" =>
    /\ c = "ai-runtime"
    /\ "runtime_hang" \in spoilt \/ Before("runtime_hang", 1)

RestartIsOwed ==
  autoRestart \/ "worker_crash" \in spoilt \/ Before("worker_crash", 1)

DelayIsOwed ==
  ~delayed \/ "slow_inference" \in spoilt \/ Before("slow_inference", 1)

ContainersInv == DownIsOwed /\ PausedIsOwed /\ RestartIsOwed /\ DelayIsOwed

\* As long as nothing keeps the runner from its own end, the row of a run is
\* 'running' only while Runner.Run is between SetRunning and SetCompleted.
RowsInv ==
  /\ "interrupt" \in ended => expiries["interrupt"] > 0
  /\ Undisturbed =>
       \A r \in RunIds : status[r] = "running" =>
         r = run /\ phase \in {"pick", "scenario", "finish"}

ChaosInv == ChaosTypeOK /\ ContainersInv /\ RowsInv

----------------------------------------------------------------------------
(* Types.                                                                  *)

\* A call that takes effect, and what a failed one leaves, are well typed.
LEMMA EffectTyped ==
  ASSUME ContainersTypeOK, NEW call, call.on \in SUBSET Services,
         Effect(call) \/ Remains(call)
  PROVE  ContainersTypeOK'
<1>1. CASE UNCHANGED containerVars
  BY <1>1 DEF containerVars, ContainersTypeOK
<1>2. ASSUME NEW c \in Services, Exits(c) \/ Runs(c) \/ Pauses(c) \/ Reboots(c)
      PROVE  ContainersTypeOK'
  BY <1>2 DEF ContainersTypeOK, Exits, Runs, Pauses, Reboots, Becomes
<1>3. ASSUME NEW b \in BOOLEAN, SetRestart(b) \/ SetDelay(b)
      PROVE  ContainersTypeOK'
  BY <1>3 DEF ContainersTypeOK, SetRestart, SetDelay
<1>4. CASE Effect(call)
  BY <1>1, <1>2, <1>3, <1>4 DEF Effect
<1> QED BY <1>1, <1>2, <1>4 DEF Remains

\* The call that comes next is well placed.
LEMMA ThisCallWellPlaced ==
  ASSUME ChaosTypeOK, InStage
  PROVE  /\ Head(todo) \in Scenarios /\ stage \in Stages
         /\ Len(Program) \in Nat /\ step \in 1..Len(Program)
         /\ WellPlaced(Head(todo), stage, step, ThisCall)
<1>1. Head(todo) \in Scenarios /\ stage \in Stages /\ step \in Nat \ {0}
  BY DEF ChaosTypeOK, InStage
<1>2. Len(Program) \in Nat /\ step \in 1..Len(Program)
  BY <1>1, ProgramLengths DEF InStage, Program
<1>3. WellPlaced(Head(todo), stage, step, ThisCall)
  BY <1>1, <1>2, CallsWellPlaced DEF ThisCall, Program
<1> QED BY <1>1, <1>2, <1>3

\* A step of the runner preserves the types.
LEMMA TypeStep ==
  ASSUME ChaosTypeOK, [Next]_chaosVars
  PROVE  ChaosTypeOK'
<1> USE ChaosAssumption, FaultAssumption DEF RunIds
<1>1. CASE Launch
  <2>1. run' \in 0..MaxRuns /\ todo' \in Seq(Scenarios)
    BY <1>1 DEF Launch, ChaosTypeOK
  <2>2. status' \in [RunIds -> {"none", "queued", "running", "completed", "failed"}]
    BY <1>1 DEF Launch, ChaosTypeOK
  <2>3. ContainersTypeOK' /\ FaultTypeOK'
    BY <1>1 DEF Launch, ChaosTypeOK, containerVars, faultVars, ContainersTypeOK, FaultTypeOK
  <2> QED BY <1>1, <2>1, <2>2, <2>3 DEF Launch, ChaosTypeOK, ctxVars
<1>2. ASSUME NEW s \in {"running", "completed", "failed"}, NEW ctx, UpdateRow(s, ctx), ChaosTypeOK
      PROVE  FaultTypeOK' /\ status' \in [RunIds -> {"none", "queued", "running", "completed", "failed"}]
  <2>1. FaultTypeOK'
    BY <1>2 DEF UpdateRow, Fault, faultVars, ChaosTypeOK, FaultTypeOK
  <2>2. Row(s) \/ UNCHANGED status
    BY <1>2 DEF UpdateRow
  <2>3. status' \in [RunIds -> {"none", "queued", "running", "completed", "failed"}]
    BY <2>2 DEF Row, ChaosTypeOK
  <2> QED BY <2>1, <2>3
<1>3. CASE SetRunning
  BY <1>2, <1>3 DEF SetRunning, ChaosTypeOK, ctxVars, containerVars, resultVars, ContainersTypeOK
<1>4. CASE NoScenarios
  BY <1>4 DEF NoScenarios, Exit, ChaosTypeOK, runVars, containerVars, resultVars, faultVars,
     ContainersTypeOK, FaultTypeOK
<1>5. CASE SetCompleted
  BY <1>2, <1>5 DEF SetCompleted, Exit, ChaosTypeOK, containerVars, resultVars, ContainersTypeOK
<1>6. CASE NextScenario
  <2> USE <1>6 DEF NextScenario, ChaosTypeOK, runVars, containerVars, ctxVars, faultVars,
      ContainersTypeOK, FaultTypeOK
  <2>1. CASE todo # <<>> /\ ended = {}
    <3>1. Len(Programs[Head(todo)]["setup"]) \in Nat
      BY <2>1, ProgramLengths DEF Stages
    <3>2. stage' = "setup" /\ step' = 1 /\ failed' = FALSE /\ phase' = "scenario"
      BY <2>1
    <3>3. todo' # <<>> /\ step' <= Len(Programs[Head(todo')][stage']) + 1
      BY <2>1, <3>1
    <3>4. {failed', anyFailed'} \subseteq BOOLEAN
      BY <3>2
    <3>5. ContainersTypeOK' /\ FaultTypeOK'
      OBVIOUS
    <3>6. stage' \in Stages /\ step' \in Nat \ {0} /\ phase' = "scenario"
      BY <3>2 DEF Stages
    <3> HIDE DEF NextScenario
    <3>7. UNCHANGED <<status, run, todo, ended, expiries, spoilt>>
      BY <2>1 DEF NextScenario
    <3> QED BY <3>3, <3>4, <3>5, <3>6, <3>7
  <2>2. CASE ~(todo # <<>> /\ ended = {})
    BY <2>2
  <2> QED BY <2>1, <2>2
<1>7. CASE CallSucceeds
  <2>1. ContainersTypeOK'
    BY <1>7, ThisCallWellPlaced, EffectTyped DEF CallSucceeds, WellPlaced, ChaosTypeOK
  <2>2. step' \in Nat \ {0} /\ step' <= Len(Program) + 1
    BY <1>7, ThisCallWellPlaced DEF CallSucceeds
  <2> QED BY <1>7, <2>1, <2>2 DEF CallSucceeds, InStage, ChaosTypeOK, Program, runVars, ctxVars,
          resultVars, faultVars, FaultTypeOK
<1>8. CASE CallFails
  <2> USE <1>8 DEF CallFails
  <2>1. ContainersTypeOK' /\ FaultTypeOK'
    <3>1. CASE UNCHANGED <<containerVars, faultVars>>
      BY <3>1 DEF ChaosTypeOK, containerVars, faultVars, ContainersTypeOK, FaultTypeOK
    <3>2. CASE Remains(ThisCall) /\ Fault
      BY <3>2, ThisCallWellPlaced, EffectTyped DEF WellPlaced, ChaosTypeOK, Fault, FaultTypeOK
    <3> QED BY <3>1, <3>2
  <2>2. Head(todo) \in Scenarios /\ Len(Program) \in Nat /\ step \in 1..Len(Program)
    BY ThisCallWellPlaced
  <2>3. Len(Programs[Head(todo)]["cleanup"]) \in Nat
    BY <2>2, ProgramLengths DEF Stages
  <2>4. /\ step' \in Nat \ {0} /\ stage' \in Stages /\ failed' \in BOOLEAN
        /\ step' <= Len(Programs[Head(todo)][stage']) + 1
        /\ spoilt' \subseteq Scenarios
    <3>1. HandleError(ThisCall)
      OBVIOUS
    <3>2. spoilt' \subseteq Scenarios
      BY <2>2, <3>1 DEF HandleError, ChaosTypeOK
    <3>3. CASE step' = step + 1 /\ UNCHANGED <<stage, failed>>
      BY <2>2, <3>2, <3>3 DEF Program, ChaosTypeOK
    <3>4. CASE stage = "cleanup" /\ step' = Len(Program) + 1 /\ UNCHANGED <<stage, failed>>
      <4>1. step' \in Nat \ {0} /\ step' <= Len(Programs[Head(todo)][stage']) + 1
        BY <2>2, <3>4 DEF Program
      <4>2. stage' \in Stages /\ failed' \in BOOLEAN
        BY <3>4 DEF ChaosTypeOK
      <4> QED BY <3>2, <4>1, <4>2
    <3>5. CASE step' = 1 /\ stage' = "cleanup" /\ failed' = TRUE
      BY <2>3, <3>2, <3>5 DEF Stages
    <3> QED BY <3>1, <3>3, <3>4, <3>5 DEF HandleError
  <2> QED BY <2>1, <2>4 DEF InStage, ChaosTypeOK, runVars, ctxVars
<1>9. CASE StageDone
  <2>1. Head(todo) \in Scenarios /\ After(stage) \in Stages
    BY <1>9 DEF StageDone, ChaosTypeOK, After, Stages
  <2>2. Len(Programs[Head(todo)][After(stage)]) \in Nat
    BY <2>1, ProgramLengths
  <2> QED BY <1>9, <2>1, <2>2 DEF StageDone, ChaosTypeOK, runVars, ctxVars, containerVars, faultVars,
          ContainersTypeOK, FaultTypeOK
<1>10. CASE ScenarioDone
  BY <1>10 DEF ScenarioDone, ChaosTypeOK, runVars, containerVars, faultVars, ContainersTypeOK, FaultTypeOK
<1>11. ASSUME NEW c \in DOMAIN MaxExpiries, Ends(c)
       PROVE  ChaosTypeOK'
  BY <1>11 DEF Ends, ChaosTypeOK, runVars, placeVars, resultVars, containerVars, faultVars,
     ContainersTypeOK, FaultTypeOK
<1>12. CASE DeadlinePasses \/ Interrupt
  BY <1>11, <1>12 DEF DeadlinePasses, Interrupt
<1>13. CASE RunnerCrash
  BY <1>13 DEF RunnerCrash, Exit, CrashHappens, ChaosTypeOK, runVars, containerVars,
     ContainersTypeOK, FaultTypeOK
<1>14. CASE UNCHANGED chaosVars
  BY <1>14 DEF chaosVars, ChaosTypeOK, runVars, placeVars, ctxVars, resultVars, containerVars, faultVars,
     ContainersTypeOK, FaultTypeOK, InStage
<1> QED BY <1>1, <1>3, <1>4, <1>5, <1>6, <1>7, <1>8, <1>9, <1>10, <1>12, <1>13, <1>14
        DEF Next, RunnerStep

\* Initially the types hold.
LEMMA TypeInit == Init => ChaosTypeOK
<1> SUFFICES ASSUME Init PROVE ChaosTypeOK
  OBVIOUS
<1>1. ContainersTypeOK /\ FaultTypeOK
  <2>1. ContainersTypeOK
    BY DEF Init, ContainersInit, ContainersTypeOK
  <2>2. FaultTypeOK
    BY FaultAssumption DEF Init, FaultInit, FaultTypeOK
  <2> QED BY <2>1, <2>2
<1>2. status \in [RunIds -> {"none", "queued", "running", "completed", "failed"}]
  BY DEF Init
<1>3. expiries \in [DOMAIN MaxExpiries -> Nat]
  <2>1. expiries = [c \in DOMAIN MaxExpiries |-> 0] /\ 0 \in Nat
    BY DEF Init
  <2> QED BY <2>1
<1>4. run \in 0..MaxRuns
  BY ChaosAssumption DEF Init
<1>5. todo \in Seq(Scenarios) /\ stage \in Stages /\ step \in Nat \ {0} /\ phase = "none"
  BY DEF Init, Stages
<1>6. ended = {} /\ spoilt = {} /\ failed = FALSE /\ anyFailed = FALSE
  BY DEF Init
<1> QED BY <1>1, <1>2, <1>3, <1>4, <1>5, <1>6 DEF ChaosTypeOK

\* Type correctness of the runner: its row, its place in the programs, its
\* contexts and the containers stay in their ranges.
THEOREM ChaosTypes == Spec => []ChaosTypeOK
BY TypeInit, TypeStep, PTL DEF Spec

----------------------------------------------------------------------------
(* What a call may break and what it mends.                                *)

\* What a call of scenario s may break, however it ends.
BreaksOnly(s) ==
  /\ \A c \in Services : container'[c] # "running" =>
       container[c] # "running" \/ c \in Targets(s)
  /\ \A c \in Services : container'[c] = "paused" =>
       container[c] = "paused" \/ (s = "runtime_hang" /\ c = "ai-runtime")
  /\ autoRestart' \/ ~autoRestart \/ s = "worker_crash"
  /\ ~delayed' \/ delayed \/ s = "slow_inference"

\* The effects of a call, by the operator that describes them.
LEMMA EffectCases ==
  ASSUME NEW call, Effect(call)
  PROVE  \/ UNCHANGED containerVars
         \/ \E c \in call.on :
              \/ call.op \in {"stop", "kill"} /\ Exits(c)
              \/ call.op \in {"start", "ensure", "resume"} /\ Runs(c)
              \/ call.op = "pause" /\ Pauses(c)
              \/ call.op = "reboot" /\ Reboots(c)
         \/ call.op = "disableRestart" /\ SetRestart(FALSE)
         \/ call.op = "enableRestart" /\ SetRestart(TRUE)
         \/ call.op = "setDelay" /\ SetDelay(TRUE)
         \/ call.op = "resetDelay" /\ SetDelay(FALSE)
BY DEF Effect, SetRestart, SetDelay

\* A call of s breaks nothing but what s is there to break.
LEMMA CallBreaksOnly ==
  ASSUME ContainersTypeOK, NEW s, NEW st, NEW i, NEW call, WellPlaced(s, st, i, call),
         Effect(call) \/ Remains(call)
  PROVE  BreaksOnly(s)
<1>0. /\ call.on \subseteq Services
      /\ call.op \in {"stop", "kill", "pause", "reboot"} => call.on \subseteq Targets(s)
      /\ call.op = "pause" => s = "runtime_hang" /\ call.on = {"ai-runtime"}
      /\ call.op = "disableRestart" => s = "worker_crash"
      /\ call.op = "setDelay" => s = "slow_inference"
  BY DEF WellPlaced
<1>1. CASE UNCHANGED containerVars
  BY <1>1 DEF containerVars, BreaksOnly
<1>2. ASSUME NEW c \in call.on, call.op \in {"stop", "kill", "reboot"}, Exits(c) \/ Reboots(c)
      PROVE  BreaksOnly(s)
  <2>1. \A d \in Services : container'[d] = container[d] \/ (container'[d] # "paused" /\ d \in Targets(s))
    BY <1>0, <1>2 DEF Exits, Reboots, Becomes, ContainersTypeOK
  <2>2. UNCHANGED autoRestart /\ (delayed' => delayed)
    BY <1>2 DEF Exits, Reboots
  <2> QED BY <2>1, <2>2 DEF BreaksOnly
<1>3. ASSUME NEW c \in call.on, Runs(c)
      PROVE  BreaksOnly(s)
  <2>1. \A d \in Services : container'[d] = container[d] \/ container'[d] = "running"
    BY <1>0, <1>3 DEF Runs, Becomes, ContainersTypeOK
  <2>2. UNCHANGED <<autoRestart, delayed>>
    BY <1>3 DEF Runs
  <2> QED BY <2>1, <2>2 DEF BreaksOnly
<1>4. ASSUME NEW c \in call.on, call.op = "pause", Pauses(c)
      PROVE  BreaksOnly(s)
  <2>1. c \in Targets(s) /\ c = "ai-runtime" /\ s = "runtime_hang"
    BY <1>0, <1>4
  <2>2. \A d \in Services : container'[d] = container[d] \/ d = c
    BY <1>4 DEF Pauses, Becomes, ContainersTypeOK
  <2>3. UNCHANGED <<autoRestart, delayed>>
    BY <1>4 DEF Pauses
  <2> QED BY <2>1, <2>2, <2>3 DEF BreaksOnly
<1>5. CASE (call.op = "disableRestart" /\ SetRestart(FALSE)) \/ SetRestart(TRUE)
  <2>1. UNCHANGED <<container, delayed>> /\ (autoRestart' \/ s = "worker_crash")
    BY <1>0, <1>5 DEF SetRestart
  <2> QED BY <2>1 DEF BreaksOnly
<1>6. CASE (call.op = "setDelay" /\ SetDelay(TRUE)) \/ SetDelay(FALSE)
  <2>1. UNCHANGED <<container, autoRestart>> /\ (~delayed' \/ s = "slow_inference")
    BY <1>0, <1>6 DEF SetDelay
  <2> QED BY <2>1 DEF BreaksOnly
<1>7. CASE Effect(call)
  BY <1>1, <1>2, <1>3, <1>4, <1>5, <1>6, <1>7, EffectCases
<1>8. CASE call.op = "reboot" /\ \E c \in call.on : Exits(c)
  BY <1>2, <1>8
<1> QED BY <1>1, <1>7, <1>8 DEF Remains

\* A call of Cleanup that succeeds breaks nothing.
LEMMA CleanupBreaksNothing ==
  ASSUME ContainersTypeOK, NEW s, NEW i, NEW call, WellPlaced(s, "cleanup", i, call),
         Effect(call)
  PROVE  /\ \A c \in Services : container'[c] = container[c] \/ container'[c] = "running"
         /\ autoRestart => autoRestart'
         /\ delayed' => delayed
<1>1. CASE UNCHANGED containerVars
  BY <1>1 DEF containerVars
<1>2. ASSUME NEW c \in call.on, Runs(c) \/ Reboots(c)
      PROVE  /\ \A d \in Services : container'[d] = container[d] \/ container'[d] = "running"
             /\ autoRestart => autoRestart'
             /\ delayed' => delayed
  BY <1>2 DEF Runs, Reboots, Becomes, WellPlaced, ContainersTypeOK
<1>3. CASE SetRestart(TRUE) \/ SetDelay(FALSE)
  BY <1>3 DEF SetRestart, SetDelay
<1>4. call.op \notin {"stop", "kill", "pause", "disableRestart", "setDelay"}
  BY DEF WellPlaced
<1> QED BY <1>1, <1>2, <1>3, <1>4, EffectCases

\* The mending call: it leaves no target of the scenario down, unless it
\* found it paused and took it for healthy.
LEMMA MendingCallMends ==
  ASSUME ContainersTypeOK, NEW s, NEW call,
         WellPlaced(s, "cleanup", MendingCall(s), call),
         Accepts(call), Effect(call), NEW c \in Targets(s)
  PROVE  \/ container'[c] = "running"
         \/ container'[c] = "paused" /\ container[c] = "paused" /\ call.op = "ensure"
<1>1. Mends(call) /\ call.on = {c} /\ c \in Services
  BY DEF WellPlaced
<1>2. CASE call.op = "resetDelay"
  BY <1>1, <1>2 DEF Accepts, Effect, SetDelay
<1>3. CASE call.op = "resume"
  BY <1>1, <1>3 DEF Effect, Runs, Becomes, ContainersTypeOK
<1>4. CASE call.op = "ensure"
  BY <1>1, <1>4 DEF Effect, Runs, Becomes, ContainersTypeOK, MayBeHealthy, containerVars
<1> QED BY <1>1, <1>2, <1>3, <1>4 DEF Mends

\* The first call of Cleanup resumes the ai-runtime, restores the restart
\* policy, ends the delay.
LEMMA FirstCallRestores ==
  ASSUME ContainersTypeOK, NEW s, NEW call, WellPlaced(s, "cleanup", 1, call), Effect(call)
  PROVE  /\ s = "runtime_hang" => container'["ai-runtime"] = "running"
         /\ s = "worker_crash" => autoRestart'
         /\ s = "slow_inference" => ~delayed'
<1>1. CASE s = "runtime_hang"
  <2>1. MendingCall(s) = 1 /\ "ai-runtime" \in Targets(s) /\ "ai-runtime" \in Services
    BY <1>1, TargetsOf DEF MendingCall, Services
  <2>2. call.op = "resume" /\ call.on = {"ai-runtime"}
    BY <1>1, <2>1 DEF WellPlaced
  <2> QED BY <1>1, <2>1, <2>2 DEF Effect, Runs, Becomes, ContainersTypeOK
<1>2. CASE s = "worker_crash"
  BY <1>2 DEF WellPlaced, Effect, SetRestart
<1>3. CASE s = "slow_inference"
  BY <1>3 DEF WellPlaced, Effect, SetDelay
<1> QED BY <1>1, <1>2, <1>3

----------------------------------------------------------------------------
(* The steps of the runner and what is owed.                               *)

\* What scenario s owed is still owed: its mending calls are ahead of it, or
\* its Cleanup has gone wrong.
StillOwed(s, n) == Before(s, n)' \/ s \in spoilt'

\* The mending call is the first or the second.
LEMMA MendingCallRange ==
  ASSUME NEW s \in Scenarios
  PROVE  /\ MendingCall(s) \in Nat /\ 1 <= MendingCall(s)
         /\ MendingCall(s) <= Len(Programs[s]["cleanup"])
<1>1. MendingCall(s) \in DOMAIN Programs[s]["cleanup"]
  BY ProgramLengths DEF Stages
<1>2. /\ Len(Programs[s]["cleanup"]) \in Nat
      /\ DOMAIN Programs[s]["cleanup"] = 1..Len(Programs[s]["cleanup"])
  BY ProgramLengths DEF Stages
<1>3. MendingCall(s) \in 1..Len(Programs[s]["cleanup"])
  BY <1>1, <1>2
<1> QED BY <1>2, <1>3

\* The three scenarios whose first call of Cleanup matters by itself.
LEMMA FirstCalls ==
  /\ "runtime_hang" \in Scenarios /\ "worker_crash" \in Scenarios
  /\ "slow_inference" \in Scenarios
BY ScenarioNames

\* A step that breaks nothing, or only what the current scenario breaks when
\* that is still owed, keeps the books.
LEMMA BooksKept ==
  ASSUME ChaosTypeOK, ContainersInv, spoilt \subseteq spoilt',
         \A s \in Scenarios, n \in Nat \ {0} :
           Before(s, n) /\ n <= MendingCall(s) => StillOwed(s, n),
         \/ UNCHANGED containerVars
         \/ \E s \in Scenarios :
              /\ BreaksOnly(s)
              /\ \A n \in Nat \ {0} : n <= MendingCall(s) => StillOwed(s, n)
  PROVE  ContainersInv'
<1> USE MendingCallRange, FirstCalls DEF ContainersInv
<1>1. CASE UNCHANGED containerVars
  <2>1. DownIsOwed'
    BY <1>1 DEF DownIsOwed, containerVars, StillOwed, Spoils
  <2>2. PausedIsOwed'
    BY <1>1 DEF PausedIsOwed, containerVars, StillOwed
  <2>3. RestartIsOwed'
    BY <1>1 DEF RestartIsOwed, containerVars, StillOwed
  <2>4. DelayIsOwed'
    BY <1>1 DEF DelayIsOwed, containerVars, StillOwed
  <2> QED BY <2>1, <2>2, <2>3, <2>4
<1>2. ASSUME NEW s \in Scenarios, BreaksOnly(s),
             \A n \in Nat \ {0} : n <= MendingCall(s) => StillOwed(s, n)
      PROVE  ContainersInv'
  <2>1. DownIsOwed'
    BY <1>2 DEF DownIsOwed, BreaksOnly, StillOwed, Spoils
  <2>2. PausedIsOwed'
    BY <1>2 DEF PausedIsOwed, BreaksOnly, StillOwed
  <2>3. RestartIsOwed'
    BY <1>2 DEF RestartIsOwed, BreaksOnly, StillOwed
  <2>4. DelayIsOwed'
    BY <1>2 DEF DelayIsOwed, BreaksOnly, StillOwed
  <2> QED BY <2>1, <2>2, <2>3, <2>4
<1> QED BY <1>1, <1>2

\* A call that succeeds keeps the books.
LEMMA SucceedingCallKeepsBooks ==
  ASSUME ChaosTypeOK, ContainersInv, CallSucceeds
  PROVE  ContainersInv'
<1> DEFINE s == Head(todo)
<1>1. /\ s \in Scenarios /\ phase = "scenario" /\ phase' = "scenario"
      /\ todo' = todo /\ stage' = stage /\ step' = step + 1 /\ spoilt' = spoilt
      /\ step \in Nat \ {0}
  BY ThisCallWellPlaced DEF CallSucceeds, InStage, resultVars, ChaosTypeOK
<1>2. /\ WellPlaced(s, stage, step, ThisCall) /\ ContainersTypeOK /\ stage \in Stages
      /\ Accepts(ThisCall) /\ Effect(ThisCall)
  BY ThisCallWellPlaced DEF CallSucceeds, ChaosTypeOK
<1>3. CASE stage # "cleanup"
  <2>1. BreaksOnly(s)
    BY <1>2, CallBreaksOnly
  <2>2. \A n \in Nat \ {0} : StillOwed(s, n)
    BY <1>1, <1>3 DEF StillOwed, Before
  <2>3. \A r \in Scenarios, n \in Nat \ {0} : Before(r, n) => StillOwed(r, n)
    BY <1>1, <1>3 DEF StillOwed, Before
  <2> QED BY <1>1, <2>1, <2>2, <2>3, BooksKept
<1>4. CASE stage = "cleanup"
  <2>1. /\ \A c \in Services : container'[c] = container[c] \/ container'[c] = "running"
        /\ autoRestart => autoRestart'
        /\ delayed' => delayed
    BY <1>2, <1>4, CleanupBreaksNothing
  <2>2. ASSUME NEW r \in Scenarios, NEW n \in Nat \ {0}, Before(r, n)
        PROVE  r = s /\ (Before(r, n)' \/ step = n)
    BY <1>1, <1>4, <2>2 DEF Before
  <2>3. step = 1 =>
          /\ s = "runtime_hang" => container'["ai-runtime"] = "running"
          /\ s = "worker_crash" => autoRestart'
          /\ s = "slow_inference" => ~delayed'
    BY <1>2, <1>4, FirstCallRestores
  <2>4. PausedIsOwed'
    <3> SUFFICES ASSUME NEW c \in Services, container'[c] = "paused"
                 PROVE  c = "ai-runtime" /\ ("runtime_hang" \in spoilt' \/ Before("runtime_hang", 1)')
      BY DEF PausedIsOwed
    <3>1. c = "ai-runtime" /\ ("runtime_hang" \in spoilt \/ Before("runtime_hang", 1))
      BY <2>1 DEF ContainersInv, PausedIsOwed
    <3>2. CASE Before("runtime_hang", 1)
      BY <2>2, <2>3, <3>1, <3>2, FirstCalls
    <3> QED BY <1>1, <3>1, <3>2
  <2>5. RestartIsOwed'
    <3>1. autoRestart \/ "worker_crash" \in spoilt \/ Before("worker_crash", 1)
      BY DEF ContainersInv, RestartIsOwed
    <3>2. CASE Before("worker_crash", 1)
      BY <2>2, <2>3, <3>2, FirstCalls DEF RestartIsOwed
    <3> QED BY <1>1, <2>1, <3>1, <3>2 DEF RestartIsOwed
  <2>6. DelayIsOwed'
    <3>1. ~delayed \/ "slow_inference" \in spoilt \/ Before("slow_inference", 1)
      BY DEF ContainersInv, DelayIsOwed
    <3>2. CASE Before("slow_inference", 1)
      BY <2>2, <2>3, <3>2, FirstCalls DEF DelayIsOwed
    <3> QED BY <1>1, <2>1, <3>1, <3>2 DEF DelayIsOwed
  <2>7. DownIsOwed'
    <3> SUFFICES ASSUME NEW c \in Services, container'[c] # "running"
                 PROVE  \/ Spoils(c)'
                        \/ \E r \in Scenarios : c \in Targets(r) /\ Before(r, MendingCall(r))'
      BY DEF DownIsOwed
    <3>1. container[c] # "running" /\ container'[c] = container[c]
      BY <2>1
    <3>2. CASE Spoils(c)
      BY <1>1, <3>2 DEF Spoils
    <3>3. ASSUME NEW r \in Scenarios, c \in Targets(r), Before(r, MendingCall(r)),
                 ~Before(r, MendingCall(r))'
          PROVE  Spoils(c)'
      <4>1. r = s /\ step = MendingCall(s)
        BY <2>2, <3>3, MendingCallRange
      <4>2. container'[c] = "paused" /\ ThisCall.op = "ensure"
        BY <1>2, <1>4, <3>1, <3>3, <4>1, MendingCallMends
      <4>3. c = "ai-runtime" /\ ("runtime_hang" \in spoilt' \/ Before("runtime_hang", 1)')
        BY <2>4, <4>2 DEF PausedIsOwed
      <4>4. ~Before("runtime_hang", 1)'
        <5> SUFFICES ASSUME Before("runtime_hang", 1)' PROVE FALSE
          OBVIOUS
        <5>1. s = "runtime_hang" /\ step + 1 <= 1
          BY <1>1, <1>4 DEF Before
        <5> QED BY <1>1, <5>1
      <4>5. "runtime_hang" \in spoilt' /\ c \in Targets("runtime_hang")
        BY <4>3, <4>4, TargetsOf
      <4> QED BY <4>5 DEF Spoils
    <3> QED BY <3>1, <3>2, <3>3 DEF ContainersInv, DownIsOwed
  <2> QED BY <2>4, <2>5, <2>6, <2>7 DEF ContainersInv
<1> QED BY <1>2, <1>3, <1>4

\* A call that fails keeps the books: in Cleanup its scenario is marked, in
\* any other stage Cleanup is still to come.
LEMMA FailingCallKeepsBooks ==
  ASSUME ChaosTypeOK, ContainersInv, CallFails
  PROVE  ContainersInv'
<1> DEFINE s == Head(todo)
<1>1. /\ s \in Scenarios /\ phase = "scenario" /\ phase' = "scenario" /\ todo' = todo
      /\ stage \in Stages /\ WellPlaced(s, stage, step, ThisCall) /\ ContainersTypeOK
  BY ThisCallWellPlaced DEF CallFails, InStage, ChaosTypeOK
<1>2. HandleError(ThisCall)
  BY DEF CallFails
<1>3. spoilt \subseteq spoilt'
  BY <1>2 DEF HandleError
<1>4. ASSUME NEW r \in Scenarios, r = s, NEW n \in Nat \ {0}
      PROVE  StillOwed(r, n)
  <2>1. CASE stage = "cleanup"
    BY <1>2, <1>4, <2>1 DEF HandleError, StillOwed
  <2>2. CASE stage # "cleanup"
    <3>1. (stage' = stage) \/ (stage' = "cleanup" /\ step' = 1)
      BY <1>2, <2>2 DEF HandleError
    <3> QED BY <1>1, <1>4, <2>2, <3>1 DEF StillOwed, Before
  <2> QED BY <2>1, <2>2
<1>5. \A r \in Scenarios, n \in Nat \ {0} : Before(r, n) => StillOwed(r, n)
  BY <1>4 DEF Before
<1>6. UNCHANGED containerVars \/ BreaksOnly(s)
  BY <1>1, CallBreaksOnly DEF CallFails
<1> QED BY <1>1, <1>3, <1>4, <1>5, <1>6, BooksKept

\* Every step keeps the books.
LEMMA ContainersStep ==
  ASSUME ChaosTypeOK, ContainersInv, [Next]_chaosVars
  PROVE  ContainersInv'
<1>1. ASSUME UNCHANGED <<containerVars, spoilt>>,
             \A s \in Scenarios, n \in Nat \ {0} :
               Before(s, n) /\ n <= MendingCall(s) => Before(s, n)'
      PROVE  ContainersInv'
  BY <1>1, BooksKept DEF StillOwed
<1>2. CASE Launch \/ SetRunning \/ NoScenarios \/ NextScenario \/ SetCompleted
  BY <1>1, <1>2 DEF Launch, SetRunning, NoScenarios, NextScenario, SetCompleted, Before, resultVars
<1>3. CASE StageDone
  <2>1. phase' = "scenario" /\ todo' = todo /\ stage # "cleanup" /\ step' = 1
    BY <1>3 DEF StageDone
  <2>2. UNCHANGED <<containerVars, spoilt>>
    BY <1>3 DEF StageDone
  <2> QED BY <1>1, <2>1, <2>2 DEF Before
<1>4. CASE ScenarioDone
  <2>1. /\ phase = "scenario" /\ stage = "cleanup" /\ Head(todo) \in Scenarios
        /\ step = Len(Programs[Head(todo)]["cleanup"]) + 1
        /\ Len(Programs[Head(todo)]["cleanup"]) \in Nat
    BY <1>4, ProgramLengths DEF ScenarioDone, Program, ChaosTypeOK, Stages
  <2>2. ASSUME NEW s \in Scenarios, NEW n \in Nat \ {0}, Before(s, n), n <= MendingCall(s)
        PROVE  FALSE
    BY <2>1, <2>2, MendingCallRange DEF Before
  <2>3. UNCHANGED <<containerVars, spoilt>>
    BY <1>4 DEF ScenarioDone
  <2> QED BY <1>1, <2>2, <2>3
<1>5. CASE DeadlinePasses \/ Interrupt
  BY <1>1, <1>5 DEF DeadlinePasses, Interrupt, Ends, placeVars, resultVars, Before
<1>6. CASE RunnerCrash
  <2>1. \A s \in Scenarios, n \in Nat \ {0} : Before(s, n) => s \in spoilt'
    BY <1>6 DEF RunnerCrash, Before
  <2>2. spoilt \subseteq spoilt' /\ UNCHANGED containerVars
    BY <1>6 DEF RunnerCrash
  <2> QED BY <2>1, <2>2, BooksKept DEF StillOwed
<1>7. CASE UNCHANGED chaosVars
  BY <1>1, <1>7 DEF chaosVars, placeVars, resultVars, Before
<1> QED BY <1>2, <1>3, <1>4, <1>5, <1>6, <1>7, SucceedingCallKeepsBooks, FailingCallKeepsBooks
        DEF Next, RunnerStep

\* Between scenarios nothing but a spoilt Cleanup is owed.
LEMMA OwedNothing ==
  ASSUME ContainersInv
  PROVE  CleanupRestores
BY DEF ContainersInv, DownIsOwed, RestartIsOwed, DelayIsOwed, Before, Spoils, CleanupRestores

----------------------------------------------------------------------------
(* The rows of the runs.                                                   *)

\* What disturbs the runner is not forgotten.
LEMMA DisturbedForGood ==
  ASSUME ChaosTypeOK, [Next]_chaosVars, Undisturbed'
  PROVE  Undisturbed
<1>1. faults \in Nat /\ faults' \in Nat /\ crashes \in Nat /\ crashes' \in Nat
  BY TypeStep, FaultAssumption DEF ChaosTypeOK, FaultTypeOK
<1>2. expiries["interrupt"] \in Nat /\ "interrupt" \in DOMAIN MaxExpiries
  BY ChaosAssumption DEF ChaosTypeOK
<1>3. faults <= faults' /\ crashes <= crashes'
  BY <1>1 DEF Next, RunnerStep, Launch, SetRunning, UpdateRow, NoScenarios, NextScenario, SetCompleted,
     CallSucceeds, CallFails, StageDone, ScenarioDone, DeadlinePasses, Interrupt, Ends, RunnerCrash,
     Fault, CrashHappens, faultVars, chaosVars
<1>4. spoilt \subseteq spoilt'
  BY DEF Next, RunnerStep, Launch, SetRunning, NoScenarios, NextScenario, SetCompleted,
     CallSucceeds, CallFails, HandleError, StageDone, ScenarioDone, DeadlinePasses, Interrupt, Ends,
     RunnerCrash, resultVars, chaosVars
<1>5. expiries'["interrupt"] = 0 => expiries["interrupt"] = 0
  <2>1. ASSUME NEW c, Ends(c)
        PROVE  expiries'["interrupt"] = 0 => expiries["interrupt"] = 0
    BY <1>2, <2>1 DEF Ends, ChaosTypeOK
  <2>2. CASE UNCHANGED expiries
    BY <2>2
  <2>3. (\E c : Ends(c)) \/ UNCHANGED expiries
    BY DEF Next, RunnerStep, Launch, SetRunning, NoScenarios, NextScenario, SetCompleted, Exit,
       CallSucceeds, CallFails, StageDone, ScenarioDone, DeadlinePasses, Interrupt,
       RunnerCrash, ctxVars, chaosVars
  <2> QED BY <2>1, <2>2, <2>3
<1> QED BY <1>1, <1>3, <1>4, <1>5 DEF Undisturbed

\* An interrupt that has not been counted has not happened.
LEMMA InterruptStep ==
  ASSUME ChaosTypeOK, "interrupt" \in ended => expiries["interrupt"] > 0, [Next]_chaosVars
  PROVE  "interrupt" \in ended' => expiries'["interrupt"] > 0
<1>1. expiries["interrupt"] \in Nat /\ "interrupt" \in DOMAIN MaxExpiries
  BY ChaosAssumption DEF ChaosTypeOK
<1>2. ASSUME NEW c, Ends(c)
      PROVE  "interrupt" \in ended' => expiries'["interrupt"] > 0
  BY <1>1, <1>2 DEF Ends, ChaosTypeOK
<1>3. (\E c : Ends(c)) \/ (UNCHANGED expiries /\ ended' \subseteq ended)
  BY DEF Next, RunnerStep, Launch, SetRunning, NoScenarios, NextScenario, SetCompleted, Exit,
     CallSucceeds, CallFails, StageDone, ScenarioDone, DeadlinePasses, Interrupt,
     RunnerCrash, ctxVars, chaosVars
<1> QED BY <1>2, <1>3

\* While nothing disturbs the runner, PostgreSQL is up whenever no scenario
\* is under way.
LEMMA DatabaseUpBetween ==
  ASSUME ChaosTypeOK, ContainersInv, Undisturbed, phase # "scenario"
  PROVE  DatabaseUp
<1> SUFFICES ASSUME container["postgres"] # "running" PROVE FALSE
  BY DEF DatabaseUp
<1>1. "postgres" \in Services /\ \A s \in Scenarios : "postgres" \in Targets(s) => s = "postgres_failure"
  BY TargetsOf, ScenarioNames DEF Services
<1>2. Spoils("postgres")
  BY <1>1 DEF ContainersInv, DownIsOwed, Before
<1> QED BY <1>1, <1>2 DEF Spoils, Undisturbed, ChaosTypeOK

\* A step of the runner leaves no row behind that says 'running'.
LEMMA RowsStep ==
  ASSUME ChaosTypeOK, ContainersInv, RowsInv, [Next]_chaosVars
  PROVE  RowsInv'
<1> DEFINE Working == phase \in {"pick", "scenario", "finish"}
<1>1. "interrupt" \in ended' => expiries'["interrupt"] > 0
  BY InterruptStep DEF RowsInv
<1> SUFFICES ASSUME Undisturbed', NEW r \in RunIds, status'[r] = "running"
             PROVE  r = run' /\ Working'
  BY <1>1 DEF RowsInv
<1>2. Undisturbed /\ (status[r] = "running" => r = run /\ Working)
  BY DisturbedForGood DEF RowsInv
<1>3. CASE UNCHANGED <<status, run>> /\ (Working => Working')
  BY <1>2, <1>3
<1>4. CASE Launch
  BY <1>2, <1>4 DEF Launch, ChaosTypeOK
<1>5. CASE SetRunning
  <2>1. Working' /\ run' = run /\ ~Working
    BY <1>5 DEF SetRunning
  <2>2. Row("running") \/ UNCHANGED status
    BY <1>5 DEF SetRunning, UpdateRow
  <2> QED BY <1>2, <2>1, <2>2 DEF Row, ChaosTypeOK
<1>6. CASE NoScenarios
  BY <1>2, <1>6 DEF NoScenarios, runVars
<1>7. CASE SetCompleted
  <2>1. DatabaseUp
    BY <1>2, <1>7, DatabaseUpBetween DEF SetCompleted
  <2>2. "interrupt" \notin ended
    BY <1>2 DEF RowsInv, Undisturbed
  <2>3. faults = 0 /\ faults' = 0
    BY <1>2 DEF Undisturbed
  <2>4. Row("failed") \/ Row("completed")
    BY <1>7, <2>1, <2>2, <2>3 DEF SetCompleted, UpdateRow, Fault
  <2> QED BY <1>2, <1>7, <2>4 DEF Row, SetCompleted, ChaosTypeOK
<1>8. CASE NextScenario \/ CallSucceeds \/ CallFails \/ StageDone \/ ScenarioDone
  BY <1>3, <1>8 DEF NextScenario, CallSucceeds, CallFails, StageDone, ScenarioDone, InStage, runVars
<1>9. CASE DeadlinePasses \/ Interrupt
  BY <1>3, <1>9 DEF DeadlinePasses, Interrupt, Ends, runVars, placeVars
<1>10. CASE RunnerCrash
  BY <1>10, FaultAssumption DEF RunnerCrash, CrashHappens, Undisturbed, ChaosTypeOK, FaultTypeOK
<1>11. CASE UNCHANGED chaosVars
  BY <1>3, <1>11 DEF chaosVars, runVars, placeVars
<1> QED BY <1>4, <1>5, <1>6, <1>7, <1>8, <1>9, <1>10, <1>11 DEF Next, RunnerStep

\* The conjunction that the runs of TLC check as it stands is inductive.
LEMMA Inductive == Spec => []ChaosInv
<1>1. Init => ContainersInv
  BY DEF Init, ContainersInit, ContainersInv, DownIsOwed, PausedIsOwed, RestartIsOwed, DelayIsOwed
<1>2. Init => RowsInv
  BY DEF Init, RowsInv
<1>3. ChaosInv /\ [Next]_chaosVars => ChaosInv'
  BY TypeStep, ContainersStep, RowsStep DEF ChaosInv
<1> QED BY <1>1, <1>2, <1>3, TypeInit, PTL DEF Spec, ChaosInv

\* A scenario leaves nothing broken behind, unless its own Cleanup was cut
\* short or met an error: whatever fails in Setup, Inject, Observe and
\* Validate, and whatever earlier scenarios and runs have left.
THEOREM Restored == Spec => []CleanupRestores
<1>1. ChaosInv => CleanupRestores
  BY OwedNothing DEF ChaosInv
<1> QED BY <1>1, Inductive, PTL

\* No healing event is kept from the dashboard when no runner is at work,
\* as long as no call of the runner reported an error, no signal or crash
\* ended it and no Cleanup left PostgreSQL stopped: deadlines alone, however
\* many pass, leave no row 'running'.
THEOREM SilenceEnds == Spec => []SilentOnlyDuringRuns
<1>1. ChaosInv => SilentOnlyDuringRuns
  BY DEF ChaosInv, RowsInv, SilentOnlyDuringRuns, IsChaosRunActive
<1> QED BY <1>1, Inductive, PTL
==========================================================================
