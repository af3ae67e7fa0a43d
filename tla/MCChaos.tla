------------------------------ MODULE MCChaos ------------------------------
(***************************************************************************)
(* What TLC needs besides ChaosRunner: the suites and the bounds of a run. *)
(***************************************************************************)
EXTENDS ChaosRunner

\* The order of main.go.
All == <<"queue_flood", "postgres_failure", "worker_crash", "runtime_hang",
         "ai_failure", "slow_inference">>

\* "all", and one scenario by name; the empty suite is an unknown name.
AllSuites == {All, <<>>} \cup {<<s>> : s \in Scenarios}

\* The waits of every scenario can add up to more than its deadline, if only
\* with those of its cleanup: 180 s of submits, 120 s and 30 s against the 240 s
\* of queue-flood; 255 s against 180 s in postgres-failure, 268 s against 180 s
\* in worker-crash, over 15 and 10 minutes in ai-failure and slow-inference.
AllSlow == Scenarios

\* For the run about runtime-hang alone, whose setup (60 s for the queue), inject
\* (90 s for the task) and observe (360 s for the event) outlast its eight
\* minutes while the AI runtime is paused.
Hangs == {"runtime_hang"}

NoExpiries == [c \in {"scenario", "global", "interrupt"} |-> 0]
AllExpiries == [c \in {"scenario", "global", "interrupt"} |-> 1]
OneDeadline == [NoExpiries EXCEPT !["scenario"] = 1]
===========================================================================
