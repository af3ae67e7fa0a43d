---------------------------- MODULE ChaosRunner ---------------------------
(***************************************************************************)
(* The chaos runner (cmd/chaos/main.go, runner.go, chaos_run.go): a        *)
(* process that registers a run in chaos_runs, takes its scenarios through *)
(* their stages and records the result.  A scenario has a deadline, the    *)
(* suite has one, and SIGINT cancels everything; Cleanup is always called, *)
(* with the context that may have ended.  While a row is 'running' the API *)
(* broadcasts no healing events (services/api/internal/http/events.go).    *)
(*                                                                         *)
(* The process is run again and again, one at a time, on the containers as *)
(* the last one left them.  Deadlines end only while something waits.      *)
(***************************************************************************)
EXTENDS ChaosScenarios, Faults

CONSTANTS
  Suites,            \* the sequences of scenarios a run may be given
  SlowScenarios,     \* the scenarios that may outlast their deadline
  MaxRuns,           \* bound on the runs
  MaxExpiries        \* bound on deadlines and interrupts, each kind by itself

ASSUME ChaosAssumption ==
  /\ Suites \subseteq Seq(Scenarios)
  /\ SlowScenarios \subseteq Scenarios
  /\ MaxRuns \in Nat
  /\ MaxExpiries \in [{"scenario", "global", "interrupt"} -> Nat]

Stages == {"setup", "inject", "observe", "validate", "cleanup"}

VARIABLES
  status,      \* status[r]: the status column of run r in chaos_runs
  run,         \* the latest run
  phase,       \* where Runner.Run is
  todo,        \* scenarios left, the current one first
  stage, step, \* the current call
  ended,       \* the contexts that are done: "scenario", "global", "interrupt"
  expiries,    \* how often each has ended
  failed,      \* this scenario's status is FAIL
  anyFailed,   \* Summary.Failed > 0
  spoilt       \* history: scenarios whose Cleanup was cut short, left out, or
               \* had a failed call

runVars == <<status, run>>
placeVars == <<phase, todo, stage, step>>
ctxVars == <<ended, expiries>>
resultVars == <<failed, anyFailed, spoilt>>
chaosVars == <<containerVars, runVars, placeVars, ctxVars, resultVars, faultVars>>

RunIds == 1..MaxRuns

ChaosTypeOK ==
  /\ ContainersTypeOK /\ FaultTypeOK
  /\ status \in [RunIds -> {"none", "queued", "running", "completed", "failed"}]
  /\ run \in 0..MaxRuns
  /\ phase \in {"none", "queued", "pick", "scenario", "finish"}
  /\ todo \in Seq(Scenarios)
  /\ stage \in Stages
  /\ step \in Nat \ {0}
  /\ phase = "scenario" => todo # <<>> /\ step <= Len(Programs[Head(todo)][stage]) + 1
  /\ ended \subseteq DOMAIN MaxExpiries
  /\ expiries \in [DOMAIN MaxExpiries -> Nat]
  /\ {failed, anyFailed} \subseteq BOOLEAN
  /\ spoilt \subseteq Scenarios

Init ==
  /\ ContainersInit /\ FaultInit
  /\ status = [r \in RunIds |-> "none"] /\ run = 0
  /\ phase = "none" /\ todo = <<>> /\ stage = "setup" /\ step = 1
  /\ ended = {} /\ expiries = [c \in DOMAIN MaxExpiries |-> 0]
  /\ failed = FALSE /\ anyFailed = FALSE /\ spoilt = {}

----------------------------------------------------------------------------
(* The run and its row.                                                    *)

DatabaseUp == container["postgres"] = "running"

Row(s) == status' = [status EXCEPT ![run] = s]

\* A statement on the row with context ctx: it succeeds, or is not sent, or
\* reports an error that leaves open what it did.
UpdateRow(s, ctx) ==
  LET sent == DatabaseUp /\ ended \cap ctx = {}
  IN  \/ sent /\ Row(s) /\ UNCHANGED faultVars
      \/ ~sent /\ UNCHANGED <<status, faultVars>>
      \/ sent /\ Fault /\ (Row(s) \/ UNCHANGED status)

Exit == phase' = "none" /\ ended' = {} /\ UNCHANGED expiries

\* main: the preflight finds every container healthy (the ai-runtime too, as
\* the Makefile always gives a token); Insert.
Launch ==
  /\ phase = "none" /\ run < MaxRuns
  /\ \A c \in Services : MayBeHealthy(c)
  /\ DatabaseUp
  /\ todo' \in Suites
  /\ run' = run + 1
  /\ status' = [status EXCEPT ![run'] = "queued"]
  /\ phase' = "queued"
  /\ anyFailed' = FALSE
  /\ UNCHANGED <<containerVars, stage, step, ctxVars, failed, spoilt, faultVars>>

\* Run: SetRunning, whose error is only logged ...
SetRunning ==
  /\ phase = "queued" /\ todo # <<>>
  /\ UpdateRow("running", {"interrupt"})
  /\ phase' = "pick"
  /\ UNCHANGED <<containerVars, run, todo, stage, step, ctxVars, resultVars>>

\* ... or no scenario has the name that was asked for.
NoScenarios ==
  /\ phase = "queued" /\ todo = <<>>
  /\ Exit
  /\ UNCHANGED <<containerVars, runVars, todo, stage, step, resultVars, faultVars>>

\* The loop of Run: the next scenario, unless globalCtx is done.
NextScenario ==
  /\ phase = "pick"
  /\ IF todo # <<>> /\ ended = {}
       THEN phase' = "scenario" /\ stage' = "setup" /\ step' = 1 /\ failed' = FALSE
       ELSE phase' = "finish" /\ UNCHANGED <<stage, step, failed>>
  /\ UNCHANGED <<containerVars, runVars, todo, ctxVars, anyFailed, spoilt, faultVars>>

\* Mutant of SetCompleted: it is given the context of the suite.
SetCompletedInTime ==
  /\ phase = "finish"
  /\ UpdateRow(IF anyFailed THEN "failed" ELSE "completed", {"global", "interrupt"})
  /\ Exit
  /\ UNCHANGED <<containerVars, run, todo, stage, step, resultVars>>

\* SetCompleted, whose error is only logged; the process ends.
SetCompleted ==
  /\ phase = "finish"
  /\ UpdateRow(IF anyFailed THEN "failed" ELSE "completed", {"interrupt"})
  /\ Exit
  /\ UNCHANGED <<containerVars, run, todo, stage, step, resultVars>>

----------------------------------------------------------------------------
(* runScenario.                                                            *)

Program == Programs[Head(todo)][stage]
InStage == phase = "scenario" /\ step <= Len(Program)
ThisCall == Program[step]

\* The stages in order; an aborted one is followed by Cleanup.
After(s) ==
  CASE s = "setup" -> "inject" [] s = "inject" -> "observe"
    [] s = "observe" -> "validate" [] s = "validate" -> "cleanup"

CutOff(call) == UsesContext(call) /\ ended # {}

CallSucceeds ==
  /\ InStage
  /\ ~CutOff(ThisCall) /\ Accepts(ThisCall) /\ Effect(ThisCall)
  /\ step' = step + 1
  /\ UNCHANGED <<runVars, phase, todo, stage, ctxVars, resultVars, faultVars>>

\* An error that is logged, or one that ends the stage: Setup, Inject and
\* Observe then count as failed, Validate has a failed SLO.
HandleError(call) ==
  /\ \/ /\ call.err \in {"warn", "any"}
        /\ step' = step + 1
        /\ UNCHANGED <<stage, failed>>
     \/ /\ call.err \in {"abort", "any"}
        /\ IF stage = "cleanup"
             THEN step' = Len(Program) + 1 /\ UNCHANGED <<stage, failed>>
             ELSE step' = 1 /\ stage' = "cleanup" /\ failed' = TRUE
  /\ spoilt' = IF stage = "cleanup" THEN spoilt \cup {Head(todo)} ELSE spoilt

\* The context has ended, the container is in the wrong state, the system is
\* not as it should be, or something fails for no reason of its own.
CallFails ==
  /\ InStage
  /\ \/ /\ CutOff(ThisCall) \/ ~Accepts(ThisCall) \/ MayDisappoint(ThisCall)
        /\ UNCHANGED <<containerVars, faultVars>>
     \/ ~CutOff(ThisCall) /\ Remains(ThisCall) /\ Fault
  /\ HandleError(ThisCall)
  /\ UNCHANGED <<runVars, phase, todo, anyFailed, ctxVars>>

\* Mutant of StageDone: the next stage goes on at the same step.
StageDoneKeepsStep ==
  /\ phase = "scenario" /\ stage # "cleanup" /\ step = Len(Program) + 1
  /\ stage' = After(stage)
  /\ failed' \in IF stage = "validate" THEN BOOLEAN ELSE {failed}
  /\ UNCHANGED <<containerVars, runVars, phase, todo, step, ctxVars, anyFailed, spoilt, faultVars>>

\* The end of a stage; the SLOs of Validate may fail.
StageDone ==
  /\ phase = "scenario" /\ stage # "cleanup" /\ step = Len(Program) + 1
  /\ stage' = After(stage) /\ step' = 1
  /\ failed' \in IF stage = "validate" THEN BOOLEAN ELSE {failed}
  /\ UNCHANGED <<containerVars, runVars, phase, todo, ctxVars, anyFailed, spoilt, faultVars>>

\* Mutant of ScenarioDone: the suite starts over.
ScenarioAgain ==
  /\ phase = "scenario" /\ stage = "cleanup" /\ step = Len(Program) + 1
  /\ phase' = "pick"
  /\ ended' = ended \ {"scenario"}
  /\ anyFailed' = (anyFailed \/ failed)
  /\ UNCHANGED <<containerVars, runVars, todo, stage, step, expiries, failed, spoilt, faultVars>>

\* The end of Cleanup and of the scenario's context; its report is added.
ScenarioDone ==
  /\ phase = "scenario" /\ stage = "cleanup" /\ step = Len(Program) + 1
  /\ phase' = "pick"
  /\ todo' = Tail(todo)
  /\ ended' = ended \ {"scenario"}
  /\ anyFailed' = (anyFailed \/ failed)
  /\ UNCHANGED <<containerVars, runVars, stage, step, expiries, failed, spoilt, faultVars>>

----------------------------------------------------------------------------
(* Deadlines, signals and crashes.                                         *)

Ends(c) ==
  /\ c \notin ended /\ expiries[c] < MaxExpiries[c]
  /\ expiries' = [expiries EXCEPT ![c] = @ + 1]
  /\ ended' = ended \cup {c}
  /\ UNCHANGED <<containerVars, runVars, placeVars, resultVars, faultVars>>

\* The deadline of the scenario or of the suite.
DeadlinePasses ==
  /\ InStage /\ Waits(ThisCall)
  /\ \/ Head(todo) \in SlowScenarios /\ Ends("scenario")
     \/ Ends("global")

\* SIGINT or SIGTERM.
Interrupt == phase # "none" /\ Ends("interrupt")

\* SIGKILL.
RunnerCrash ==
  /\ phase # "none"
  /\ CrashHappens
  /\ Exit
  /\ spoilt' = IF phase = "scenario" THEN spoilt \cup {Head(todo)} ELSE spoilt
  /\ UNCHANGED <<containerVars, runVars, todo, stage, step, failed, anyFailed>>

----------------------------------------------------------------------------
RunnerStep ==
  \/ SetRunning \/ NoScenarios \/ NextScenario \/ SetCompleted
  \/ CallSucceeds \/ CallFails \/ StageDone \/ ScenarioDone

Next == Launch \/ RunnerStep \/ DeadlinePasses \/ Interrupt \/ RunnerCrash

Spec == Init /\ [][Next]_chaosVars

\* Every call the runner makes has a timeout of its own or a deadline.
FairSpec == Spec /\ WF_chaosVars(RunnerStep)

----------------------------------------------------------------------------
\* The containers that the calls of s may leave stopped or paused.
Targets(s) ==
  UNION {Programs[s]["inject"][i].on : i \in DOMAIN Programs[s]["inject"]}

\* Whatever failed in its stages, a scenario leaves nothing broken when the
\* next one starts and when the suite is over, unless its own Cleanup was cut
\* short or met an error: a container that is down, the worker's restart
\* policy, the delay of the ai-runtime.
CleanupRestores ==
  phase # "scenario" =>
    /\ \A c \in Services :
         container[c] # "running" => \E s \in spoilt : c \in Targets(s)
    /\ autoRestart \/ "worker_crash" \in spoilt
    /\ ~delayed \/ "slow_inference" \in spoilt

\* "ensure the next scenario starts from a deterministic baseline"
DeterministicBaseline ==
  phase = "scenario" /\ stage = "setup" /\ step = 1 => Intact

\* IsChaosRunActive: EventsHandler broadcasts no healing event.
IsChaosRunActive == DatabaseUp /\ \E r \in RunIds : status[r] = "running"

\* Nothing kept the runner from its own end: no failed call, no signal, no
\* crash, and postgres was started again by the scenario that stopped it.
Undisturbed ==
  /\ faults = 0 /\ crashes = 0 /\ expiries["interrupt"] = 0
  /\ "postgres_failure" \notin spoilt

\* "skipping SSE broadcast for healing event during chaos run": no healing
\* event is kept from the dashboard when no chaos runner is at work, whatever
\* deadlines passed.
SilentOnlyDuringRuns == Undisturbed /\ IsChaosRunActive => phase # "none"

\* A run that has started is recorded as completed or failed.
RunEnds ==
  []Undisturbed =>
    \A r \in RunIds :
      status[r] = "running" ~> status[r] \in {"completed", "failed"}
==========================================================================
