SPECIFICATION FairLocalSpec
CONSTANTS
  Tasks = {t1, t2, t3}
  NoTask = NoTask
  Capacity = 1
  Addrs = {a1}
  Burst = 1
  IdleLimit = 1
  From = 1
  MaxTime = 3
  Unanswered = Unanswered
  MaxFaults = 1
  MaxCrashes = 1
CHECK_DEADLOCK FALSE
INVARIANTS LocalTypeOK RefusedNeverRuns RunsOnce WithinBudget AcceptedIsTracked
PROPERTIES AcceptedIsFinished ImplementsBucket
