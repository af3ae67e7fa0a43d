SPECIFICATION Spec
CONSTANTS
  Suites <- AllSuites
  SlowScenarios <- Hangs
  MaxRuns = 1
  MaxExpiries <- OneDeadline
  MaxFaults = 0
  MaxCrashes = 0
INVARIANT DeterministicBaseline
CHECK_DEADLOCK FALSE
