SPECIFICATION FairSpec
CONSTANTS
  Suites <- AllSuites
  SlowScenarios <- AllSlow
  MaxRuns = 2
  MaxExpiries <- AllExpiries
  MaxFaults = 1
  MaxCrashes = 1
INVARIANTS ChaosTypeOK CleanupRestores SilentOnlyDuringRuns
PROPERTY RunEnds
CHECK_DEADLOCK FALSE
