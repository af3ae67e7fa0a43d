SPECIFICATION FairSpec
CONSTANTS
  Names = {"crash"}
  Triggers = {"crash"}
  Pages = {p1}
  Calls = {c1, c2}
  NoRun = NoRun
  NoPage = NoPage
  Hour = 1
  RunLimit = 1
  MaxTime = 2
  MaxClicks = 1
  MaxRuns = 1
  MaxFaults = 0
  MaxCrashes = 0
CHECK_DEADLOCK FALSE
PROPERTY ResultAppears
