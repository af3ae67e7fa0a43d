SPECIFICATION FairSpec
CONSTANTS
  Names = {"crash", "hang"}
  Triggers = {"all"}
  Pages = {p1}
  Calls = {c1, c2}
  NoRun = NoRun
  NoPage = NoPage
  Hour = 1
  RunLimit = 1
  MaxTime = 2
  MaxClicks = 3
  MaxRuns = 1
  MaxFaults = 1
  MaxCrashes = 1
CHECK_DEADLOCK FALSE
INVARIANTS RequestsTypeOK ShownResultIsReal NoOrphanReports
PROPERTY ResultShown
