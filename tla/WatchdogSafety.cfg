SPECIFICATION FairSpec
CONSTANTS
  Keys = {down, lag}
  DownKey = down
  NoKey = NoKey
  HealthcheckFailures = 2
  MaxFaults = 2
  MaxCrashes = 2
  MaxInputs = 3
  MaxEvents = 8
INVARIANTS WatchdogTypeOK OneActivePerKey ActiveRowsAreKnown
PROPERTIES GoneIsResolved PersistentIsReported
