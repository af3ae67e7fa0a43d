SPECIFICATION Spec
CONSTANTS
  Keys = {down, lag}
  DownKey = down
  NoKey = NoKey
  HealthcheckFailures = 2
  MaxFaults = 0
  MaxCrashes = 0
  MaxInputs = 2
  MaxEvents = 4
INVARIANT NoDuplicateEvents
