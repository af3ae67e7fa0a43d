SPECIFICATION FairHeartbeatsSpec
CONSTANTS
  Workers = {w1, w2}
  BeatEvery = 2
  PollEvery = 3
  Stale = 12
  Orphan = 24
  MaxStall = 2
  MaxChanges = 3
  MaxFaults = 1
  MaxCrashes = 0
INVARIANTS HeartbeatsTypeOK SilentIsReported PunctualIsNotReported
PROPERTIES RecoveredIsResolved
