SPECIFICATION FairSpec
CONSTANTS
  Tasks = {t1, t2}
  Messages = {m1, m2}
  Workers = {w1}
  Operators = {}
  NoTask = NoTask
  NoMessage = NoMessage
  NoRetry = NoRetry
  NoWorker = NoWorker
  RedriveMax = 3
  MaxReceiveCount = 3
  MaxExpiries = 3
  SlowCalls = {"claim", "infer", "revert", "fail", "put", "delete", "complete", "announce"}
  AIEnabled = TRUE
  MaxFaults = 1
  MaxCrashes = 1
  ReplayDepthLimit = 2
CHECK_DEADLOCK FALSE
INVARIANTS PendingIsDeliverable UnfinishedIsWatched
PROPERTIES MainDrains Settles
