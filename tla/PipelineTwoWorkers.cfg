SPECIFICATION Spec
CONSTANTS
  Tasks = {t1}
  Messages = {m1}
  Workers = {w1, w2}
  Operators = {}
  NoTask = NoTask
  NoMessage = NoMessage
  NoRetry = NoRetry
  NoWorker = NoWorker
  RedriveMax = 3
  MaxReceiveCount = 3
  MaxExpiries = 1
  SlowCalls = {"infer"}
  AIEnabled = TRUE
  MaxFaults = 0
  MaxCrashes = 0
  ReplayDepthLimit = 2
CHECK_DEADLOCK FALSE
INVARIANT PendingIsDeliverable
