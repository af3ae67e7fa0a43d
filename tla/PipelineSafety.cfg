SPECIFICATION Spec
CONSTANTS
  Tasks = {t1}
  Messages = {m1, m2, m3}
  Workers = {w1, w2}
  Operators = {o1}
  NoTask = NoTask
  NoMessage = NoMessage
  NoRetry = NoRetry
  NoWorker = NoWorker
  RedriveMax = 2
  MaxReceiveCount = 2
  MaxExpiries = 2
  SlowCalls = {"claim", "infer", "revert", "fail", "put", "delete", "complete", "announce"}
  AIEnabled = TRUE
  MaxFaults = 1
  MaxCrashes = 1
  ReplayDepthLimit = 1
CHECK_DEADLOCK FALSE
SYMMETRY Symmetry
INVARIANTS TypeOK ExclusiveClaim CompletedHasArtifact AnnouncedIsFinal
PROPERTY LeaseSpec
