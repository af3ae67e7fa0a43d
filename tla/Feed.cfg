SPECIFICATION FairFeedSpec
CONSTANTS
  Keys = {"queue.lag"}
  DownKey = "worker.down"
  NoKey = NoKey
  HealthcheckFailures = 1
  MaxEvents = 2
  MaxInputs = 2
  MaxFaults = 1
  MaxCrashes = 1
  Clients = {c1, c2}
  Messages <- HealingMessages
  BufferSize = 1
  PageLimit = 1
  SnapshotLimit = 1
  NoClient = NoClient
  NoPost = NoPost
CHECK_DEADLOCK FALSE
INVARIANTS FeedTypeOK PageAgrees NoSendOnClosed
PROPERTIES ResolvedLeavesPage PageReconnects
