SPECIFICATION FairSpec
CONSTANTS
  Client = {c1}
  Event = {"error", "DONE"}
  ErrorEvent = "error"
  DoneEvent = "DONE"
  NoEvent = "none"
  MaxRuns = 2
  MaxEvents = 2
  Grace = 1
INVARIANTS TypeOK StreamIsPrefix EndedStreamIsComplete DrainOwnsItsRun
PROPERTIES EvictionOnlyAfterGrace FinishedRunIsEvicted FinishedStreamEnds QueuedRunGetsItsTurn AbstractFairSpec
CHECK_DEADLOCK FALSE
