SPECIFICATION Spec
CONSTANTS
  Client = {c1}
  Event = {"error", "DONE"}
  ErrorEvent = "error"
  DoneEvent = "DONE"
  NoEvent = "none"
  MaxRuns = 2
  MaxEvents = 1
  Grace = 1
INVARIANT EndedTaskLeavesNoRunningRun
CHECK_DEADLOCK FALSE
