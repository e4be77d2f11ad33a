SPECIFICATION Spec
CONSTANTS
  MaxRuns = 2
  MaxJobs = 2
  MaxEvents = 3
INVARIANTS TypeOK DoneIsDone OneAtATime RunningIsFollowed
CHECK_DEADLOCK FALSE
