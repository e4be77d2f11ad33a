SPECIFICATION MonFairSpec
CONSTANTS
  NoJob = none
  Code = {0, 1}
  MaxRuntime = 0
  Retention = 0
  Job = {j1}
  MaxFaults = 1
  MaxTurns = 1
  TheSession = s1
  Session <- OneSession
  SessionOf <- AllInOne
PROPERTIES FollowUpArrives EveryJobSettles
