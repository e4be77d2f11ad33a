SPECIFICATION MonSpec
SYMMETRY JobSymmetry
CONSTANTS
  NoJob = none
  Code = {0, 1}
  MaxRuntime = 0
  Retention = 0
  Job = {j1, j2}
  MaxFaults = 1
  MaxTurns = 0
  TheSession = s1
  Session <- OneSession
  SessionOf <- AllInOne
INVARIANTS MonTypeOK FollowedUpWasSaid RepeatedByFaultOnly StoppedJobIsLeftAlone WorkIsPending DiedLeftNoCode SuccessIsReal
PROPERTY VerdictIsFinal
