SPECIFICATION Spec
SYMMETRY Symmetry
CONSTANTS
  Turn = {t1, t2}
  Obj = {o1, o2, o3, o4}
  NoObj = none
  WriterKind = {"slash"}
  TurnKind = {"user", "continue"}
  Preface <- PlainPreface
  CompactMin = 3
  TailMin = 1
  TailMax = 2
  AutoMin = 2
  PageLimit = 3
  MaxMsgs = 3
  MaxAutos = 1
  MaxMerges = 1
  MaxFaults = 0
  MaxRestarts = 1
INVARIANTS TypeOK CacheMatchesRows CountTracksRows SavedStays RemovedStaysRemoved RowsInOrder
CHECK_DEADLOCK FALSE
