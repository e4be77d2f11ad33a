SPECIFICATION Spec
SYMMETRY Symmetry
CONSTANTS
  Turn = {t1}
  Obj = {o1, o2, o3}
  NoObj = none
  WriterKind = {}
  TurnKind = {"user"}
  Preface <- PlainPreface
  CompactMin = 3
  TailMin = 1
  TailMax = 2
  AutoMin = 2
  PageLimit = 4
  MaxMsgs = 4
  MaxAutos = 0
  MaxMerges = 0
  MaxFaults = 1
  MaxRestarts = 0
INVARIANTS SavedStays
CHECK_DEADLOCK FALSE
