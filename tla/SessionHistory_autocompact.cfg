SPECIFICATION Spec
SYMMETRY Symmetry
CONSTANTS
  Turn = {t1}
  Obj = {o1, o2, o3}
  NoObj = none
  WriterKind = {"assistant", "slash"}
  TurnKind = {"user"}
  Preface <- SomePrefaces
  CompactMin = 3
  TailMin = 1
  TailMax = 2
  AutoMin = 2
  PageLimit = 3
  MaxMsgs = 3
  MaxAutos = 1
  MaxMerges = 0
  MaxFaults = 0
  MaxRestarts = 0
INVARIANTS NothingIsDropped
CHECK_DEADLOCK FALSE
