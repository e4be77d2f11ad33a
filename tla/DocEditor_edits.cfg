SPECIFICATION Spec
CONSTANTS
  Doc = {d1, d2}
  Known = {d1}
  Temp = streaming
  NoDoc = null
  Typed = {t1}
  Written = {w1}
  MaxClicks = 2
  MaxPuts = 1
INVARIANTS TypeOK OwnText DiffIsOfActive TypedWillBeSaved
CHECK_DEADLOCK FALSE
