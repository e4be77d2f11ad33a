SPECIFICATION Spec
CONSTANTS
  Doc = {d1, d2}
  Known = {d1, d2}
  Temp = streaming
  NoDoc = null
  Typed = {}
  Written = {}
  MaxClicks = 3
  MaxPuts = 1
INVARIANT NoForeignText
CHECK_DEADLOCK FALSE
