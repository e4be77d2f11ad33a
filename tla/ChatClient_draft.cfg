SPECIFICATION FairSpec
CONSTANTS
  Session = {s1, s2}
  NoSession = none
  Known = {s1}
  Msg = {m1, m2, m3}
  NoMsg = empty
  Slow = {}
  MaxSends = 2
  MaxNavs = 0
PROPERTY DraftStays
CHECK_DEADLOCK FALSE
