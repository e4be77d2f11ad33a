SPECIFICATION FairSpec
CONSTANTS
  Session = {s1, s2, s3}
  NoSession = none
  Known = {s1}
  Msg = {m1, m2}
  NoMsg = empty
  Slow = {m2}
  MaxSends = 2
  MaxNavs = 1
INVARIANTS TypeOK SentOnce OwnSession StreamingIsActive
PROPERTY QueueDrains
CHECK_DEADLOCK FALSE
