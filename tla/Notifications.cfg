CONSTANTS
  Sessions = {s1, s2}
  FirstHead = s1
  Dispatchers = {d1, d2}
  MaxNotices = 2
  MaxEpoch = 2
  MaxDeaths = 1
  NoOne = NoOne
SPECIFICATION FairSpec
INVARIANTS  DeliveredToHead
PROPERTIES EverythingArrives
CHECK_DEADLOCK FALSE
