CONSTANTS
  d1 = d1
  d2 = d2
  a = a
  b = b
  Drivers = {d1, d2}
  Agents = {a, b}
  Retries <- OneRetry
  Revised <- FirstOfA
  Asking <- EachFirst
  Scenes <- AllScenes
SPECIFICATION FairSpec
  
PROPERTIES RunStepsAreLegal DriverEnds
CHECK_DEADLOCK FALSE
