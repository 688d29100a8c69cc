CONSTANTS
  session = session
  command = command
  PressBudget = 2
  Scenes <- AllScenes
  Courses <- AllCourses
  Outputs <- AllOutputs
  PressLimit = 1
  MaxHands = 1
  MaxSlow = 1
  Deciders = {"decider"}
  Reconcilers = {"reconciler"}
  MaxMoves = 1
SPECIFICATION PanesSpec
INVARIANTS PaneInv PanesStay GoodWorkIsKept ScreenInv
PROPERTIES NothingIsLeftOpen
CHECK_DEADLOCK FALSE
