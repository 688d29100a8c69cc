CONSTANTS
  r = r
  a = a
  b = b
  Tasks <- MCTasks
  Root = r
  MaxChildren = 1
  MaxDepth = 2
  MaxAttempts = 2
  Plans <- MCPlans
  MaxRevisions = 2
SPECIFICATION FairSpec
INVARIANTS TreeInv SealedParentIsSettled
PROPERTIES SlotIsFreed
CHECK_DEADLOCK FALSE
