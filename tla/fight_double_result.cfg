SPECIFICATION Spec
CONSTANTS
  PlayerA = PlayerA
  PlayerB = PlayerB
  None = None
  TURN_TIMER_MS = 2
  TURN_GAP_MS = 1
  GRACE_BUDGET_MS = 2
  MaxResults = 3
  MaxAuth = 1
CHECK_DEADLOCK FALSE
INVARIANT EveryTurnResolvedOnce
