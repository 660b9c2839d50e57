SPECIFICATION FairSpec
CONSTANTS
  PlayerA = PlayerA
  PlayerB = PlayerB
  None = None
  TURN_TIMER_MS = 1
  TURN_GAP_MS = 1
  GRACE_BUDGET_MS = 1
  MaxResults = 2
  MaxAuth = 1
CHECK_DEADLOCK FALSE
PROPERTY FightAdvances
