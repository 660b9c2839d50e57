SPECIFICATION FairSpec
CONSTANTS
  PlayerA = PlayerA
  PlayerB = PlayerB
  None = None
  Draw = Draw
  NumFights = 2
  Kinds = {"ranked", "wager"}
  Attempts = 2
  MaxCrashes = 1
  MaxFaults = 1
INVARIANTS TypeOK StakesAreTracked RecordsAgree ResultsCount
PROPERTY SettlementAnswers
CHECK_DEADLOCK FALSE
