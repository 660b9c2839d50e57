SPECIFICATION FairSpec
CONSTANTS
  None = None
  PointsPerLevel = 2
  MaxWrites = 2
  MaxIds = 3
  MaxFights = 1
  MaxMishaps = 2
INVARIANTS TypeOK SessionUsesTheRecord SpentOnceAtMost AgreesWhenQuiet
PROPERTIES GateOpens
CHECK_DEADLOCK FALSE
