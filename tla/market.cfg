SPECIFICATION FairSpec
CONSTANTS
  Wallets = {alice, bob}
  Items = {sword}
  Watchers = {bob}
  None = None
  Prices = {2, 8}
  Funds = 12
  LISTING_FEE_MIST = 1
  ROYALTY_BPS = 1
  BPS_BASE = 4
  ROYALTY_MIN_MIST = 1
  PAGE = 2
  MaxEvents = 4
  MaxMishaps = 2
INVARIANTS TypeOK LogTellsTheMarket FillRepairs PageFollowsIndex
PROPERTIES IndexIsFollowed
CHECK_DEADLOCK FALSE
