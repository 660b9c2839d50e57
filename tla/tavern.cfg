SPECIFICATION FairSpec
CONSTANTS
  Wallets = {alice, bob}
  None = None
  MAX_PENDING_PER_SENDER = 1
  MaxRequests = 2
  MaxWrites = 2
  MaxMishaps = 1
INVARIANTS TypeOK ShownAsFighting SeatsAreLive ChallengesAreSound
PROPERTIES NothingLingers
CHECK_DEADLOCK FALSE
