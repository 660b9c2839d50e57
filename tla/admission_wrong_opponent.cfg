SPECIFICATION Spec
CONSTANTS
  A = A
  B = B
  C = C
  W1 = W1
  W2 = W2
  None = None
  Absent = Absent
  Wallets <- Three
  Wagers <- OneWager
  CreatorOf <- OneCreator
  Casual = {}
  MaxFriendly = 0
  MaxChallenges = 2
  MaxInFlight = 2
  MaxMishaps = 0
INVARIANTS FightersAreTheStakers
CHECK_DEADLOCK FALSE
