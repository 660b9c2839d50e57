SPECIFICATION Spec
CONSTANTS
  A = A
  B = B
  C = C
  W1 = W1
  W2 = W2
  None = None
  Absent = Absent
  Wallets <- Pair
  Wagers <- OneWager
  CreatorOf <- OneCreator
  Casual = {A, B}
  MaxFriendly = 1
  MaxChallenges = 2
  MaxInFlight = 2
  MaxMishaps = 1
INVARIANTS TypeOK FightsAreEntitled ActiveIsOwned
CHECK_DEADLOCK FALSE
