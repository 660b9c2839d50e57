SPECIFICATION Spec
CONSTANTS
  Wallets = {treasury, alice, bob}
  TREASURY = treasury
  Wagers = {w1, w2}
  None = None
  Stakes = {10}
  InitialPurse = 20
  Levels = {1}
  LockExpiries = {0}
  CHALLENGE_TIMEOUT_MS = 1
  MATCH_EXPIRY_MS = 2
  SETTLEMENT_TIMEOUT_MS = 1
  WAGER_RESOLUTION_TIMEOUT_MS = 2
  MAX_LOCK_MS = 1
  U64_MAX = 1000000
  MaxTime = 2
  LastCommit = 2
SYMMETRY WagerSymmetry
INVARIANTS TypeOK EscrowMatchesStatus RegistryMatchesOpenWagers CoinsConserved
PROPERTIES OnlyAFightCostsMoney ImplementsVault
CHECK_DEADLOCK FALSE
