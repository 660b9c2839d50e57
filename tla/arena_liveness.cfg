SPECIFICATION TrustlessSpec
CONSTANTS
  Wallets = {treasury, alice}
  TREASURY = treasury
  Wagers = {w1}
  None = None
  Stakes = {10, 30}
  InitialPurse = 30
  Levels = {1, 2, 3}
  LockExpiries = {0, 2}
  CHALLENGE_TIMEOUT_MS = 1
  MATCH_EXPIRY_MS = 2
  SETTLEMENT_TIMEOUT_MS = 2
  WAGER_RESOLUTION_TIMEOUT_MS = 3
  MAX_LOCK_MS = 2
  U64_MAX = 20000
  MaxTime = 5
  LastCommit = 2
PROPERTIES EveryWagerUnwinds
CHECK_DEADLOCK FALSE
