SPECIFICATION FairSpec
CONSTANTS
  t1 = t1
  t2 = t2
  Takers = {t1}
  Wallets <- SingleWallets
  Rounds = 0
  Blocks = 4
  StartTries = 2
  MaxAttempts = 2
  MaxHeight = 4
INVARIANTS
  FailedAfterTimeout
  LabelsMatchChain
  MaxCoinjoinsRespected
PROPERTIES
  RecordsSettleOnce
  RunEnds
