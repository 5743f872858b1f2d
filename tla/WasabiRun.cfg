SPECIFICATION FairSpec
CONSTANTS
  QuietSamples = 2
  CopyTries = 2
  Wallets = {1, 2}
  Bonded = {2}
  BondBatch = 5
  Retries = 1
  Limits <- MCLimits
  Schedule <- MCSchedule
  CoordinatorTries = 2
  SettlementBlocks = 3
  EarlyBlocks = 1
  LoopBlocks = 2
  LateBlocks = 1
  MaxRounds = 1
  MaxEnded = 1
INVARIANTS
  TypeOK
  EveryWalletIsServed
  SnapshotIsOneHeight
PROPERTIES
  RunEnds
  GoneClientEndsRun
