SPECIFICATION FairSpec
CONSTANTS
  plain = plain
  mixed = mixed
  first = first
  second = second
  Coins <- MCCoins
  AtStart = {plain, mixed}
  Output <- MCOutput
  Amount <- MCAmount
  Score <- MCScore
  Spends <- MCSpends
  Stops = {0, 2}
  Blocks = 2
  MaxFaults = 1
INVARIANTS
  PaidAgainOnlyIfUnsure
PROPERTIES
  SweepIsComplete
  MixingResumes
