SPECIFICATION FairSpec
CONSTANTS
  small = small
  big = big
  plain = plain
  other = other
  late = late
  Coins <- MCCoins
  Mixdepth <- MCMixdepth
  Amount <- MCAmount
  Mixed <- MCMixed
  AtStart <- MCAtStart
  Spends <- MCSpends
  Roles = {"maker", "taker"}
  Blocks = 1
  Rounds = 1
  MaxFaults = 2
  MaxLeaving = 1
INVARIANTS
  PaidAgainOnlyIfUnsure
  SweptWhileIdle
PROPERTIES
  OthersAreKept
  NothingStaysFrozen
  MakerReturns
