SPECIFICATION FairSpec
CONSTANTS
  i1 = i1
  i2 = i2
  i3 = i3
  i4 = i4
  i5 = i5
  Schedules <- MCSchedules
  Distributors = {"joinmarket", "wasabi"}
  BatchSize = 2
  SendTries = 3
  Blocks = 2
  MaxRound = 1
  MaxLost = 1
INVARIANTS
  PaidAgainOnlyIfLost
PROPERTIES
  ImplementsFunding
  
