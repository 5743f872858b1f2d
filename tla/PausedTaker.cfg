SPECIFICATION Spec
CONSTANTS
  t1 = t1
  t2 = t2
  Takers = {t1}
  Wallets <- StoppedWallets
  Rounds = 0
  Blocks = 4
  StartTries = 1
  MaxAttempts = 1
  MaxHeight = 4
PROPERTIES
  NoOverdueAttempt
