SPECIFICATION Spec
CONSTANTS
  t1 = t1
  t2 = t2
  Takers = {t1, t2}
  Wallets <- ParallelWallets
  Rounds = 1
  Blocks = 3
  StartTries = 1
  MaxAttempts = 2
  MaxHeight = 3
INVARIANTS
  TypeOK
  PendingIsUnscanned
  OnePendingAttempt
  RoundsAreMined
  RunsAreOnRecord
  RoundOvershoot
