--------------------------- MODULE MCPostmixSpends ---------------------------
(***************************************************************************)
(* TLC instances of PostmixSpends: mixdepth 0 holds two mixed coins and a  *)
(* plain one, mixdepth 1 a mixed one, and a plain coin may arrive in       *)
(* mixdepth 0.  A value is due first, "all" with the first round.          *)
(***************************************************************************)
EXTENDS PostmixSpends

CONSTANTS small, big, plain, other, late

MCCoins == {small, big, plain, other, late}
MCMixdepth == [c \in MCCoins |-> IF c = other THEN 1 ELSE 0]
MCAmount == [c \in MCCoins |-> IF c \in {big, other} THEN 2 ELSE 1]
MCMixed == {small, big, other}
MCAtStart == MCCoins \ {late}
MCSpends == << [block |-> 1, round |-> 0, value |-> 2], [block |-> 0, round |-> 1, value |-> 0] >>

================================================================================
