----------------------------- MODULE MCTakerRounds -----------------------------
(***************************************************************************)
(* TLC instances of TakerRounds.                                           *)
(***************************************************************************)
EXTENDS TakerRounds, TLC

CONSTANTS t1, t2

Free ==
  [ delay_blocks |-> 0, delay_rounds |-> 0, stop_blocks |-> 0, stop_rounds |-> 0,
    max_coinjoins |-> 0, time_between_rounds |-> 1, coinjoin_timeout_blocks |-> 1 ]

\* Two takers in parallel: one free, one that starts late and makes one CoinJoin.
ParallelWallets ==
  (t1 :> [Free EXCEPT !.time_between_rounds = 0])
    @@ (t2 :> [Free EXCEPT !.max_coinjoins = 1, !.delay_blocks = 1])

\* One taker over several attempts, limited to one CoinJoin.
SingleWallets == t1 :> [Free EXCEPT !.max_coinjoins = 1]

\* One taker that is to stop a block after its first attempt.
StoppedWallets == t1 :> [Free EXCEPT !.stop_blocks = 1]

================================================================================
