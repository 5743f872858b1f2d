------------------------------ MODULE MCWasabiRun ------------------------------
(***************************************************************************)
(* TLC instances of WasabiRun: a run limited in rounds or in blocks, with  *)
(* a wallet that skips a round and one that comes late and stops early.    *)
(***************************************************************************)
EXTENDS WasabiRun

MCLimits == {[rounds |-> 1, blocks |-> 0], [rounds |-> 0, blocks |-> 2]}

MCSchedule ==
  << [delay_blocks |-> 0, delay_rounds |-> 0, stop_blocks |-> 0, stop_rounds |-> 0, skip_rounds |-> {1}],
     [delay_blocks |-> 1, delay_rounds |-> 0, stop_blocks |-> 0, stop_rounds |-> 1, skip_rounds |-> {}] >>

================================================================================
