---------------------------- MODULE MCWasabiSpends ----------------------------
(***************************************************************************)
(* A TLC instance of WasabiSpends: a mixed coin, a plain one, and two      *)
(* rounds.  A value is due first, "all" with the first round.              *)
(***************************************************************************)
EXTENDS WasabiSpends

CONSTANTS plain, mixed, first, second

MCCoins == {plain, mixed, first, second}
MCOutput == <<first, second>>
MCScore == [c \in MCCoins |-> CASE c = plain -> 1 [] c = mixed -> 2 [] c = first -> 3 [] c = second -> 4]
MCAmount == [c \in MCCoins |-> IF c \in {mixed, first} THEN 2 ELSE 1]
MCSpends == << [block |-> 1, round |-> 0, value |-> 2, min |-> 0], [block |-> 0, round |-> 1, value |-> 0, min |-> 0] >>

===============================================================================
