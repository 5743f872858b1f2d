-------------------------------- MODULE Funding --------------------------------
(***************************************************************************)
(* What the funding of the wallets promises, whatever the distributor and  *)
(* its failures: an invoice leaves the schedule once, after it was paid if *)
(* the distributor reports its failures, and is not paid afterwards.       *)
(* Module Invoices implements it.                                          *)
(***************************************************************************)
EXTENDS Naturals

CONSTANT Invoices

VARIABLES
  reliable,    \* whether the distributor reports a payment it could not make
  scheduled,   \* the invoices still to be paid
  payments     \* how often each invoice was paid on the chain

Init ==
  /\ reliable \in BOOLEAN
  /\ scheduled = Invoices
  /\ payments = [i \in Invoices |-> 0]

\* Some scheduled invoices are paid, and some are taken off the schedule.
Next ==
  \E paid, settled \in SUBSET scheduled :
    /\ payments' = [i \in Invoices |-> payments[i] + (IF i \in paid THEN 1 ELSE 0)]
    /\ scheduled' = scheduled \ settled
    /\ reliable => \A i \in settled : payments'[i] > 0
    /\ reliable' = reliable

Spec == Init /\ [][Next]_<<reliable, scheduled, payments>>

================================================================================
