------------------------------ MODULE MCInvoices ------------------------------
(***************************************************************************)
(* TLC instances of Invoices: a list of two batches to be paid before the  *)
(* loop, one due by block and one due by block and round.                  *)
(***************************************************************************)
EXTENDS Invoices

CONSTANTS i1, i2, i3, i4, i5

MCSchedules ==
  << [block |-> 0, round |-> 0, invoices |-> <<i1, i2, i3>>],
     [block |-> 1, round |-> 0, invoices |-> <<i4>>],
     [block |-> 1, round |-> 1, invoices |-> <<i5>>] >>

================================================================================
