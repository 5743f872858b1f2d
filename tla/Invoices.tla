-------------------------------- MODULE Invoices --------------------------------
(***************************************************************************)
(* The funding of the wallets: invoices scheduled by block and round, paid *)
(* in batches by a distributor whose answers get lost.                     *)
(*                                                                         *)
(*   schedule     src/manager/engine/engine_base.py: prepare_invoices,     *)
(*                update_invoice_payments, pay_invoices                    *)
(*   distributor  JoinMarketClientServer.send: one direct-send after the   *)
(*                other, each repeated until its deadline;                 *)
(*                WasabiClientBase.send: one transaction for the batch     *)
(*                                                                         *)
(* Schedules are numbered in the order prepare_invoices created them. The  *)
(* loop of both engines is reduced to its clock and to this call.          *)
(***************************************************************************)
EXTENDS Integers, Sequences, Functions

CONSTANTS
  Schedules,      \* the keys and lists of engine.invoices, in order of creation
  Distributors,   \* the kinds of distributor to consider
  BatchSize,      \* BATCH_SIZE
  SendTries,      \* the tries pay_invoices gives a batch
  Blocks,         \* scenario.blocks
  MaxRound,       \* bound: rounds of the run
  MaxLost         \* bound: answers lost per invoice

Keys == DOMAIN Schedules
Invoices == UNION {Range(Schedules[s].invoices) : s \in Keys}

ASSUME InvoicesAssumption ==
  /\ Schedules \in Seq([block : Nat, round : Nat, invoices : Seq(Invoices)])
  /\ Distributors \subseteq {"joinmarket", "wasabi"}
  /\ BatchSize \in Nat \ {0} /\ SendTries \in Nat \ {0}
  /\ Blocks \in Nat /\ MaxRound \in Nat /\ MaxLost \in Nat

\* Each invoice has an address of its own: get_new_address.
ASSUME AddressesAssumption ==
  \A s, other \in Keys : \A i \in DOMAIN Schedules[s].invoices, j \in DOMAIN Schedules[other].invoices :
    Schedules[s].invoices[i] = Schedules[other].invoices[j] => s = other /\ i = j

VARIABLES
  distributor,   \* the kind of distributor of this run
  pc,            \* "fund" before the loop, then "loop", "update", "send", "rest"
  looping,       \* whether run_engine has begun
  block,         \* engine.current_block
  round,         \* engine.current_round
  owed,          \* engine.invoices; an empty list is a deleted key
  current,       \* the schedule under payment
  tries,         \* tries left for its first batch
  position,      \* JoinMarket: invoices of the batch already handled
  payments,      \* how often each invoice was paid on the chain
  lost           \* how many of these payments were not acknowledged

clock == <<block, round>>
payment == <<owed, current, tries, position, payments, lost>>
vars == <<distributor, pc, looping, clock, payment>>

Scheduled(i) == \E s \in Keys : i \in Range(owed[s])

Due(s) == Schedules[s].block <= block /\ Schedules[s].round <= round

Batch == SubSeq(owed[current], 1, IF Len(owed[current]) < BatchSize THEN Len(owed[current]) ELSE BatchSize)

Init ==
  /\ distributor \in Distributors
  /\ pc = "fund" /\ looping = FALSE
  /\ block = 0 /\ round = 0
  /\ owed = [s \in Keys |-> Schedules[s].invoices]
  /\ current = 0 /\ tries = 0 /\ position = 0
  /\ payments = [i \in Invoices |-> 0]
  /\ lost = [i \in Invoices |-> 0]

--------------------------------------------------------------------------------
(***************************************************************************)
(* The clock of the run.                                                   *)
(***************************************************************************)
Refresh ==
  /\ pc = "loop" /\ block < Blocks
  /\ pc' = "update" /\ looping' = TRUE
  /\ block' \in block..Blocks
  /\ UNCHANGED <<distributor, round, payment>>

\* The rest of an iteration; rounds may be confirmed in it.
Rest ==
  /\ pc = "rest"
  /\ pc' = "loop"
  /\ round' \in IF looping THEN round..MaxRound ELSE {round}
  /\ UNCHANGED <<distributor, looping, block, payment>>

EndRun ==
  /\ pc = "loop" /\ block >= Blocks
  /\ pc' = "ended"
  /\ UNCHANGED <<distributor, looping, clock, payment>>

--------------------------------------------------------------------------------
(***************************************************************************)
(* update_invoice_payments and pay_invoices.  Unpaid lists of the due      *)
(* schedules are paid in turn.                                             *)
(***************************************************************************)
\* Wrong variant: a schedule is due in its own round only.
UnpaidExactly(lists) == {s \in Keys : Due(s) /\ Schedules[s].round = round /\ lists[s] # <<>>}

Unpaid(lists) == {s \in Keys : Due(s) /\ lists[s] # <<>>}

First(keys) == CHOOSE s \in keys : \A other \in keys : s <= other

\* Go on with the first unpaid schedule that is due, or leave the update.
PayNext(lists) ==
  /\ position' = 0
  /\ IF Unpaid(lists) = {}
     THEN pc' = "rest" /\ current' = 0 /\ tries' = 0
     ELSE pc' = "send" /\ current' = First(Unpaid(lists)) /\ tries' = SendTries

Update ==
  /\ pc \in {"fund", "update"}
  /\ PayNext(owed)
  /\ UNCHANGED <<distributor, looping, clock, owed, payments, lost>>

\* The batch is taken off the list: unpaid batches are retained.
Settle ==
  /\ owed' = [owed EXCEPT ![current] = SubSeq(@, Len(Batch) + 1, Len(@))]
  /\ PayNext(owed')

\* Wrong variant: a batch that keeps failing is passed over.
RetryAndDrop ==
  IF tries > 1
  THEN tries' = tries - 1 /\ position' = 0 /\ UNCHANGED <<pc, current, owed>>
  ELSE Settle

\* One try of a batch failed.  The error of the last one ends the run: the Wasabi
\* engine, the only one whose distributor reports errors, lets it through.
Retry ==
  /\ position' = 0 /\ owed' = owed
  /\ IF tries > 1
     THEN tries' = tries - 1 /\ UNCHANGED <<pc, current>>
     ELSE tries' = 0 /\ current' = 0 /\ pc' = "aborted"

--------------------------------------------------------------------------------
(***************************************************************************)
(* The Wasabi distributor: one transaction pays the batch.                 *)
(***************************************************************************)
PayAll(batch) == payments' = [i \in Invoices |-> payments[i] + (IF i \in Range(batch) THEN 1 ELSE 0)]

CanLose(batch) == \A i \in Range(batch) : lost[i] < MaxLost

LoseAll(batch) == lost' = [i \in Invoices |-> lost[i] + (IF i \in Range(batch) THEN 1 ELSE 0)]

BatchSent ==
  /\ pc = "send" /\ distributor = "wasabi"
  /\ PayAll(Batch)
  /\ Settle
  /\ UNCHANGED <<distributor, looping, clock, lost>>

\* The transaction is broadcast, its answer lost or a timeout.
BatchAnswerLost ==
  /\ pc = "send" /\ distributor = "wasabi"
  /\ CanLose(Batch) /\ LoseAll(Batch)
  /\ PayAll(Batch)
  /\ Retry
  /\ UNCHANGED <<distributor, looping, clock>>

BatchFails ==
  /\ pc = "send" /\ distributor = "wasabi"
  /\ Retry
  /\ UNCHANGED <<distributor, looping, clock, payments, lost>>

--------------------------------------------------------------------------------
(***************************************************************************)
(* The JoinMarket distributor: simple_send of one invoice after the other, *)
(* repeated until an answer or its deadline; send ignores which it was.    *)
(***************************************************************************)
Invoice == Batch[position + 1]

\* send goes on with the next invoice, or returns from the batch.
NextInvoice ==
  IF position + 1 < Len(Batch)
  THEN position' = position + 1 /\ UNCHANGED <<pc, owed, current, tries>>
  ELSE Settle

DirectSend ==
  /\ pc = "send" /\ distributor = "joinmarket"
  /\ PayAll(<<Invoice>>)
  /\ NextInvoice
  /\ UNCHANGED <<distributor, looping, clock, lost>>

\* The payment is broadcast, its answer lost: simple_send asks again.
DirectSendAnswerLost ==
  /\ pc = "send" /\ distributor = "joinmarket"
  /\ CanLose(<<Invoice>>) /\ LoseAll(<<Invoice>>)
  /\ PayAll(<<Invoice>>)
  /\ UNCHANGED <<distributor, pc, looping, clock, owed, current, tries, position>>

\* Wrong variant: the deadline raises, and the batch is repeated from its start.
DirectSendRaises ==
  /\ pc = "send" /\ distributor = "joinmarket"
  /\ Retry
  /\ UNCHANGED <<distributor, looping, clock, payments, lost>>

\* Every try failed until the deadline: simple_send returns False.
DirectSendGivesUp ==
  /\ pc = "send" /\ distributor = "joinmarket"
  /\ NextInvoice
  /\ UNCHANGED <<distributor, looping, clock, payments, lost>>

\* The run is over.
Over == pc \in {"ended", "aborted"} /\ UNCHANGED vars

Engine == Refresh \/ Rest \/ EndRun \/ Update

Send ==
  \/ BatchSent \/ BatchAnswerLost \/ BatchFails
  \/ DirectSend \/ DirectSendAnswerLost \/ DirectSendGivesUp

Next == Engine \/ Send \/ Over

Spec == Init /\ [][Next]_vars

\* The engine's only thread goes on, and every call to a distributor ends.
Fairness == WF_vars(Engine) /\ WF_vars(Send)

FairSpec == Spec /\ Fairness

--------------------------------------------------------------------------------
(***************************************************************************)
(* Properties.                                                             *)
(***************************************************************************)

\* The types, the bound on a batch and what is known of the schedule under payment.
TypeOK ==
  /\ distributor \in Distributors
  /\ pc \in {"fund", "loop", "update", "send", "rest", "ended", "aborted"}
  /\ looping \in BOOLEAN
  /\ block \in 0..Blocks /\ round \in 0..MaxRound
  /\ owed \in [Keys -> Seq(Invoices)]
  /\ IF pc = "send"
     THEN current \in Keys /\ tries \in 1..SendTries /\ position \in 0..(Len(Batch) - 1)
     ELSE current = 0 /\ tries = 0 /\ position = 0
  /\ payments \in [Invoices -> Nat] /\ lost \in [Invoices -> 0..MaxLost]

\* The schedule implements the promise of module Funding, where only the Wasabi
\* distributor reports a payment it could not make.
Promise == INSTANCE Funding WITH
  reliable <- distributor = "wasabi",
  scheduled <- {i \in Invoices : Scheduled(i)}

ImplementsFunding == Promise!Spec

\* An invoice is paid again only after a payment whose answer was lost, whatever
\* part of a batch or of a list had been handled when something failed.
PaidAgainOnlyIfLost == \A i \in Invoices : payments[i] <= 1 + lost[i]

\* With a distributor that reports its failures a due invoice is paid in the end, or
\* the run is over: an unpaid list stays due in all later rounds and blocks.
DueIsPaid ==
  \A s \in Keys : \A i \in Range(Schedules[s].invoices) :
    distributor = "wasabi" /\ Due(s) /\ pc = "update" ~> payments[i] > 0 \/ pc \in {"ended", "aborted"}

\* The comment of update_invoice_payments: "Keep the invoices scheduled until payment
\* succeeds. A transient RPC failure must not silently erase wallet funding."
KeptUntilPaid == \A i \in Invoices : Scheduled(i) \/ payments[i] > 0

================================================================================
