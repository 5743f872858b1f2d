----------------------------- MODULE InvoicesProofs -----------------------------
(***************************************************************************)
(* Proofs about Invoices: the schedule implements the promise of module    *)
(* Funding, an invoice is paid again only after a payment whose answer was *)
(* lost, and with a distributor that reports its failures an invoice       *)
(* leaves the schedule only when it was paid.                              *)
(*                                                                         *)
(* An invoice is one place in one list (AddressesAssumption), and a list   *)
(* is owed from some place on (ListInv).  So the number of its payments    *)
(* follows from where its list is owed from and, for the list under        *)
(* payment, from how much of the batch was handled (PaidInv).              *)
(***************************************************************************)
EXTENDS Invoices, SequenceTheorems, FiniteSetTheorems, TLAPS

List(s) == Schedules[s].invoices

\* How many invoices of a list were taken off.
Handled(s) == Len(List(s)) - Len(owed[s])

\* What is owed of a list is its end.
ListInv ==
  \A s \in Keys :
    /\ Len(owed[s]) <= Len(List(s))
    /\ \A k \in 1..Len(owed[s]) : owed[s][k] = List(s)[Handled(s) + k]

\* The place of a list up to which a payment may be one that was answered.
Tried(s) == Handled(s) + (IF s = current THEN position ELSE 0)

PaidInv ==
  /\ position > 0 => distributor = "joinmarket"
  /\ \A s \in Keys : \A k \in 1..Len(List(s)) :
       /\ payments[List(s)[k]] <= lost[List(s)[k]] + (IF k <= Tried(s) THEN 1 ELSE 0)
       /\ distributor = "wasabi" /\ k <= Handled(s) => payments[List(s)[k]] > 0

IInv == TypeOK /\ ListInv /\ PaidInv

-----------------------------------------------------------------------------
(***************************************************************************)
(* Lists and batches.                                                      *)
(***************************************************************************)
\* The lists of prepare_invoices, numbered.
LEMMA ListsAreKeyed ==
  /\ Keys \subseteq Nat /\ 0 \notin Keys
  /\ \A s \in Keys : List(s) \in Seq(Invoices) /\ Len(List(s)) \in Nat /\ DOMAIN List(s) = 1..Len(List(s))
  /\ \A s \in Keys : \A k \in 1..Len(List(s)) : List(s)[k] \in Invoices
  /\ \A i \in Invoices : \E s \in Keys : \E k \in 1..Len(List(s)) : i = List(s)[k]
<1> DEFINE Entry == [block : Nat, round : Nat, invoices : Seq(Invoices)]
<1>1. Schedules \in Seq(Entry)
  BY InvoicesAssumption
<1> HIDE DEF Entry
<1>2. Keys = 1..Len(Schedules) /\ Len(Schedules) \in Nat /\ \A s \in Keys : Schedules[s] \in Entry
  BY <1>1 DEF Keys
<1>3. ASSUME NEW s \in Keys PROVE List(s) \in Seq(Invoices)
  BY <1>2 DEF Entry, List
<1>4. ASSUME NEW s \in Keys PROVE Len(List(s)) \in Nat /\ DOMAIN List(s) = 1..Len(List(s))
  <2> DEFINE l == List(s)
  <2>1. l \in Seq(Invoices)
    BY <1>3
  <2> HIDE DEF l
  <2>2. Len(l) \in Nat /\ DOMAIN l = 1..Len(l)
    BY <2>1
  <2> QED
    BY <2>2 DEF l
<1>5. ASSUME NEW s \in Keys, NEW k \in 1..Len(List(s)) PROVE List(s)[k] \in Invoices
  <2> DEFINE l == List(s)
  <2>1. l \in Seq(Invoices) /\ k \in 1..Len(l)
    BY <1>3
  <2> HIDE DEF l
  <2>2. l[k] \in Invoices
    BY <2>1
  <2> QED
    BY <2>2 DEF l
<1>6. ASSUME NEW i \in Invoices PROVE \E s \in Keys : \E k \in 1..Len(List(s)) : i = List(s)[k]
  <2>1. PICK s \in Keys : i \in Range(List(s))
    BY DEF Invoices, List
  <2>2. \E k \in DOMAIN List(s) : i = List(s)[k]
    BY <2>1 DEF Range
  <2> QED
    BY <1>4, <2>2
<1> QED
  BY <1>2, <1>3, <1>4, <1>5, <1>6

\* An invoice has one place in one list: get_new_address.
LEMMA OnePlace ==
  ASSUME NEW s \in Keys, NEW t \in Keys, NEW j \in 1..Len(List(s)), NEW k \in 1..Len(List(t)),
         List(s)[j] = List(t)[k]
  PROVE  s = t /\ j = k
<1>1. j \in DOMAIN List(s) /\ k \in DOMAIN List(t)
  BY ListsAreKeyed
<1> QED
  BY <1>1, AddressesAssumption DEF List

\* A set of naturals has a least element: which schedule is paid first.
LEMMA FirstOne ==
  ASSUME NEW T, T \subseteq Nat, T # {}
  PROVE  First(T) \in T
<1> DEFINE B == {1..k : k \in T}
<1>1. B \subseteq FiniteSubsetsOf(Nat) /\ B # {}
  <2>1. ASSUME NEW k \in T PROVE 1..k \in SUBSET Nat /\ IsFiniteSet(1..k)
    BY <2>1, FS_Interval
  <2> QED
    BY <2>1 DEF FiniteSubsetsOf
<1>2. PICK x \in B : \A y \in B : ~(<<y, x>> \in StrictSubsetOrdering(Nat))
  <2> HIDE DEF B
  <2> QED
    BY <1>1, FS_StrictSubsetOrderingWellFounded, WFMin
<1>3. PICK k \in T : x = 1..k
  BY <1>2
<1>4. ASSUME NEW y \in T, y < k PROVE FALSE
  <2>1. 1..y \in B /\ 1..y \subseteq 1..k /\ k \in 1..k /\ k \notin 1..y
    BY <1>4
  <2>2. <<1..y, 1..k>> \in StrictSubsetOrdering(Nat)
    BY <2>1 DEF StrictSubsetOrdering
  <2> QED
    BY <1>2, <1>3, <2>1, <2>2
<1>5. k \in T /\ \A y \in T : k <= y
  BY <1>4
<1> QED
  BY <1>5 DEF First

\* The batch is the beginning of the list under payment: pay_invoices.
LEMMA BatchIs ==
  ASSUME TypeOK, pc = "send"
  PROVE  /\ current \in Keys /\ owed[current] \in Seq(Invoices) /\ Len(owed[current]) \in Nat
         /\ Batch \in Seq(Invoices)
         /\ Len(Batch) \in 0..Len(owed[current])
         /\ \A k \in 1..Len(Batch) : Batch[k] = owed[current][k] /\ Batch[k] \in Invoices
         /\ Range(Batch) = {Batch[k] : k \in 1..Len(Batch)}
<1>1. current \in Keys /\ owed[current] \in Seq(Invoices)
  BY DEF TypeOK
<1> DEFINE l == owed[current]
           n == IF Len(l) < BatchSize THEN Len(l) ELSE BatchSize
<1>2. l \in Seq(Invoices) /\ Batch = SubSeq(l, 1, n)
  BY <1>1 DEF Batch
<1> HIDE DEF l
<1>3. Len(l) \in Nat /\ \A k \in 1..Len(l) : l[k] \in Invoices
  BY <1>2
<1>4. n \in 0..Len(l)
  BY <1>3, InvoicesAssumption
<1> HIDE DEF n
<1>5. \A k \in 1..n : l[k] \in Invoices
  BY <1>3, <1>4
<1>6. /\ SubSeq(l, 1, n) \in Seq(Invoices)
      /\ Len(SubSeq(l, 1, n)) = IF 1 <= n THEN n - 1 + 1 ELSE 0
      /\ \A k \in 1..n - 1 + 1 : SubSeq(l, 1, n)[k] = l[1 + k - 1]
  BY <1>4, <1>5, SubSeqProperties
<1>7. Batch \in Seq(Invoices) /\ Len(Batch) = n /\ \A k \in 1..n : Batch[k] = l[k]
  BY <1>2, <1>4, <1>6
<1>8. DOMAIN Batch = 1..n
  BY <1>7
<1>9. Range(Batch) = {Batch[k] : k \in 1..n}
  BY <1>8 DEF Range
<1> QED
  BY <1>1, <1>3, <1>4, <1>5, <1>7, <1>9 DEF l

\* What is left of the list is its end, and the other lists stay: del addressed_invoices.
LEMMA SettleIs ==
  ASSUME TypeOK, pc = "send", Settle
  PROVE  /\ owed' \in [Keys -> Seq(Invoices)]
         /\ Len(owed'[current]) = Len(owed[current]) - Len(Batch)
         /\ \A k \in 1..Len(owed'[current]) : owed'[current][k] = owed[current][Len(Batch) + k]
         /\ \A s \in Keys : s # current => owed'[s] = owed[s]
<1> DEFINE l == owed[current]
           m == Len(Batch)
<1>1. current \in Keys /\ l \in Seq(Invoices) /\ Len(l) \in Nat /\ m \in 0..Len(l)
  BY BatchIs
<1>2. owed' = [owed EXCEPT ![current] = SubSeq(l, m + 1, Len(l))] /\ owed \in [Keys -> Seq(Invoices)]
  BY DEF Settle, TypeOK
<1> HIDE DEF l, m
<1>3. \A k \in m + 1..Len(l) : l[k] \in Invoices
  BY <1>1
<1>4. /\ SubSeq(l, m + 1, Len(l)) \in Seq(Invoices)
      /\ Len(SubSeq(l, m + 1, Len(l))) = IF m + 1 <= Len(l) THEN Len(l) - (m + 1) + 1 ELSE 0
      /\ \A k \in 1..Len(l) - (m + 1) + 1 : SubSeq(l, m + 1, Len(l))[k] = l[m + 1 + k - 1]
  BY <1>1, <1>3, SubSeqProperties
<1>5. owed'[current] = SubSeq(l, m + 1, Len(l)) /\ \A s \in Keys : s # current => owed'[s] = owed[s]
  BY <1>1, <1>2
<1>6. owed' \in [Keys -> Seq(Invoices)]
  BY <1>1, <1>2, <1>4
<1>7. Len(owed'[current]) = Len(l) - m
  BY <1>1, <1>4, <1>5
<1>8. ASSUME NEW k \in 1..Len(owed'[current]) PROVE owed'[current][k] = l[m + k]
  <2>1. k \in 1..Len(l) - (m + 1) + 1 /\ m + 1 + k - 1 = m + k
    BY <1>1, <1>7
  <2> QED
    BY <1>4, <1>5, <2>1
<1> QED
  BY <1>5, <1>6, <1>7, <1>8 DEF l, m

-----------------------------------------------------------------------------
(***************************************************************************)
(* Types.                                                                  *)
(***************************************************************************)
RunTypeOK ==
  /\ distributor \in Distributors
  /\ pc \in {"fund", "loop", "update", "send", "rest", "ended", "aborted"}
  /\ looping \in BOOLEAN
  /\ block \in 0..Blocks /\ round \in 0..MaxRound

OwedTypeOK == owed \in [Keys -> Seq(Invoices)]

TurnTypeOK ==
  IF pc = "send"
  THEN current \in Keys /\ tries \in 1..SendTries /\ position \in 0..(Len(Batch) - 1)
  ELSE current = 0 /\ tries = 0 /\ position = 0

PaidTypeOK == payments \in [Invoices -> Nat] /\ lost \in [Invoices -> 0..MaxLost]

\* TypeOK is made of those of the run, of the lists, of the turn and of the payments.
LEMMA TypeParts == TypeOK <=> RunTypeOK /\ OwedTypeOK /\ TurnTypeOK /\ PaidTypeOK
BY DEF TypeOK, RunTypeOK, OwedTypeOK, TurnTypeOK, PaidTypeOK

\* And so it is in the next state.
LEMMA NextTypeParts ==
  ASSUME RunTypeOK', OwedTypeOK', TurnTypeOK', PaidTypeOK'
  PROVE  TypeOK'
<1>1. (TypeOK <=> RunTypeOK /\ OwedTypeOK /\ TurnTypeOK /\ PaidTypeOK)'
  BY TypeParts, PTL
<1> QED
  BY <1>1

\* The first batch of an unpaid list is not empty.
LEMMA PayNextTypes ==
  ASSUME OwedTypeOK', PayNext(owed')
  PROVE  TurnTypeOK' /\ pc' \in {"rest", "send"}
<1>1. CASE Unpaid(owed') = {}
  BY <1>1 DEF PayNext, TurnTypeOK
<1>2. CASE Unpaid(owed') # {}
  <2> DEFINE l == owed'[current']
             n == IF Len(l) < BatchSize THEN Len(l) ELSE BatchSize
  <2>1. /\ pc' = "send" /\ current' = First(Unpaid(owed')) /\ tries' = SendTries /\ position' = 0
    BY <1>2 DEF PayNext
  <2>2. Unpaid(owed') \subseteq Nat
    BY ListsAreKeyed DEF Unpaid
  <2>3. current' \in Unpaid(owed')
    BY <1>2, <2>1, <2>2, FirstOne
  <2>4. current' \in Keys /\ l \in Seq(Invoices) /\ l # <<>>
    BY <2>3 DEF Unpaid, OwedTypeOK
  <2>5. Batch' = SubSeq(l, 1, n)
    BY DEF Batch
  <2> HIDE DEF l
  <2>6. Len(l) \in Nat \ {0} /\ \A k \in 1..Len(l) : l[k] \in Invoices
    BY <2>4
  <2>7. n \in 1..Len(l)
    BY <2>6, InvoicesAssumption
  <2> HIDE DEF n
  <2>8. \A k \in 1..n : l[k] \in Invoices
    BY <2>6, <2>7
  <2>9. Len(SubSeq(l, 1, n)) = IF 1 <= n THEN n - 1 + 1 ELSE 0
    BY <2>7, <2>8, SubSeqProperties
  <2>10. Len(Batch)' = n
    BY <2>5, <2>7, <2>9
  <2>11. position' \in 0..(Len(Batch)' - 1) /\ tries' \in 1..SendTries
    BY <2>1, <2>7, <2>10, InvoicesAssumption
  <2> QED
    BY <2>1, <2>4, <2>11 DEF TurnTypeOK
<1> QED
  BY <1>1, <1>2

\* A payment more, and an answer less: of the invoices of a batch.
LEMMA PayTypes ==
  ASSUME PaidTypeOK, NEW batch, Range(batch) \subseteq Invoices, PayAll(batch)
  PROVE  /\ payments' \in [Invoices -> Nat]
         /\ \A i \in Invoices : payments'[i] = payments[i] + (IF i \in Range(batch) THEN 1 ELSE 0)
         /\ CanLose(batch) /\ LoseAll(batch) =>
              /\ lost' \in [Invoices -> 0..MaxLost]
              /\ \A i \in Invoices : lost'[i] = lost[i] + (IF i \in Range(batch) THEN 1 ELSE 0)
<1>1. \A i \in Invoices : payments[i] + (IF i \in Range(batch) THEN 1 ELSE 0) \in Nat
  BY DEF PaidTypeOK
<1>2. ASSUME CanLose(batch)
      PROVE  \A i \in Invoices : lost[i] + (IF i \in Range(batch) THEN 1 ELSE 0) \in 0..MaxLost
  BY <1>2, InvoicesAssumption DEF PaidTypeOK, CanLose
<1> QED
  BY <1>1, <1>2 DEF PayAll, LoseAll

\* A batch that is kept is the same batch.
LEMMA BatchKept ==
  ASSUME UNCHANGED <<owed, current>>
  PROVE  Batch' = Batch
BY DEF Batch

\* A batch is settled, tried again or given up: pay_invoices.
LEMMA TurnTypes ==
  ASSUME TypeOK, pc = "send"
  PROVE  /\ Settle => OwedTypeOK' /\ TurnTypeOK' /\ pc' \in {"rest", "send"}
         /\ Retry => OwedTypeOK' /\ TurnTypeOK' /\ pc' \in {"send", "aborted"}
         /\ NextInvoice => OwedTypeOK' /\ TurnTypeOK' /\ pc' \in {"rest", "send"}
         /\ UNCHANGED <<pc, owed, current, tries, position>> => OwedTypeOK' /\ TurnTypeOK'
<1>1. /\ current \in Keys /\ tries \in 1..SendTries /\ position \in 0..(Len(Batch) - 1)
      /\ Len(Batch) \in Nat /\ owed \in [Keys -> Seq(Invoices)]
  BY BatchIs DEF TypeOK
<1>2. ASSUME Settle PROVE OwedTypeOK' /\ TurnTypeOK' /\ pc' \in {"rest", "send"}
  <2>1. OwedTypeOK'
    BY <1>2, SettleIs DEF OwedTypeOK
  <2> QED
    BY <1>2, <2>1, PayNextTypes DEF Settle
<1>3. ASSUME Retry PROVE OwedTypeOK' /\ TurnTypeOK' /\ pc' \in {"send", "aborted"}
  <2>1. owed' = owed /\ position' = 0
    BY <1>3 DEF Retry
  <2>2. CASE tries > 1
    <3>1. tries' = tries - 1 /\ UNCHANGED <<pc, current>>
      BY <1>3, <2>2 DEF Retry
    <3> QED
      BY <1>1, <2>1, <2>2, <3>1, BatchKept, InvoicesAssumption DEF OwedTypeOK, TurnTypeOK
  <2>3. CASE ~(tries > 1)
    BY <1>1, <1>3, <2>1, <2>3 DEF Retry, OwedTypeOK, TurnTypeOK
  <2> QED
    BY <2>2, <2>3
<1>4. ASSUME NextInvoice PROVE OwedTypeOK' /\ TurnTypeOK' /\ pc' \in {"rest", "send"}
  <2>1. CASE position + 1 < Len(Batch)
    <3>1. position' = position + 1 /\ UNCHANGED <<pc, owed, current, tries>>
      BY <1>4, <2>1 DEF NextInvoice
    <3>2. Batch' = Batch
      BY <3>1, BatchKept
    <3> QED
      BY <1>1, <2>1, <3>1, <3>2 DEF OwedTypeOK, TurnTypeOK
  <2>2. CASE ~(position + 1 < Len(Batch))
    BY <1>2, <1>4, <2>2 DEF NextInvoice
  <2> QED
    BY <2>1, <2>2
<1>5. ASSUME UNCHANGED <<pc, owed, current, tries, position>> PROVE OwedTypeOK' /\ TurnTypeOK'
  BY <1>1, <1>5, BatchKept DEF OwedTypeOK, TurnTypeOK
<1> QED
  BY <1>2, <1>3, <1>4, <1>5

\* What a try of the JoinMarket distributor pays is one invoice of the batch.
LEMMA InvoiceIs ==
  ASSUME TypeOK, pc = "send"
  PROVE  Invoice = owed[current][position + 1] /\ Invoice \in Invoices /\ Range(<<Invoice>>) = {Invoice}
<1>1. position + 1 \in 1..Len(Batch)
  BY BatchIs DEF TypeOK
<1>2. Range(<<Invoice>>) = {Invoice}
  BY DEF Range
<1> QED
  BY <1>1, <1>2, BatchIs DEF Invoice

\* The variables keep their types: update_invoice_payments, pay_invoices, send.
LEMMA Types ==
  ASSUME TypeOK, [Next]_vars
  PROVE  TypeOK'
<1>1. RunTypeOK /\ OwedTypeOK /\ TurnTypeOK /\ PaidTypeOK
  BY TypeParts
<1>2. CASE UNCHANGED vars
  <2>1. Batch' = Batch
    BY <1>2, BatchKept DEF vars, payment
  <2> QED
    BY <1>1, <1>2, <2>1, NextTypeParts DEF vars, clock, payment, RunTypeOK, OwedTypeOK, TurnTypeOK, PaidTypeOK
<1>3. CASE Refresh \/ Rest \/ EndRun
  <2>1. RunTypeOK'
    <3>1. Blocks \in Nat /\ MaxRound \in Nat
      BY InvoicesAssumption
    <3>2. distributor' = distributor /\ pc' \in {"update", "loop", "ended"} /\ looping' \in BOOLEAN
      BY <1>1, <1>3 DEF Refresh, Rest, EndRun, RunTypeOK
    <3>3. block' \in block..Blocks \/ block' = block
      BY <1>3 DEF Refresh, Rest, EndRun, clock
    <3>4. round' \in round..MaxRound \/ round' = round
      BY <1>3 DEF Refresh, Rest, EndRun, clock
    <3> QED
      BY <1>1, <3>1, <3>2, <3>3, <3>4 DEF RunTypeOK
  <2>2. OwedTypeOK' /\ TurnTypeOK' /\ PaidTypeOK'
    BY <1>1, <1>3 DEF Refresh, Rest, EndRun, OwedTypeOK, TurnTypeOK, PaidTypeOK, payment
  <2> QED
    BY <2>1, <2>2, NextTypeParts
<1>4. CASE Update
  <2>1. OwedTypeOK' /\ PaidTypeOK' /\ PayNext(owed')
    BY <1>1, <1>4 DEF Update, OwedTypeOK, PaidTypeOK, PayNext, Unpaid
  <2>2. TurnTypeOK' /\ pc' \in {"rest", "send"}
    BY <2>1, PayNextTypes
  <2>3. RunTypeOK'
    BY <1>1, <1>4, <2>2 DEF Update, RunTypeOK, clock
  <2> QED
    BY <2>1, <2>2, <2>3, NextTypeParts
<1>5. CASE Send
  <2>1. pc = "send" /\ UNCHANGED <<distributor, looping, clock>>
    BY <1>5 DEF Send, BatchSent, BatchAnswerLost, BatchFails, DirectSend, DirectSendAnswerLost, DirectSendGivesUp
  <2>2. OwedTypeOK' /\ TurnTypeOK' /\ pc' \in {"rest", "send", "aborted"}
    BY <1>5, <2>1, TurnTypes
       DEF Send, BatchSent, BatchAnswerLost, BatchFails, DirectSend, DirectSendAnswerLost, DirectSendGivesUp
  <2>3. RunTypeOK'
    BY <1>1, <2>1, <2>2 DEF RunTypeOK, clock
  <2>4. Range(Batch) \subseteq Invoices /\ Range(<<Invoice>>) \subseteq Invoices
    BY <2>1, BatchIs, InvoiceIs
  <2>5. CASE UNCHANGED <<payments, lost>>
    BY <1>1, <2>2, <2>3, <2>5, NextTypeParts DEF PaidTypeOK
  <2>6. CASE \E batch \in {Batch, <<Invoice>>} :
               PayAll(batch) /\ (UNCHANGED lost \/ (CanLose(batch) /\ LoseAll(batch)))
    <3>1. PaidTypeOK'
      BY <1>1, <2>4, <2>6, PayTypes DEF PaidTypeOK
    <3> QED
      BY <2>2, <2>3, <3>1, NextTypeParts
  <2> QED
    BY <1>5, <2>5, <2>6
       DEF Send, BatchSent, BatchAnswerLost, BatchFails, DirectSend, DirectSendAnswerLost, DirectSendGivesUp
<1> QED
  BY <1>2, <1>3, <1>4, <1>5 DEF Next, Engine, Over

-----------------------------------------------------------------------------
(***************************************************************************)
(* What is owed, and what was paid.                                        *)
(***************************************************************************)
\* A batch is a stretch of its list.
LEMMA BatchPlaces ==
  ASSUME TypeOK, ListInv, pc = "send"
  PROVE  /\ Handled(current) \in Nat /\ Handled(current) + Len(Batch) <= Len(List(current))
         /\ \A k \in 1..Len(Batch) : Batch[k] = List(current)[Handled(current) + k]
         /\ Invoice = List(current)[Handled(current) + position + 1]
<1>1. /\ current \in Keys /\ Len(owed[current]) \in Nat /\ Len(Batch) \in 0..Len(owed[current])
      /\ \A k \in 1..Len(Batch) : Batch[k] = owed[current][k]
  BY BatchIs
<1>2. /\ Len(owed[current]) <= Len(List(current)) /\ Len(List(current)) \in Nat
      /\ \A k \in 1..Len(owed[current]) : owed[current][k] = List(current)[Handled(current) + k]
  BY <1>1, ListsAreKeyed DEF ListInv
<1>3. Handled(current) \in Nat /\ Handled(current) + Len(Batch) <= Len(List(current))
  BY <1>1, <1>2 DEF Handled
<1>4. \A k \in 1..Len(Batch) : Batch[k] = List(current)[Handled(current) + k]
  BY <1>1, <1>2
<1>5. position + 1 \in 1..Len(Batch)
  BY <1>1 DEF TypeOK
<1>6. Handled(current) + (position + 1) = Handled(current) + position + 1
  <2>1. position \in Int
    BY <1>1 DEF TypeOK
  <2> QED
    BY <1>3, <2>1
<1> QED
  BY <1>3, <1>4, <1>5, <1>6 DEF Invoice

\* Which places a payment of the batch, or of one invoice of it, is about.
LEMMA PlacesPaid ==
  ASSUME TypeOK, ListInv, pc = "send", NEW s \in Keys, NEW k \in 1..Len(List(s))
  PROVE  /\ List(s)[k] \in Range(Batch) <=>
              s = current /\ k \in Handled(current) + 1..Handled(current) + Len(Batch)
         /\ List(s)[k] \in Range(<<Invoice>>) <=> s = current /\ k = Handled(current) + position + 1
<1>1. /\ current \in Keys /\ Len(Batch) \in Nat /\ Range(Batch) = {Batch[j] : j \in 1..Len(Batch)}
      /\ Len(List(current)) \in Nat
  <2>1. /\ current \in Keys /\ Len(owed[current]) \in Nat /\ Len(Batch) \in 0..Len(owed[current])
        /\ Range(Batch) = {Batch[j] : j \in 1..Len(Batch)}
    BY BatchIs
  <2>2. Len(List(current)) \in Nat
    BY <2>1, ListsAreKeyed
  <2> QED
    BY <2>1, <2>2
<1>2. /\ Handled(current) \in Nat /\ Handled(current) + Len(Batch) <= Len(List(current))
      /\ \A j \in 1..Len(Batch) : Batch[j] = List(current)[Handled(current) + j]
      /\ Invoice = List(current)[Handled(current) + position + 1]
  BY BatchPlaces
<1>3. ASSUME NEW j \in 1..Len(Batch), List(s)[k] = Batch[j] PROVE s = current /\ k = Handled(current) + j
  <2>1. Handled(current) + j \in 1..Len(List(current))
    BY <1>1, <1>2
  <2>2. List(s)[k] = List(current)[Handled(current) + j]
    BY <1>2, <1>3
  <2> QED
    BY <1>1, <2>1, <2>2, OnePlace
<1>4. ASSUME s = current, k \in Handled(current) + 1..Handled(current) + Len(Batch)
      PROVE  List(s)[k] \in Range(Batch)
  <2>1. k - Handled(current) \in 1..Len(Batch) /\ Handled(current) + (k - Handled(current)) = k
    BY <1>1, <1>2, <1>4
  <2>2. Batch[k - Handled(current)] = List(s)[k]
    BY <1>2, <1>4, <2>1
  <2> QED
    BY <1>1, <2>1, <2>2
<1>5. position + 1 \in 1..Len(Batch) /\ Handled(current) + (position + 1) = Handled(current) + position + 1
  BY <1>1, <1>2 DEF TypeOK
<1>6. Range(<<Invoice>>) = {Invoice} /\ Invoice = Batch[position + 1]
  BY InvoiceIs DEF Invoice
<1>7. List(s)[k] \in Range(Batch) => s = current /\ k \in Handled(current) + 1..Handled(current) + Len(Batch)
  BY <1>1, <1>2, <1>3
<1>8. List(s)[k] \in Range(<<Invoice>>) <=> s = current /\ k = Handled(current) + position + 1
  BY <1>2, <1>3, <1>5, <1>6
<1> QED
  BY <1>4, <1>7, <1>8

\* A settled batch is handled, and nothing else is.
LEMMA SettleHandles ==
  ASSUME TypeOK, ListInv, pc = "send", Settle
  PROVE  /\ ListInv'
         /\ \A s \in Keys : Handled(s)' = Handled(s) + (IF s = current THEN Len(Batch) ELSE 0)
         /\ position' = 0
<1>1. /\ current \in Keys /\ Len(Batch) \in 0..Len(owed[current]) /\ Len(owed[current]) \in Nat
      /\ Len(owed'[current]) = Len(owed[current]) - Len(Batch)
      /\ \A k \in 1..Len(owed'[current]) : owed'[current][k] = owed[current][Len(Batch) + k]
      /\ \A s \in Keys : s # current => owed'[s] = owed[s]
  BY BatchIs, SettleIs
<1>2. \A s \in Keys : Len(List(s)) \in Nat /\ Len(owed[s]) \in Nat
  BY ListsAreKeyed DEF TypeOK
<1>3. ASSUME NEW s \in Keys PROVE Handled(s)' = Handled(s) + (IF s = current THEN Len(Batch) ELSE 0)
  <2>1. Len(List(s)) \in Nat /\ Len(owed[s]) \in Nat
    BY <1>2
  <2>2. Len(Batch) \in Int /\ Len(owed'[s]) = Len(owed[s]) - (IF s = current THEN Len(Batch) ELSE 0)
    <3>1. CASE s = current
      BY <1>1, <3>1
    <3>2. CASE s # current
      BY <1>1, <2>1, <3>2
    <3> QED
      BY <3>1, <3>2
  <2> QED
    BY <2>1, <2>2 DEF Handled
<1>4. ASSUME NEW s \in Keys
      PROVE  /\ Len(owed'[s]) <= Len(List(s))
             /\ \A k \in 1..Len(owed'[s]) : owed'[s][k] = List(s)[Handled(s)' + k]
  <2>1. CASE s # current
    <3>1. owed'[s] = owed[s]
      BY <1>1, <2>1
    <3>2. Handled(s)' = Handled(s)
      BY <3>1 DEF Handled
    <3> QED
      BY <3>1, <3>2 DEF ListInv
  <2>2. CASE s = current
    <3>1. Handled(s) \in Int /\ Len(owed[s]) <= Len(List(s))
      <4>1. Len(List(s)) \in Nat /\ Len(owed[s]) \in Nat
        BY <1>2
      <4>2. Len(owed[s]) <= Len(List(s))
        BY DEF ListInv
      <4>3. Handled(s) \in Int
        BY <4>1 DEF Handled
      <4> QED
        BY <4>2, <4>3
    <3>2. ASSUME NEW k \in 1..Len(owed'[s]) PROVE owed'[s][k] = List(s)[Handled(s)' + k]
      <4>1. Len(Batch) + k \in 1..Len(owed[s]) /\ Handled(s) + (Len(Batch) + k) = Handled(s)' + k
        BY <1>1, <1>3, <2>2, <3>1
      <4> QED
        BY <1>1, <2>2, <4>1 DEF ListInv
    <3> QED
      BY <1>1, <2>2, <3>1, <3>2
  <2> QED
    BY <2>1, <2>2
<1>5. ListInv'
  BY <1>4 DEF ListInv
<1> QED
  BY <1>3, <1>5 DEF Settle, PayNext

\* What is owed of a list stays its end.
LEMMA ListSteps ==
  ASSUME TypeOK, ListInv, [Next]_vars
  PROVE  ListInv'
<1>1. CASE owed' = owed
  BY <1>1 DEF ListInv, Handled
<1>2. CASE pc = "send" /\ Settle
  BY <1>2, SettleHandles
<1> QED
  BY <1>1, <1>2
     DEF Next, Engine, Send, Over, Refresh, Rest, EndRun, Update, BatchSent, BatchAnswerLost, BatchFails, Retry,
         DirectSend, DirectSendAnswerLost, DirectSendGivesUp, NextInvoice, vars, payment

\* How many invoices of a list are owed no more, or were tried.
LEMMA CountsAreInts ==
  ASSUME TypeOK, NEW s \in Keys
  PROVE  Handled(s) \in Int /\ Tried(s) \in Int /\ position \in Nat
<1>1. position \in Nat
  BY BatchIs DEF TypeOK
<1>2. Len(List(s)) \in Nat
  BY ListsAreKeyed
<1>3. Len(owed[s]) \in Nat
  BY DEF TypeOK
<1>4. Handled(s) \in Int
  BY <1>2, <1>3 DEF Handled
<1> QED
  BY <1>1, <1>4 DEF Tried

\* A settled batch was tried to its end.
LEMMA SettleTries ==
  ASSUME TypeOK, ListInv, pc = "send", Settle, NEW s \in Keys
  PROVE  /\ Tried(s)' = Handled(s) + (IF s = current THEN Len(Batch) ELSE 0)
         /\ Tried(s)' >= Tried(s)
         /\ s = current => Tried(s)' >= Handled(s) + position + 1
<1>1. Handled(s)' = Handled(s) + (IF s = current THEN Len(Batch) ELSE 0) /\ position' = 0
  BY SettleHandles
<1>2. Handled(s) \in Int /\ Tried(s) \in Int /\ position \in Nat /\ Len(Batch) \in Int
  BY CountsAreInts, BatchIs
<1>3. position + 1 <= Len(Batch)
  BY <1>2 DEF TypeOK
<1>4. Tried(s)' = Handled(s)'
  BY <1>1, <1>2 DEF Tried
<1> QED
  BY <1>1, <1>2, <1>3, <1>4 DEF Tried

\* send goes on in the list: the invoice it comes from was tried.
LEMMA NextInvoiceTries ==
  ASSUME TypeOK, ListInv, pc = "send", NextInvoice, NEW s \in Keys
  PROVE  Tried(s)' >= Tried(s) /\ (s = current => Tried(s)' >= Handled(s) + position + 1)
<1>1. CASE position + 1 < Len(Batch)
  <2>1. position' = position + 1 /\ UNCHANGED <<owed, current>>
    BY <1>1 DEF NextInvoice
  <2>2. Handled(s)' = Handled(s)
    BY <2>1 DEF Handled
  <2>3. Handled(s) \in Int /\ position \in Nat
    BY CountsAreInts
  <2> QED
    BY <2>1, <2>2, <2>3 DEF Tried
<1>2. CASE ~(position + 1 < Len(Batch))
  BY <1>2, SettleTries DEF NextInvoice
<1> QED
  BY <1>1, <1>2

\* No step pays a place once more than its answers and their losses say, nor takes an
\* invoice off a list that the Wasabi distributor did not pay.
LEMMA PlaceSteps ==
  ASSUME TypeOK, ListInv, PaidInv, [Next]_vars, NEW s \in Keys, NEW k \in 1..Len(List(s))
  PROVE  /\ payments'[List(s)[k]] <= lost'[List(s)[k]] + (IF k <= Tried(s)' THEN 1 ELSE 0)
         /\ distributor' = "wasabi" /\ k <= Handled(s)' => payments'[List(s)[k]] > 0
<1> DEFINE i == List(s)[k]
<1>1. i \in Invoices /\ k \in Nat
  BY ListsAreKeyed
<1>2. payments[i] \in Nat /\ lost[i] \in Nat
  BY <1>1, InvoicesAssumption DEF TypeOK
<1>3. Handled(s) \in Int /\ Tried(s) \in Int /\ position \in Nat
  BY CountsAreInts
<1>4. /\ payments[i] <= lost[i] + (IF k <= Tried(s) THEN 1 ELSE 0)
      /\ distributor = "wasabi" /\ k <= Handled(s) => payments[i] > 0
  BY DEF PaidInv
<1>5. TypeOK' /\ distributor' = distributor
  BY Types DEF Next, Engine, Send, Over, Refresh, Rest, EndRun, Update, BatchSent, BatchAnswerLost, BatchFails,
     DirectSend, DirectSendAnswerLost, DirectSendGivesUp, vars
<1>6. Tried(s)' \in Int /\ Handled(s)' \in Int
  <2>1. (TypeOK => Handled(s) \in Int /\ Tried(s) \in Int)'
    BY CountsAreInts, PTL
  <2> QED
    BY <1>5, <2>1
<1>7. CASE UNCHANGED <<payments, lost, owed>> /\ ((position' = position /\ current' = current) \/ (position' = 0 /\ position = 0))
  <2>1. Handled(s)' = Handled(s)
    BY <1>7 DEF Handled
  <2>2. Tried(s)' = Tried(s)
    BY <1>7, <2>1 DEF Tried
  <2> QED
    BY <1>3, <1>4, <1>5, <1>7, <2>1, <2>2
<1>8. ASSUME pc = "send"
      PROVE  Range(Batch) \subseteq Invoices /\ Range(<<Invoice>>) \subseteq Invoices /\ PaidTypeOK /\ current \in Keys
             /\ Len(Batch) \in Nat
  BY <1>8, BatchIs, InvoiceIs, TypeParts
<1>9. CASE BatchSent
  <2>1. pc = "send" /\ distributor = "wasabi" /\ PayAll(Batch) /\ Settle /\ lost' = lost
    BY <1>9 DEF BatchSent
  <2>2. payments'[i] = payments[i] + (IF i \in Range(Batch) THEN 1 ELSE 0)
    BY <1>1, <1>8, <2>1, PayTypes
  <2>3. Handled(s)' = Handled(s) + (IF s = current THEN Len(Batch) ELSE 0) /\ Tried(s)' = Handled(s)'
    BY <2>1, SettleHandles, SettleTries
  <2>4. i \in Range(Batch) <=> s = current /\ k \in Handled(current) + 1..Handled(current) + Len(Batch)
    BY <2>1, PlacesPaid
  <2>5. Tried(s) = Handled(s)
    BY <1>3, <2>1 DEF Tried, PaidInv
  <2>6. CASE i \in Range(Batch)
    BY <1>1, <1>2, <1>3, <1>4, <1>8, <2>1, <2>2, <2>3, <2>4, <2>5, <2>6
  <2>7. CASE i \notin Range(Batch)
    BY <1>1, <1>2, <1>3, <1>4, <1>8, <2>1, <2>2, <2>3, <2>4, <2>5, <2>7
  <2> QED
    BY <2>6, <2>7
<1>10. CASE BatchAnswerLost
  <2>1. pc = "send" /\ distributor = "wasabi" /\ CanLose(Batch) /\ LoseAll(Batch) /\ PayAll(Batch)
        /\ owed' = owed /\ position' = 0
    BY <1>10 DEF BatchAnswerLost, Retry
  <2>2. /\ payments'[i] = payments[i] + (IF i \in Range(Batch) THEN 1 ELSE 0)
        /\ lost'[i] = lost[i] + (IF i \in Range(Batch) THEN 1 ELSE 0)
    BY <1>1, <1>8, <2>1, PayTypes
  <2>3. Handled(s)' = Handled(s)
    BY <2>1 DEF Handled
  <2>4. Tried(s) = Handled(s) /\ Tried(s)' = Handled(s)
    BY <1>3, <2>1, <2>3 DEF Tried, PaidInv
  <2> QED
    BY <1>1, <1>2, <1>3, <1>4, <1>5, <2>2, <2>3, <2>4
<1>11. CASE DirectSend
  <2>1. pc = "send" /\ distributor = "joinmarket" /\ PayAll(<<Invoice>>) /\ NextInvoice /\ lost' = lost
    BY <1>11 DEF DirectSend
  <2>2. payments'[i] = payments[i] + (IF i \in Range(<<Invoice>>) THEN 1 ELSE 0)
    BY <1>1, <1>8, <2>1, PayTypes
  <2>3. i \in Range(<<Invoice>>) <=> s = current /\ k = Handled(current) + position + 1
    BY <2>1, PlacesPaid
  <2>4. Tried(s)' >= Tried(s) /\ (s = current => Tried(s)' >= Handled(s) + position + 1)
    BY <2>1, NextInvoiceTries
  <2>5. CASE i \in Range(<<Invoice>>)
    <3>1. k <= Tried(s)' /\ ~(k <= Tried(s))
      BY <1>1, <1>3, <1>6, <2>3, <2>4, <2>5 DEF Tried
    <3> QED
      BY <1>2, <1>4, <1>5, <2>1, <2>2, <2>5, <3>1
  <2>6. CASE i \notin Range(<<Invoice>>)
    <3>1. payments' [i] = payments[i] /\ lost'[i] = lost[i]
      BY <1>2, <2>1, <2>2, <2>6
    <3> QED
      BY <1>1, <1>2, <1>3, <1>4, <1>5, <1>6, <2>1, <2>4, <3>1
  <2> QED
    BY <2>5, <2>6
<1>12. CASE DirectSendAnswerLost
  <2>1. /\ pc = "send" /\ distributor = "joinmarket" /\ UNCHANGED <<owed, position, current>>
        /\ CanLose(<<Invoice>>) /\ LoseAll(<<Invoice>>) /\ PayAll(<<Invoice>>)
    BY <1>12 DEF DirectSendAnswerLost
  <2>2. /\ payments'[i] = payments[i] + (IF i \in Range(<<Invoice>>) THEN 1 ELSE 0)
        /\ lost'[i] = lost[i] + (IF i \in Range(<<Invoice>>) THEN 1 ELSE 0)
    BY <1>1, <1>8, <2>1, PayTypes
  <2>3. Tried(s)' = Tried(s)
    BY <2>1 DEF Handled, Tried
  <2> QED
    BY <1>1, <1>2, <1>3, <1>4, <1>5, <2>1, <2>2, <2>3
<1>13. CASE DirectSendGivesUp
  <2>1. pc = "send" /\ distributor = "joinmarket" /\ NextInvoice /\ UNCHANGED <<payments, lost>>
    BY <1>13 DEF DirectSendGivesUp
  <2>2. Tried(s)' >= Tried(s)
    BY <2>1, NextInvoiceTries
  <2> QED
    BY <1>1, <1>2, <1>3, <1>4, <1>5, <1>6, <2>1, <2>2
<1>14. CASE BatchFails
  BY <1>7, <1>14 DEF BatchFails, Retry, PaidInv, TypeOK
<1>15. CASE Update
  BY <1>7, <1>15 DEF Update, PayNext, TypeOK
<1>16. CASE Refresh \/ Rest \/ EndRun \/ Over \/ UNCHANGED vars
  <2>1. UNCHANGED payment
    BY <1>16 DEF Refresh, Rest, EndRun, Over, vars
  <2>2. UNCHANGED <<payments, lost, owed>> /\ position' = position /\ current' = current
    BY <2>1 DEF payment
  <2> QED
    BY <1>7, <2>2
<1> QED
  BY <1>9, <1>10, <1>11, <1>12, <1>13, <1>14, <1>15, <1>16 DEF Next, Engine, Send

\* Nor does any other list's place, and only the JoinMarket distributor is between two
\* invoices of a batch.
LEMMA PaidSteps ==
  ASSUME TypeOK, ListInv, PaidInv, [Next]_vars
  PROVE  PaidInv'
<1>1. position' > 0 => distributor' = "joinmarket"
  <2>1. CASE Engine \/ Over \/ UNCHANGED vars
    BY <2>1 DEF Engine, Over, Refresh, Rest, EndRun, Update, PayNext, vars, payment, PaidInv
  <2>2. CASE Send
    <3>1. CASE distributor = "joinmarket"
      BY <2>2, <3>1
         DEF Send, BatchSent, BatchAnswerLost, BatchFails, DirectSend, DirectSendAnswerLost, DirectSendGivesUp
    <3>2. CASE distributor # "joinmarket"
      BY <2>2, <3>2
         DEF Send, BatchSent, BatchAnswerLost, BatchFails, DirectSend, DirectSendAnswerLost, DirectSendGivesUp,
             Settle, Retry, PayNext
    <3> QED
      BY <3>1, <3>2
  <2> QED
    BY <2>1, <2>2 DEF Next
<1> QED
  BY <1>1, PlaceSteps DEF PaidInv

-----------------------------------------------------------------------------
(***************************************************************************)
(* The theorems.                                                           *)
(***************************************************************************)
\* The schedule that prepare_invoices leaves satisfies the invariant.
LEMMA InitIInv == Init => IInv
<1> SUFFICES ASSUME Init PROVE IInv
  OBVIOUS
<1>1. TypeOK
  <2>1. RunTypeOK
    <3>1. Blocks \in Nat /\ MaxRound \in Nat
      BY InvoicesAssumption
    <3>2. looping \in BOOLEAN
      BY Zenon DEF Init
    <3> QED
      BY <3>1, <3>2 DEF Init, RunTypeOK
  <2>2. OwedTypeOK
    BY ListsAreKeyed DEF Init, OwedTypeOK, List
  <2>3. TurnTypeOK /\ PaidTypeOK
    BY InvoicesAssumption DEF Init, TurnTypeOK, PaidTypeOK
  <2> QED
    BY <2>1, <2>2, <2>3, TypeParts
<1>2. \A s \in Keys : owed[s] = List(s) /\ Handled(s) = 0
  BY ListsAreKeyed DEF Init, List, Handled
<1>3. ASSUME NEW s \in Keys
      PROVE  Len(owed[s]) <= Len(List(s)) /\ \A k \in 1..Len(owed[s]) : owed[s][k] = List(s)[Handled(s) + k]
  <2>1. Len(List(s)) \in Nat
    BY ListsAreKeyed
  <2> QED
    BY <1>2, <2>1
<1>4. PaidInv
  <2>1. \A s \in Keys : \A k \in 1..Len(List(s)) : List(s)[k] \in Invoices
    BY ListsAreKeyed
  <2>2. ASSUME NEW s \in Keys PROVE Tried(s) = 0
    BY <1>2 DEF Init, Tried
  <2>3. ASSUME NEW s \in Keys, NEW k \in 1..Len(List(s))
        PROVE  payments[List(s)[k]] = 0 /\ lost[List(s)[k]] = 0 /\ ~(k <= Handled(s)) /\ ~(k <= Tried(s))
    <3>1. Len(List(s)) \in Nat
      BY ListsAreKeyed
    <3>2. k > 0
      BY <3>1
    <3> QED
      BY <1>2, <2>1, <2>2, <3>2 DEF Init
  <2> QED
    BY <2>3 DEF Init, PaidInv
<1> QED
  BY <1>1, <1>3, <1>4 DEF IInv, ListInv

\* No step of the engine or of a distributor breaks it.
LEMMA NextIInv == IInv /\ [Next]_vars => IInv'
BY Types, ListSteps, PaidSteps DEF IInv

\* The invariant of the funding of the wallets: in every state.
THEOREM Invariant == Spec => []IInv
BY InitIInv, NextIInv, PTL DEF Spec

\* The variables keep their types.
THEOREM TypeCorrect == Spec => []TypeOK
<1>1. IInv => TypeOK
  BY DEF IInv
<1> QED
  BY Invariant, <1>1, PTL

\* pay_invoices and send pay an invoice again only after a payment whose answer was lost.
THEOREM PaidOnceIfAnswered == Spec => []PaidAgainOnlyIfLost
<1>1. IInv => PaidAgainOnlyIfLost
  <2> SUFFICES ASSUME IInv, NEW i \in Invoices PROVE payments[i] <= 1 + lost[i]
    BY DEF PaidAgainOnlyIfLost
  <2>1. PICK s \in Keys : \E k \in 1..Len(List(s)) : i = List(s)[k]
    BY ListsAreKeyed
  <2>2. PICK k \in 1..Len(List(s)) : i = List(s)[k]
    BY <2>1
  <2>3. payments[i] <= lost[i] + (IF k <= Tried(s) THEN 1 ELSE 0)
    BY <2>2 DEF IInv, PaidInv
  <2>4. payments[i] \in Nat /\ lost[i] \in Nat
    BY InvoicesAssumption DEF IInv, TypeOK
  <2> QED
    BY <2>3, <2>4
<1> QED
  BY Invariant, <1>1, PTL

\* "Keep the invoices scheduled until payment succeeds", of a distributor that reports
\* its failures: what update_invoice_payments says, and what only the Wasabi distributor
\* lets it do.
THEOREM KeptIfReported == Spec => [](distributor = "wasabi" => KeptUntilPaid)
<1>1. IInv => (distributor = "wasabi" => KeptUntilPaid)
  <2> SUFFICES ASSUME IInv, distributor = "wasabi", NEW i \in Invoices, ~(payments[i] > 0)
               PROVE  Scheduled(i)
    BY DEF KeptUntilPaid
  <2>1. PICK s \in Keys : \E k \in 1..Len(List(s)) : i = List(s)[k]
    BY ListsAreKeyed
  <2>2. PICK k \in 1..Len(List(s)) : i = List(s)[k]
    BY <2>1
  <2>3. ~(k <= Handled(s))
    BY <2>2 DEF IInv, PaidInv
  <2>4. owed[s] \in Seq(Invoices)
    BY DEF IInv, TypeOK
  <2>5. Len(owed[s]) \in Nat /\ DOMAIN owed[s] = 1..Len(owed[s])
    BY <2>4
  <2>6. Handled(s) \in Int /\ Len(List(s)) \in Nat /\ Len(owed[s]) = Len(List(s)) - Handled(s)
    <3>1. Len(List(s)) \in Nat
      BY ListsAreKeyed
    <3> QED
      BY <2>5, <3>1 DEF Handled
  <2>7. k - Handled(s) \in 1..Len(owed[s]) /\ Handled(s) + (k - Handled(s)) = k
    BY <2>3, <2>5, <2>6
  <2>8. owed[s][k - Handled(s)] = i
    BY <2>2, <2>7 DEF IInv, ListInv
  <2> QED
    BY <2>5, <2>7, <2>8 DEF Scheduled, Range
<1> QED
  BY Invariant, <1>1, PTL

\* A step of the schedule is one of the promise: what is paid was scheduled, and what
\* leaves the schedule of a distributor that reports its failures was paid.
LEMMA StepImplements ==
  ASSUME IInv, [Next]_vars
  PROVE  [Promise!Next]_<<distributor = "wasabi", {i \in Invoices : Scheduled(i)}, payments>>
<1> DEFINE reliable == distributor = "wasabi"
           scheduled == {i \in Invoices : Scheduled(i)}
<1>1. TypeOK
  BY DEF IInv
<1>2. distributor' = distributor
  BY DEF Next, Engine, Send, Over, Refresh, Rest, EndRun, Update, BatchSent, BatchAnswerLost, BatchFails,
     DirectSend, DirectSendAnswerLost, DirectSendGivesUp, vars
<1>3. CASE UNCHANGED <<payments, owed>>
  BY <1>2, <1>3 DEF Scheduled
<1>4. ASSUME pc = "send", NEW i \in Range(Batch) PROVE i \in scheduled
  <2>1. PICK k \in 1..Len(Batch) : i = owed[current][k]
    BY <1>1, <1>4, BatchIs
  <2>2. k \in DOMAIN owed[current] /\ current \in Keys /\ i \in Invoices
    BY <1>1, <1>4, <2>1, BatchIs
  <2> QED
    BY <2>1, <2>2 DEF Scheduled, Range
<1>5. ASSUME pc = "send", Settle, NEW i \in Invoices
      PROVE  /\ Scheduled(i)' => Scheduled(i)
             /\ Scheduled(i) /\ ~Scheduled(i)' => i \in Range(Batch)
  <2>1. /\ current \in Keys /\ Len(owed[current]) \in Nat /\ Len(Batch) \in 0..Len(owed[current])
        /\ DOMAIN owed[current] = 1..Len(owed[current]) /\ Range(Batch) = {Batch[k] : k \in 1..Len(Batch)}
        /\ \A k \in 1..Len(Batch) : Batch[k] = owed[current][k]
    BY <1>1, <1>5, BatchIs
  <2>2. /\ owed' \in [Keys -> Seq(Invoices)]
        /\ Len(owed'[current]) = Len(owed[current]) - Len(Batch)
        /\ \A k \in 1..Len(owed'[current]) : owed'[current][k] = owed[current][Len(Batch) + k]
        /\ \A s \in Keys : s # current => owed'[s] = owed[s]
    BY <1>1, <1>5, SettleIs
  <2>3. DOMAIN owed'[current] = 1..Len(owed'[current])
    BY <2>1, <2>2
  <2>4. ASSUME NEW k \in DOMAIN owed'[current], i = owed'[current][k] PROVE Scheduled(i)
    <3>1. Len(Batch) + k \in DOMAIN owed[current] /\ i = owed[current][Len(Batch) + k]
      BY <2>1, <2>2, <2>3, <2>4
    <3> QED
      BY <2>1, <3>1 DEF Scheduled, Range
  <2>5. ASSUME NEW k \in DOMAIN owed[current], i = owed[current][k], i \notin Range(Batch) PROVE Scheduled(i)'
    <3>1. ~(k <= Len(Batch))
      BY <2>1, <2>5
    <3>2. k - Len(Batch) \in 1..Len(owed'[current]) /\ Len(Batch) + (k - Len(Batch)) = k
      BY <2>1, <2>2, <2>5, <3>1
    <3>3. i = owed'[current][k - Len(Batch)]
      BY <2>2, <2>5, <3>2
    <3> QED
      BY <2>1, <2>3, <3>2, <3>3 DEF Scheduled, Range
  <2>6. Scheduled(i)' => Scheduled(i)
    <3> SUFFICES ASSUME NEW s \in Keys, i \in Range(owed'[s]) PROVE Scheduled(i)
      BY DEF Scheduled
    <3> QED
      BY <2>2, <2>4 DEF Scheduled, Range
  <2>7. Scheduled(i) /\ i \notin Range(Batch) => Scheduled(i)'
    <3> SUFFICES ASSUME NEW s \in Keys, i \in Range(owed[s]), i \notin Range(Batch) PROVE Scheduled(i)'
      BY DEF Scheduled
    <3> QED
      BY <2>2, <2>5 DEF Scheduled, Range
  <2> QED
    BY <2>6, <2>7
<1>6. ASSUME pc = "send", owed' = owed \/ Settle, NEW paid \in SUBSET scheduled,
             payments' = [i \in Invoices |-> payments[i] + (IF i \in paid THEN 1 ELSE 0)],
             distributor = "wasabi" /\ Settle => paid = Range(Batch)
      PROVE  Promise!Next
  <2> DEFINE settled == {i \in scheduled : ~Scheduled(i)'}
  <2>1. \A i \in Invoices : Scheduled(i)' => Scheduled(i)
    BY <1>5, <1>6 DEF Scheduled
  <2>2. scheduled' = scheduled \ settled /\ settled \in SUBSET scheduled
    BY <2>1
  <2>3. ASSUME distributor = "wasabi", NEW i \in settled PROVE payments'[i] > 0
    <3>1. i \in Invoices /\ Scheduled(i) /\ ~Scheduled(i)'
      OBVIOUS
    <3>2. Settle
      BY <1>6, <3>1 DEF Scheduled
    <3>3. i \in paid
      BY <1>5, <1>6, <2>3, <3>1, <3>2
    <3>4. payments[i] \in Nat /\ payments'[i] = payments[i] + 1
      BY <1>1, <1>6, <3>1, <3>3 DEF TypeOK
    <3> QED
      BY <3>4
  <2> HIDE DEF scheduled, settled
  <2>4. /\ payments' = [i \in Invoices |-> payments[i] + (IF i \in paid THEN 1 ELSE 0)]
        /\ scheduled' = scheduled \ settled
        /\ reliable => \A i \in settled : payments'[i] > 0
        /\ reliable' = reliable
    BY <1>2, <1>6, <2>2, <2>3
  <2>5. \E p, q \in SUBSET scheduled :
          /\ payments' = [i \in Invoices |-> payments[i] + (IF i \in p THEN 1 ELSE 0)]
          /\ scheduled' = scheduled \ q
          /\ reliable => \A i \in q : payments'[i] > 0
          /\ reliable' = reliable
    BY <1>6, <2>2, <2>4
  <2> QED
    BY <2>5 DEF Promise!Next, scheduled
<1>7. CASE UNCHANGED payments /\ pc = "send" /\ (owed' = owed \/ Settle) /\ ~(distributor = "wasabi" /\ Settle)
  <2>1. payments \in [Invoices -> Nat]
    BY <1>1 DEF TypeOK
  <2>2. payments' = [i \in Invoices |-> payments[i] + (IF i \in {} THEN 1 ELSE 0)]
    BY <1>7, <2>1
  <2>3. {} \in SUBSET scheduled
    OBVIOUS
  <2>4. Promise!Next
    <3> HIDE DEF scheduled
    <3> QED
      BY <1>6, <1>7, <2>2, <2>3
  <2> QED
    BY <2>4
<1>8. ASSUME pc = "send", PayAll(Batch), owed' = owed \/ Settle PROVE Promise!Next
  BY <1>4, <1>6, <1>8 DEF PayAll
<1>9. ASSUME pc = "send", PayAll(<<Invoice>>), owed' = owed \/ Settle, distributor # "wasabi" PROVE Promise!Next
  <2>1. Range(<<Invoice>>) \subseteq Range(Batch)
    <3>1. Range(Batch) = {Batch[k] : k \in 1..Len(Batch)} /\ Len(Batch) \in Int
      BY <1>1, <1>9, BatchIs
    <3>2. position + 1 \in 1..Len(Batch)
      BY <1>1, <1>9, <3>1 DEF TypeOK
    <3> QED
      BY <1>1, <1>9, <3>1, <3>2, InvoiceIs DEF Invoice
  <2> QED
    BY <1>4, <1>6, <1>9, <2>1 DEF PayAll
<1>10. CASE BatchSent
  BY <1>8, <1>10 DEF BatchSent
<1>11. CASE BatchAnswerLost
  BY <1>8, <1>11 DEF BatchAnswerLost, Retry
<1>12. CASE DirectSend
  BY <1>9, <1>12 DEF DirectSend, NextInvoice
<1>13. CASE DirectSendAnswerLost
  BY <1>9, <1>13 DEF DirectSendAnswerLost
<1>14. CASE DirectSendGivesUp
  BY <1>7, <1>14 DEF DirectSendGivesUp, NextInvoice
<1>15. CASE UNCHANGED <<payments, owed>>
  BY <1>3, <1>15
<1> QED
  BY <1>10, <1>11, <1>12, <1>13, <1>14, <1>15
     DEF Next, Engine, Send, Over, Refresh, Rest, EndRun, Update, BatchFails, Retry, vars, payment

\* The funding of the wallets keeps the promise of module Funding, whatever the
\* distributor and whatever fails: update_invoice_payments, pay_invoices.
THEOREM KeepsPromise == Spec => ImplementsFunding
<1>1. Init => Promise!Init
  <2> SUFFICES ASSUME Init PROVE Promise!Init
    OBVIOUS
  <2>1. \A i \in Invoices : Scheduled(i)
    BY DEF Init, Scheduled, Invoices
  <2> QED
    BY <2>1 DEF Init, Promise!Init
<1>2. IInv /\ [Next]_vars => [Promise!Next]_<<distributor = "wasabi", {i \in Invoices : Scheduled(i)}, payments>>
  BY StepImplements
<1> QED
  BY Invariant, <1>1, <1>2, PTL DEF Spec, ImplementsFunding, Promise!Spec
===============================================================================
