--------------------------- MODULE TakerRoundsProofs ---------------------------
(***************************************************************************)
(* Theorems about TakerRounds, for every set of takers and every bound.    *)
(*                                                                         *)
(* The argument.  TypeOK gives the shape of the state.  RecordInv ties     *)
(* the records to what jmwalletd and the chain know of them.  From both    *)
(* follow that a scan loses no round (PendingIsUnscanned), that a          *)
(* confirmed record names its transaction, that a taker has one pending    *)
(* attempt and that only attempts past their timeout are failed.           *)
(*                                                                         *)
(* What becomes of the rounds: EventSteps says how a step can change a     *)
(* record at all.  The limits follow by counting the confirmed records     *)
(* together with the pending ones: a scan moves records from the latter to *)
(* the former, and only a taker with none pending adds one.  The labels    *)
(* follow from RecordInv, as no record has a match that is not mined.      *)
(*                                                                         *)
(* When an attempt is settled: while it is open the clock and the round    *)
(* count only grow, and no other attempt of its taker is confirmed.  So a  *)
(* taker that may start one is not paused until it is settled, unless its  *)
(* schedule stops (SettleInv), and every update reaches the timeout check. *)
(***************************************************************************)
EXTENDS TakerRounds, FiniteSetTheorems, TLAPS

(***************************************************************************)
(* Reconciliation of one record.                                           *)
(***************************************************************************)

\* AddMatches keeps a record a record; it moves the status only to the two
\* statuses of a match, and only if there is one.
LEMMA AddMatchesType ==
  ASSUME NEW e \in Event, NEW txs \in SUBSET Txs
  PROVE  /\ AddMatches(e, txs) \in Event
         /\ AddMatches(e, txs).matches = e.matches \cup txs
         /\ AddMatches(e, txs).destination = e.destination
         /\ AddMatches(e, txs).start_block = e.start_block
         /\ AddMatches(e, txs).stop_block = e.stop_block
         /\ AddMatches(e, txs).execution_status = e.execution_status
         /\ txs = {} => AddMatches(e, txs).status = e.status
         /\ txs # {} => AddMatches(e, txs).status \in {"confirmed", "multiple_matches", "duplicate_destination"}
         /\ txs # {} /\ AddMatches(e, txs).status = "confirmed" =>
              \E tx \in Txs : AddMatches(e, txs).matches = {tx}
         /\ e.status # "duplicate_destination" => AddMatches(e, txs).status # "duplicate_destination"
<1> DEFINE found == e.matches \cup txs
           status == IF txs = {} THEN e.status ELSE MatchedStatus(e.status, found)
<1>1. AddMatches(e, txs) = Revised(e, status, e.execution_status, e.stop_block, found)
  BY DEF AddMatches
<1>2. found \in SUBSET Txs /\ status \in EventStatuses \cup {"none"}
  BY DEF Event, EventStatuses, MatchedStatus
<1>3. /\ AddMatches(e, txs) \in Event
      /\ AddMatches(e, txs).matches = found
      /\ AddMatches(e, txs).status = status
      /\ AddMatches(e, txs).destination = e.destination
      /\ AddMatches(e, txs).start_block = e.start_block
      /\ AddMatches(e, txs).stop_block = e.stop_block
      /\ AddMatches(e, txs).execution_status = e.execution_status
  <2> HIDE DEF found, status
  <2> QED BY <1>1, <1>2 DEF Event, Revised
<1>4. QED
  BY <1>2, <1>3 DEF MatchedStatus, Event

\* A pending record has exactly the matches it is given, and any of them settles it.
LEMMA AddMatchesToPending ==
  ASSUME NEW e \in Event, e.status = "started", e.matches = {}, NEW txs \in SUBSET Txs
  PROVE  /\ AddMatches(e, txs).destination = e.destination
         /\ AddMatches(e, txs).start_block = e.start_block
         /\ AddMatches(e, txs).stop_block = e.stop_block
         /\ AddMatches(e, txs).matches = txs
         /\ AddMatches(e, txs).status \in {"started", "confirmed", "multiple_matches"}
         /\ AddMatches(e, txs).status = "started" => txs = {}
         /\ AddMatches(e, txs).status = "confirmed" =>
              \E tx \in Txs : AddMatches(e, txs).matches = {tx}
<1>1. /\ AddMatches(e, txs).destination = e.destination
      /\ AddMatches(e, txs).start_block = e.start_block
      /\ AddMatches(e, txs).stop_block = e.stop_block
  BY AddMatchesType
<1>2. AddMatches(e, txs).matches = txs
  BY DEF AddMatches, Revised
<1>3. /\ txs = {} => AddMatches(e, txs).status = "started"
      /\ txs # {} => AddMatches(e, txs).status \in {"confirmed", "multiple_matches"}
      /\ txs # {} /\ AddMatches(e, txs).status = "confirmed" =>
           \E tx \in Txs : AddMatches(e, txs).matches = {tx}
  BY AddMatchesType
<1>4. QED
  BY <1>1, <1>2, <1>3

\* Marking a record failed keeps it a record, and touches neither its matches
\* nor its destination nor its start.
LEMMA MarkFailedType ==
  ASSUME NEW e \in Event, NEW block \in Nat
  PROVE  /\ MarkFailed(e, block) \in Event
         /\ MarkFailed(e, block).status = "failed"
         /\ MarkFailed(e, block).stop_block = block
         /\ MarkFailed(e, block).start_block = e.start_block
         /\ MarkFailed(e, block).destination = e.destination
         /\ MarkFailed(e, block).matches = e.matches
         /\ MarkFailed(e, block).execution_status =
              IF e.execution_status = "started" THEN "failed" ELSE e.execution_status
  BY DEF MarkFailed, Revised, Event, EventStatuses, ExecutionStatuses

\* The destinations are pairs of a taker and an attempt, none is "no destination".
LEMMA DestinationPairs ==
  ASSUME NEW d \in Destinations
  PROVE  d[1] \in Takers /\ d[2] \in Attempts /\ d = <<d[1], d[2]>> /\ d # NoDestination
  BY DEF Destinations, NoDestination

\* A set of destinations has finitely many members.
LEMMA DestinationsFinite == IsFiniteSet(Destinations)
<1>1. IsFiniteSet(Attempts)
  BY ConstantsAssumption, FS_Interval DEF Attempts
<1>2. QED
  BY <1>1, ConstantsAssumption, FS_Product DEF Destinations

\* Every record of the run names its own destination, so none is shared.
OwnDestinations == \A d \in Destinations : events[d].status # "none" => events[d].destination = d

(* A scan changes a record by the matches it adds, and nothing else:       *)
(* _reconcile_block_events.                                                *)
LEMMA ScanRecord ==
  ASSUME TypeOK, OwnDestinations, NEW h, NEW d \in Destinations
  PROVE  /\ DOMAIN ScanUpTo(h) = Destinations
         /\ d \notin Pending(events) => ScanUpTo(h)[d] = events[d]
         /\ d \in Pending(events) =>
              ScanUpTo(h)[d] = AddMatches(events[d], Paying(MinedBetween(scanHeight, h), d))
<1>1. DOMAIN events = Destinations
  BY DEF TypeOK
<1>2. d \in Pending(events) => events[d].destination = d /\ d # NoDestination
  BY DestinationPairs DEF Pending, OwnDestinations
<1>3. d \in Pending(events) => ~SharesDestination(events, Pending(events), NoDestination, d)
  BY <1>2 DEF SharesDestination, Pending, OwnDestinations
<1>4. QED
  BY <1>1, <1>2, <1>3 DEF ScanUpTo, Reconcile

(* A scan keeps the records records.                                       *)
LEMMA ScanType ==
  ASSUME TypeOK, OwnDestinations, NEW h
  PROVE  ScanUpTo(h) \in [Destinations -> Event]
<1>1. ASSUME NEW d \in Destinations PROVE ScanUpTo(h)[d] \in Event
  <2>1. Paying(MinedBetween(scanHeight, h), d) \in SUBSET Txs
    BY DEF Paying, MinedBetween
  <2>2. events[d] \in Event
    BY DEF TypeOK
  <2>3. QED
    BY <2>1, <2>2, ScanRecord, AddMatchesType
<1>2. DOMAIN ScanUpTo(h) = Destinations
  BY DEF ScanUpTo, Reconcile, TypeOK
<1>3. ScanUpTo(h) = [d \in Destinations |-> ScanUpTo(h)[d]]
  BY <1>2 DEF ScanUpTo, Reconcile
<1>4. QED
  BY <1>1, <1>3

(***************************************************************************)
(* The invariant.                                                          *)
(***************************************************************************)

\* The records of a taker are those of its first made[t] attempts; only a match
\* confirms one, and every match is a mined transaction paying its destination.
RecordInv ==
  /\ OwnDestinations
  /\ \A t \in Takers : \A i \in Attempts : events[<<t, i>>].status = "none" <=> made[t] < i
  /\ \A d \in Destinations :
       /\ events[d].status # "duplicate_destination"
       /\ events[d].status \in {"none", "started", "failed"} => events[d].matches = {}
       /\ events[d].status = "confirmed" => \E tx \in Txs : events[d].matches = {tx}
       /\ events[d].matches \subseteq Mined(d)

\* Updates run inside a gather; a start under way is that of the latest record, still
\* pending; coinjoin_start is its start; -1 is answered only past the timeout.
TaskInv ==
  \A t \in Takers :
    /\ task[t] = "none" <=> pc # "gather"
    /\ task[t] = "starting" => /\ made[t] > 0 /\ tries[t] > 0
                               /\ events[Latest(t)].status = "started"
    /\ timedOut[t] => task[t] = "done" /\ CoinjoinTimedOut(t)
    /\ made[t] > 0 => coinjoinStart[t] = events[Latest(t)].start_block
    /\ jm[t] # Idle => jm[t].attempt \in 1..made[t] /\ jm[t].request \in 1..StartTries

IInv ==
  /\ TypeOK
  /\ scanHeight <= height
  /\ RecordInv
  /\ TaskInv
  /\ RunsAreOnRecord
  /\ PendingIsUnscanned
  /\ OnePendingAttempt
  /\ FailedAfterTimeout

(* An engine that has not started, with no record and nothing mined.       *)
LEMMA InitIInv == Init => IInv
<1> SUFFICES ASSUME Init PROVE IInv
  OBVIOUS
<1>1. \A d \in Destinations : events[d] = Unrecorded
  BY DEF Init
<1>2. Unrecorded \in Event /\ Unrecorded.status = "none" /\ Unrecorded.matches = {}
  BY DEF Unrecorded, StartedEvent, Revised, Event, ExecutionStatuses
<1>3. TypeOK
  <2>1. \A t \in Takers : Wallets[t].delay_blocks \in Nat
    BY ConstantsAssumption DEF WalletConfig
  <2>2. QED
    BY <1>2, <2>1, ConstantsAssumption DEF Init, TypeOK, Idle
<1>4. RecordInv
  BY <1>1, <1>2 DEF RecordInv, OwnDestinations, Init, Attempts, Destinations
<1>5. TaskInv
  BY DEF TaskInv, Init
<1>6. RunsAreOnRecord /\ PendingIsUnscanned /\ OnePendingAttempt /\ FailedAfterTimeout
  BY <1>1, <1>2 DEF RunsAreOnRecord, PendingIsUnscanned, OnePendingAttempt, FailedAfterTimeout,
     Pending, EventsOf, Destinations, Init
<1>7. QED
  BY <1>3, <1>4, <1>5, <1>6 DEF IInv, Init

(***************************************************************************)
(* Type correctness of each step.                                          *)
(***************************************************************************)

\* Counting the confirmed rounds of any records gives a number.
LEMMA RoundCount == \A ev : ConfirmedRounds(ev) \in Nat
<1> TAKE ev
<1>1. Confirmed(ev) \subseteq Destinations
  BY DEF Confirmed
<1>2. IsFiniteSet(Confirmed(ev))
  BY <1>1, DestinationsFinite, FS_Subset
<1>3. QED
  BY <1>2, FS_CardinalityType DEF ConfirmedRounds

\* Recording the outcome of a start keeps the latest record a record.
LEMMA OutcomeType ==
  ASSUME TypeOK, NEW t \in Takers, made[t] > 0, NEW x \in ExecutionStatuses, Outcome(t, x)
  PROVE  /\ events' \in [Destinations -> Event]
         /\ task' \in [Takers -> {"none", "status", "starting", "done"}]
         /\ tries' = tries
<1>1. Latest(t) \in Destinations
  BY DEF TypeOK, Latest, Destinations, Attempts
<1>2. NoteExecution(events[Latest(t)], x) \in Event
  BY <1>1 DEF NoteExecution, Revised, Event, TypeOK
<1>3. QED
  BY <1>1, <1>2 DEF Outcome, Finish, TypeOK

(* A start that failed is tried again, or given up: the record and the     *)
(* tries left keep their types.                                            *)
LEMMA RetryType ==
  ASSUME TypeOK, NEW t \in Takers, made[t] > 0, RetryStart(t)
  PROVE  /\ events' \in [Destinations -> Event]
         /\ task' \in [Takers -> {"none", "status", "starting", "done"}]
         /\ tries' \in [Takers -> 0..StartTries]
<1>1. CASE tries[t] > 1
  <2>1. tries' = [tries EXCEPT ![t] = @ - 1] /\ task' = task /\ events' = events
    BY <1>1 DEF RetryStart
  <2>2. tries[t] - 1 \in 0..StartTries
    BY <1>1, ConstantsAssumption DEF TypeOK
  <2>3. QED
    BY <2>1, <2>2 DEF TypeOK
<1>2. CASE ~(tries[t] > 1)
  BY <1>2, OutcomeType DEF RetryStart, ExecutionStatuses, TypeOK
<1>3. QED
  BY <1>1, <1>2

(* jmwalletd runs the round the taker has asked for last.                  *)
LEMMA RunType ==
  ASSUME TypeOK, NEW t \in Takers, jm' = [jm EXCEPT ![t] = ThisRun(t)]
  PROVE  jm' \in [Takers -> [attempt : 0..MaxAttempts, request : 0..StartTries]]
  BY DEF TypeOK, ThisRun

(* A block mined keeps the types of the mempool and of what is mined.      *)
LEMMA MinedType ==
  ASSUME TypeOK, NEW included \in SUBSET mempool,
         minedAt' = [tx \in Txs |-> IF tx \in included THEN height + 1 ELSE minedAt[tx]],
         mempool' = mempool \ included
  PROVE  minedAt' \in [Txs -> Nat] /\ mempool' \subseteq Txs
  BY DEF TypeOK

(* The steps of the engine's main loop keep the types.                     *)
LEMMA EngineType == TypeOK /\ OwnDestinations /\ Engine => TypeOK'
<1> SUFFICES ASSUME TypeOK, OwnDestinations, Engine PROVE TypeOK'
  OBVIOUS
<1>1. CASE RefreshBlock \/ RefreshFails \/ LeaveLoop
  BY <1>1 DEF TypeOK, RefreshBlock, RefreshFails, LeaveLoop, takerVars, chainVars
<1>2. CASE ConfirmRounds
  <2>1. events' \in [Destinations -> Event]
    BY <1>2, ScanType DEF ConfirmRounds
  <2>2. currentRound' \in Nat
    BY <1>2, RoundCount DEF ConfirmRounds
  <2>3. QED
    BY <1>2, <2>1, <2>2 DEF TypeOK, ConfirmRounds, UpdateUnlessAtLimit, chainVars
<1>3. CASE ConfirmFails
  <2>1. events' \in [Destinations -> Event]
    BY <1>3, ScanType DEF ConfirmFails
  <2>2. QED
    BY <1>3, <2>1 DEF TypeOK, ConfirmFails, takerVars, chainVars
<1>4. CASE MarkTimedOut
  <2>1. events' \in [Destinations -> Event]
    BY <1>4, MarkFailedType DEF MarkTimedOut, TypeOK
  <2>2. QED
    BY <1>4, <2>1 DEF TypeOK, MarkTimedOut, chainVars
<1>5. CASE MineSettlement
  <2>1. minedAt' \in [Txs -> Nat] /\ mempool' \subseteq Txs
    BY <1>5, MinedType DEF MineSettlement
  <2>2. QED
    BY <1>5, <2>1 DEF TypeOK, MineSettlement, takerVars
<1>6. CASE StoreLabels
  <2>1. ASSUME NEW d \in Destinations PROVE labels'[d] \in Event
    <3>1. ~SharesDestination(events, Records, NoDestination, d) \/ d \notin Records
      BY DEF SharesDestination, Records, OwnDestinations
    <3>2. Paying(MinedBetween(0, height), events[d].destination) \in SUBSET Txs
      BY DEF Paying, MinedBetween
    <3>3. events[d] \in Event /\ DOMAIN events = Destinations
      BY DEF TypeOK
    <3>4. labels'[d] \in {events[d], AddMatches(events[d], Paying(MinedBetween(0, height), events[d].destination))}
      BY <1>6, <3>1, <3>3 DEF StoreLabels, Reconcile
    <3>5. QED
      BY <3>2, <3>3, <3>4, AddMatchesType
  <2>2. labels' = [d \in Destinations |-> labels'[d]]
    BY <1>6 DEF StoreLabels, Reconcile, TypeOK
  <2>3. labels' \in [Destinations -> Event]
    BY <2>1, <2>2
  <2>4. QED
    BY <1>6, <2>3 DEF TypeOK, StoreLabels, takerVars, chainVars
<1>7. QED
  BY <1>1, <1>2, <1>3, <1>4, <1>5, <1>6 DEF Engine

(* The steps of a taker's update keep the types.                           *)
LEMMA UpdateType == TypeOK /\ TaskInv /\ (\E t \in Takers : Update(t)) => TypeOK'
<1> SUFFICES ASSUME TypeOK, TaskInv, NEW t \in Takers, Update(t) PROVE TypeOK'
  OBVIOUS
<1>1. CASE AwaitMining(t)
  <2>1. CoinjoinTimedOut(t) \in BOOLEAN
    BY DEF CoinjoinTimedOut
  <2>2. timedOut' \in [Takers -> BOOLEAN]
    BY <1>1, <2>1, Zenon DEF AwaitMining, TypeOK
  <2>3. QED
    BY <1>1, <2>2 DEF AwaitMining, Finish, TypeOK, engineVars, chainVars
<1>2. CASE LeaveAlone(t) \/ AddressFails(t)
  BY <1>2 DEF LeaveAlone, AddressFails, Finish, TypeOK, engineVars, chainVars
<1>3. CASE RecordAttempt(t)
  <2>1. made[t] + 1 \in Attempts /\ made' \in [Takers -> 0..MaxAttempts]
    BY <1>3, ConstantsAssumption DEF RecordAttempt, TypeOK, Attempts
  <2>2. <<t, made[t] + 1>> \in Destinations
    BY <2>1 DEF Destinations
  <2>3. StartedEvent(<<t, made[t] + 1>>, currentBlock) \in Event
    BY <2>2 DEF StartedEvent, Event, EventStatuses, ExecutionStatuses, TypeOK
  <2>4. events' \in [Destinations -> Event]
    BY <1>3, <2>2, <2>3 DEF RecordAttempt, RecordStart, TypeOK
  <2>5. tries' \in [Takers -> 0..StartTries]
    BY <1>3, ConstantsAssumption DEF RecordAttempt, TypeOK
  <2>6. QED
    BY <1>3, <2>1, <2>4, <2>5 DEF RecordAttempt, TypeOK, engineVars, chainVars
<1>4. CASE StopAttempt(t)
  <2>1. timedOut' \in [Takers -> BOOLEAN]
    BY <1>4 DEF StopAttempt, TypeOK
  <2>2. jm' \in [Takers -> [attempt : 0..MaxAttempts, request : 0..StartTries]]
    BY <1>4, ConstantsAssumption DEF StopAttempt, TypeOK, Idle
  <2>3. currentBlock + Wallets[t].time_between_rounds \in Nat
    BY ConstantsAssumption DEF TypeOK, WalletConfig
  <2>4. nextAllowed' \in [Takers -> Nat]
    BY <1>4, <2>3 DEF StopAttempt, TypeOK
  <2>5. QED
    BY <1>4, <2>1, <2>2, <2>4 DEF StopAttempt, Finish, TypeOK, engineVars, chainVars
<1>5. CASE Acknowledged(t) \/ AnswerLost(t) \/ RequestFails(t) \/ AlreadyStarted(t)
  <2>1. made[t] > 0
    BY <1>5 DEF TaskInv, Acknowledged, AnswerLost, RequestFails, AlreadyStarted
  <2>2. /\ events' \in [Destinations -> Event]
        /\ task' \in [Takers -> {"none", "status", "starting", "done"}]
        /\ tries' \in [Takers -> 0..StartTries]
    BY <1>5, <2>1, OutcomeType, RetryType
       DEF Acknowledged, AnswerLost, RequestFails, AlreadyStarted, ExecutionStatuses, TypeOK
  <2>3. jm' \in [Takers -> [attempt : 0..MaxAttempts, request : 0..StartTries]]
    BY <1>5, RunType DEF Acknowledged, AnswerLost, RequestFails, AlreadyStarted, TypeOK
  <2>4. QED
    BY <1>5, <2>2, <2>3
       DEF Acknowledged, AnswerLost, RequestFails, AlreadyStarted, TypeOK, engineVars, chainVars
<1>6. QED
  BY <1>1, <1>2, <1>3, <1>4, <1>5 DEF Update

\* A run of jmwalletd names a transaction of the model.
LEMMA RunTx ==
  ASSUME TypeOK, TaskInv, NEW t \in Takers, jm[t] # Idle
  PROVE  Tx(t, jm[t].attempt, jm[t].request) \in Txs
<1>1. jm[t].attempt \in Attempts /\ jm[t].request \in 1..StartTries
  BY ConstantsAssumption DEF TypeOK, TaskInv, Attempts
<1>2. QED
  BY <1>1 DEF Txs

(* The steps of jmwalletd and of the chain keep the types.                 *)
LEMMA ExternalType == TypeOK /\ TaskInv /\ External => TypeOK'
<1> SUFFICES ASSUME TypeOK, TaskInv, External PROVE TypeOK'
  OBVIOUS
<1>1. CASE MineBlock
  <2>1. minedAt' \in [Txs -> Nat] /\ mempool' \subseteq Txs
    BY <1>1, MinedType DEF MineBlock
  <2>2. QED
    BY <1>1, <2>1 DEF MineBlock, TypeOK, engineVars, takerVars
<1>2. ASSUME NEW t \in Takers, Broadcast(t) \/ NegotiationFails(t) PROVE TypeOK'
  <2>1. jm' \in [Takers -> [attempt : 0..MaxAttempts, request : 0..StartTries]]
    BY <1>2, ConstantsAssumption DEF Broadcast, NegotiationFails, TypeOK, Idle
  <2>2. mempool' \subseteq Txs
    BY <1>2, RunTx DEF Broadcast, NegotiationFails, TypeOK, chainVars
  <2>3. QED
    BY <1>2, <2>1, <2>2 DEF Broadcast, NegotiationFails, TypeOK, engineVars, takerVars, chainVars
<1>3. QED
  BY <1>1, <1>2 DEF External

(***************************************************************************)
(* What the steps do to the records.                                       *)
(***************************************************************************)

\* The part of IInv that only reads the records, the chain and scanHeight.
DataInv == RecordInv /\ PendingIsUnscanned /\ OnePendingAttempt /\ FailedAfterTimeout

\* A record agrees with another one in all but its execution status.
SameRecord(a, b) ==
  /\ a.status = b.status /\ a.matches = b.matches /\ a.destination = b.destination
  /\ a.start_block = b.start_block /\ a.stop_block = b.stop_block

\* A step that changes no record but for execution statuses preserves DataInv.
LEMMA SameRecordsStep ==
  ASSUME TypeOK, DataInv, UNCHANGED <<made, minedAt, scanHeight>>,
         \A d \in Destinations : SameRecord(events'[d], events[d])
  PROVE  DataInv'
<1>1. \A d \in Destinations : Mined(d)' = Mined(d)
  BY DEF Mined
<1>2. Pending(events)' = Pending(events)
  BY DEF Pending, SameRecord
<1>3. \A t \in Takers : \A i \in Attempts : <<t, i>> \in Destinations
  BY DEF Destinations
<1>4. RecordInv'
  BY <1>1, <1>3 DEF DataInv, RecordInv, OwnDestinations, SameRecord
<1>5. PendingIsUnscanned'
  BY <1>1, <1>2 DEF DataInv, PendingIsUnscanned, Pending
<1>6. OnePendingAttempt'
  BY <1>2 DEF DataInv, OnePendingAttempt, Latest, EventsOf
<1>7. FailedAfterTimeout'
  BY <1>3 DEF DataInv, FailedAfterTimeout, EventsOf, SameRecord
<1>8. QED
  BY <1>4, <1>5, <1>6, <1>7 DEF DataInv

\* What a scan makes of a record: the matches of a pending one are the mined
\* transactions of the scanned blocks that pay it, and any match settles it.
LEMMA ScanStep ==
  ASSUME TypeOK, RecordInv, NEW h \in Nat, events' = ScanUpTo(h), NEW d \in Destinations
  PROVE  /\ events'[d].destination = events[d].destination
         /\ events'[d].start_block = events[d].start_block
         /\ events'[d].stop_block = events[d].stop_block
         /\ d \notin Pending(events) => events'[d] = events[d]
         /\ d \in Pending(events) =>
              /\ events'[d].matches = Paying(MinedBetween(scanHeight, h), d)
              /\ events'[d].status \in {"started", "confirmed", "multiple_matches"}
              /\ events'[d].status = "started" => Paying(MinedBetween(scanHeight, h), d) = {}
              /\ events'[d].status = "confirmed" => \E tx \in Txs : events'[d].matches = {tx}
<1>1. CASE d \notin Pending(events)
  BY <1>1, ScanRecord DEF RecordInv
<1>2. CASE d \in Pending(events)
  <2> DEFINE found == Paying(MinedBetween(scanHeight, h), d)
  <2>1. events'[d] = AddMatches(events[d], found)
    BY <1>2, ScanRecord DEF RecordInv
  <2>2. found \in SUBSET Txs
    BY DEF Paying, MinedBetween
  <2>3. events[d] \in Event /\ events[d].matches = {} /\ events[d].status = "started"
    BY <1>2 DEF TypeOK, RecordInv, Pending
  <2> HIDE DEF found
  <2>4. QED
    BY <1>2, <2>1, <2>2, <2>3, AddMatchesToPending DEF found
<1>3. QED
  BY <1>1, <1>2

\* A scan, whether it is complete or not, keeps what DataInv says of the records.
LEMMA ScanKeepsRecords ==
  ASSUME TypeOK, DataInv, NEW h \in Nat, events' = ScanUpTo(h), UNCHANGED <<made, minedAt>>
  PROVE  RecordInv' /\ OnePendingAttempt' /\ FailedAfterTimeout' /\ Pending(events') \subseteq Pending(events)
<1>1. \A d \in Destinations : Mined(d)' = Mined(d)
  BY DEF Mined
<1>2. \A d \in Destinations : Paying(MinedBetween(scanHeight, h), d) \subseteq Mined(d)
  BY DEF Paying, MinedBetween, Mined, TypeOK
<1>3. \A t \in Takers : \A i \in Attempts : <<t, i>> \in Destinations
  BY DEF Destinations
<1>4. \A d \in Destinations :
        /\ events'[d].status = "none" <=> events[d].status = "none"
        /\ events'[d].status = "failed" <=> events[d].status = "failed"
        /\ events'[d].status = "started" => events[d].status = "started"
  BY ScanStep DEF Pending, DataInv
<1>5. Pending(events') \subseteq Pending(events)
  BY <1>4 DEF Pending
<1>6. RecordInv'
  <2>1. OwnDestinations'
    BY <1>4, ScanStep DEF DataInv, RecordInv, OwnDestinations
  <2>2. \A t \in Takers : \A i \in Attempts : events'[<<t, i>>].status = "none" <=> made'[t] < i
    BY <1>3, <1>4 DEF DataInv, RecordInv
  <2>3. ASSUME NEW d \in Destinations
        PROVE  /\ events'[d].status # "duplicate_destination"
               /\ events'[d].status \in {"none", "started", "failed"} => events'[d].matches = {}
               /\ events'[d].status = "confirmed" => \E tx \in Txs : events'[d].matches = {tx}
               /\ events'[d].matches \subseteq Mined(d)
    <3>1. CASE d \in Pending(events)
      BY <3>1, <1>2, ScanStep DEF DataInv
    <3>2. CASE d \notin Pending(events)
      BY <3>2, ScanStep DEF DataInv, RecordInv
    <3>3. QED
      BY <3>1, <3>2
  <2>4. QED
    BY <2>1, <2>2, <2>3, <1>1 DEF RecordInv
<1>7. OnePendingAttempt'
  BY <1>5 DEF DataInv, OnePendingAttempt, Latest, EventsOf
<1>8. FailedAfterTimeout'
  BY <1>3, <1>4, ScanStep DEF DataInv, FailedAfterTimeout, EventsOf
<1>9. QED
  BY <1>5, <1>6, <1>7, <1>8

\* A new record is no record of any transaction yet.
LEMMA RecordStep ==
  ASSUME TypeOK, DataInv, RunsAreOnRecord, NEW t \in Takers, RecordAttempt(t)
  PROVE  DataInv'
<1> DEFINE new == <<t, made[t] + 1>>
<1>1. new \in Destinations /\ made[t] + 1 \in Attempts
  BY ConstantsAssumption DEF RecordAttempt, Destinations, TypeOK, Attempts
<1>2. /\ events' = [events EXCEPT ![new] = StartedEvent(new, currentBlock)]
      /\ made' = [made EXCEPT ![t] = made[t] + 1]
      /\ minedAt' = minedAt /\ scanHeight' = scanHeight
  BY DEF RecordAttempt, RecordStart, chainVars, engineVars
<1>3. /\ events'[new].status = "started" /\ events'[new].destination = new
      /\ events'[new].matches = {}
      /\ \A d \in Destinations : d # new => events'[d] = events[d]
  BY <1>1, <1>2 DEF StartedEvent, TypeOK
<1>4. events[new].status = "none"
  BY <1>1 DEF DataInv, RecordInv, TypeOK
<1>5. Mined(new) = {}
  BY <1>1, <1>4 DEF RunsAreOnRecord, Mined
<1>6. \A d \in Destinations : Mined(d)' = Mined(d)
  BY <1>2 DEF Mined
<1> HIDE DEF new
<1>7. RecordInv'
  <2>1. OwnDestinations'
    BY <1>3 DEF DataInv, RecordInv, OwnDestinations
  <2>2. ASSUME NEW u \in Takers, NEW i \in Attempts
        PROVE  events'[<<u, i>>].status = "none" <=> made'[u] < i
    <3>1. <<u, i>> \in Destinations /\ (<<u, i>> = new <=> u = t /\ i = made[t] + 1)
      BY DEF Destinations, new
    <3>2. made'[u] = IF u = t THEN made[t] + 1 ELSE made[u]
      BY <1>2 DEF TypeOK
    <3>3. (made[u] < i <=> events[<<u, i>>].status = "none") /\ made[u] \in Nat /\ i \in Nat
      BY ConstantsAssumption DEF DataInv, RecordInv, TypeOK, Attempts
    <3>4. CASE <<u, i>> = new
      BY <1>3, <3>1, <3>2, <3>3, <3>4
    <3>5. CASE <<u, i>> # new
      BY <1>3, <3>1, <3>2, <3>3, <3>5
    <3>6. QED
      BY <3>4, <3>5
  <2>3. QED
    BY <1>3, <1>6, <2>1, <2>2 DEF RecordInv, DataInv
<1>8. PendingIsUnscanned'
  BY <1>2, <1>3, <1>5, <1>6 DEF DataInv, PendingIsUnscanned, Pending
<1>9. OnePendingAttempt'
  <2>1. ASSUME NEW u \in Takers, NEW d \in EventsOf(u) \cap Pending(events') PROVE d = Latest(u)'
    <3>1. d \in Destinations /\ d[1] = u
      BY DEF EventsOf, Pending
    <3>2. CASE d = new
      BY <1>2, <3>1, <3>2 DEF new, Latest, TypeOK
    <3>3. CASE d # new
      <4>1. d \in EventsOf(u) \cap Pending(events)
        BY <1>3, <3>1, <3>3 DEF Pending
      <4>2. u # t
        BY <4>1 DEF RecordAttempt, MayStart, HasPending
      <4>3. QED
        BY <1>2, <4>1, <4>2 DEF DataInv, OnePendingAttempt, Latest, TypeOK
    <3>4. QED
      BY <3>2, <3>3
  <2>2. QED
    BY <2>1 DEF OnePendingAttempt, EventsOf
<1>10. FailedAfterTimeout'
  BY <1>3 DEF DataInv, FailedAfterTimeout, EventsOf, Destinations
<1>11. QED
  BY <1>7, <1>8, <1>9, <1>10 DEF DataInv

\* Only a taker's latest attempt is failed, and only past its timeout.
LEMMA MarkStep ==
  ASSUME TypeOK, DataInv, TaskInv, MarkTimedOut
  PROVE  /\ DataInv'
         /\ \A d \in Destinations : /\ events'[d].status = "none" <=> events[d].status = "none"
                                    /\ events'[d].start_block = events[d].start_block
<1>1. /\ UNCHANGED <<made, minedAt, scanHeight, currentBlock>>
      /\ \A d \in Destinations :
           events'[d] = IF GivenUp(d) THEN MarkFailed(events[d], currentBlock) ELSE events[d]
  BY DEF MarkTimedOut, chainVars
<1>2. \A t \in Takers : \A i \in Attempts : <<t, i>> \in Destinations
  BY DEF Destinations
<1>3. ASSUME NEW d \in Destinations, GivenUp(d)
      PROVE  /\ events[d].status = "started" /\ events[d].matches = {}
             /\ events'[d].status = "failed" /\ events'[d].matches = {}
             /\ events'[d].destination = events[d].destination
             /\ events'[d].start_block = events[d].start_block
             /\ events'[d].stop_block = currentBlock
  <2>1. events[d].status = "started" /\ events[d].matches = {}
    BY <1>3 DEF GivenUp, Pending, DataInv, RecordInv
  <2>2. events[d] \in Event /\ currentBlock \in Nat
    BY DEF TypeOK
  <2>3. events'[d] = MarkFailed(events[d], currentBlock)
    BY <1>1, <1>3
  <2>4. QED
    BY <2>1, <2>2, <2>3, MarkFailedType
<1>4. \A d \in Destinations : ~GivenUp(d) => events'[d] = events[d]
  BY <1>1
<1>5. Pending(events') \subseteq Pending(events)
  BY <1>3, <1>4 DEF Pending
<1>6. \A d \in Destinations : Mined(d)' = Mined(d)
  BY <1>1 DEF Mined
<1>7. RecordInv'
  <2>1. OwnDestinations'
    BY <1>3, <1>4 DEF DataInv, RecordInv, OwnDestinations
  <2>2. \A d \in Destinations : events'[d].status = "none" <=> events[d].status = "none"
    BY <1>3, <1>4
  <2>3. \A t \in Takers : \A i \in Attempts : events'[<<t, i>>].status = "none" <=> made'[t] < i
    BY <1>1, <1>2, <2>2 DEF DataInv, RecordInv
  <2>4. QED
    BY <2>3, <1>3, <1>4, <1>6, <2>1, <2>2 DEF DataInv, RecordInv
<1>8. PendingIsUnscanned'
  BY <1>1, <1>5, <1>6 DEF DataInv, PendingIsUnscanned, Pending
<1>9. OnePendingAttempt'
  BY <1>1, <1>5 DEF DataInv, OnePendingAttempt, Latest, EventsOf
<1>10. FailedAfterTimeout'
  <2>1. ASSUME NEW t \in Takers, NEW d \in EventsOf(t), events'[d].status = "failed"
        PROVE  events'[d].start_block + Wallets[t].coinjoin_timeout_blocks < events'[d].stop_block
    <3>1. d \in Destinations /\ d[1] = t
      BY <1>2 DEF EventsOf
    <3>2. CASE GivenUp(d)
      <4>1. d = Latest(t) /\ timedOut[t] /\ made[t] > 0
        BY <3>1, <3>2 DEF GivenUp, DataInv, OnePendingAttempt, EventsOf, Latest, Attempts, Destinations, TypeOK
      <4>2. coinjoinStart[t] + Wallets[t].coinjoin_timeout_blocks < currentBlock
        BY <4>1 DEF TaskInv, CoinjoinTimedOut
      <4>3. coinjoinStart[t] = events[d].start_block
        BY <4>1 DEF TaskInv
      <4>4. QED
        BY <1>3, <3>1, <3>2, <4>2, <4>3
    <3>3. CASE ~GivenUp(d)
      BY <1>4, <2>1, <3>1, <3>3 DEF DataInv, FailedAfterTimeout
    <3>4. QED
      BY <3>2, <3>3
  <2>2. QED
    BY <2>1 DEF FailedAfterTimeout, EventsOf
<1>11. QED
  BY <1>3, <1>4, <1>7, <1>8, <1>9, <1>10 DEF DataInv

\* A new block adds transactions above every scanned height.
LEMMA MineStep ==
  ASSUME TypeOK, DataInv, RunsAreOnRecord, scanHeight <= height,
         NEW included \in SUBSET mempool,
         minedAt' = [tx \in Txs |-> IF tx \in included THEN height + 1 ELSE minedAt[tx]],
         mempool' = mempool \ included,
         UNCHANGED <<events, made, jm, scanHeight>>
  PROVE  DataInv' /\ RunsAreOnRecord'
<1>1. \A tx \in Txs : minedAt'[tx] = minedAt[tx] \/ (tx \in mempool /\ minedAt'[tx] > scanHeight)
  BY DEF TypeOK
<1>2. \A tx \in Txs : minedAt[tx] > 0 => minedAt'[tx] > 0
  BY DEF TypeOK
<1>3. RecordInv'
  BY <1>2 DEF DataInv, RecordInv, OwnDestinations, Mined
<1>4. PendingIsUnscanned'
  <2>1. ASSUME NEW d \in Pending(events), NEW tx \in Mined(d)' PROVE minedAt'[tx] > scanHeight
    BY <1>1, <2>1 DEF DataInv, PendingIsUnscanned, Mined
  <2>2. QED
    BY <2>1 DEF PendingIsUnscanned
<1>5. OnePendingAttempt' /\ FailedAfterTimeout'
  BY DEF DataInv, OnePendingAttempt, FailedAfterTimeout, Latest
<1>6. RunsAreOnRecord'
  BY <1>1 DEF RunsAreOnRecord
<1>7. QED
  BY <1>3, <1>4, <1>5, <1>6 DEF DataInv

\* Records never vanish, so what is on record stays so while nothing new is run.
LEMMA StillOnRecord ==
  ASSUME TypeOK, TaskInv, RunsAreOnRecord, UNCHANGED <<mempool, minedAt, jm>>,
         \A d \in Destinations : events[d].status # "none" => events'[d].status # "none"
  PROVE  RunsAreOnRecord'
<1>1. \A tx \in Txs : \A d \in tx.outputs : d \in Destinations
  BY DEF Txs, Tx, Destinations
<1>2. \A t \in Takers : jm[t] # Idle => <<t, jm[t].attempt>> \in Destinations
  BY ConstantsAssumption DEF TypeOK, TaskInv, Destinations, Attempts
<1>3. QED
  BY <1>1, <1>2 DEF RunsAreOnRecord

(***************************************************************************)
(* Every step preserves the invariant.                                     *)
(***************************************************************************)

(* The steps of the engine's main loop keep the invariant.                 *)
LEMMA EngineInv == IInv /\ Engine => IInv'
<1> SUFFICES ASSUME IInv, Engine PROVE IInv'
  OBVIOUS
<1>1. TypeOK /\ RecordInv /\ TaskInv /\ RunsAreOnRecord /\ DataInv /\ scanHeight <= height
  BY DEF IInv, DataInv
<1>2. TypeOK'
  BY <1>1, EngineType DEF RecordInv
<1>3. ASSUME DataInv', TaskInv', RunsAreOnRecord', (scanHeight <= height)' PROVE IInv'
  BY <1>2, <1>3 DEF IInv, DataInv
<1>4. \A t \in Takers : made[t] > 0 => Latest(t) \in Destinations
  BY <1>1 DEF TypeOK, Latest, Destinations, Attempts
<1>5. CASE RefreshBlock \/ RefreshFails \/ LeaveLoop \/ StoreLabels
  <2>1. UNCHANGED <<events, takerVars, jm, chainVars, scanHeight>> /\ pc # "gather" /\ pc' # "gather"
    BY <1>5 DEF RefreshBlock, RefreshFails, LeaveLoop, StoreLabels
  <2>2. DataInv'
    BY <1>1, <2>1, SameRecordsStep DEF SameRecord, takerVars, chainVars
  <2>3. TaskInv'
    BY <1>1, <2>1 DEF TaskInv, takerVars, Latest
  <2>4. RunsAreOnRecord' /\ (scanHeight <= height)'
    BY <1>1, <2>1 DEF RunsAreOnRecord, chainVars
  <2>5. QED
    BY <1>3, <2>2, <2>3, <2>4
<1>6. CASE ConfirmRounds \/ ConfirmFails
  <2>1. PICK h \in scanHeight..height :
          events' = ScanUpTo(h) /\ ((scanHeight' = h /\ h = height) \/ scanHeight' = scanHeight)
    BY <1>1, <1>6 DEF ConfirmRounds, ConfirmFails, TypeOK
  <2>2. /\ h \in Nat /\ scanHeight \in Nat /\ height \in Nat
        /\ UNCHANGED <<made, tries, timedOut, coinjoinStart, jm, chainVars>> /\ pc = "confirm"
    BY <1>1, <1>6, <2>1 DEF TypeOK, ConfirmRounds, ConfirmFails, takerVars
  <2>3. RecordInv' /\ OnePendingAttempt' /\ FailedAfterTimeout' /\ Pending(events') \subseteq Pending(events)
    BY <1>1, <2>1, <2>2, ScanKeepsRecords DEF chainVars
  <2>4. PendingIsUnscanned'
    <3>1. ASSUME NEW d \in Pending(events'), NEW tx \in Mined(d) PROVE minedAt[tx] > scanHeight'
      <4>1. d \in Destinations /\ d \in Pending(events) /\ tx \in Txs /\ minedAt[tx] \in Nat
        BY <1>1, <2>3 DEF Pending, Mined, TypeOK
      <4>2. minedAt[tx] > scanHeight
        BY <1>1, <4>1 DEF DataInv, PendingIsUnscanned
      <4>3. Paying(MinedBetween(scanHeight, h), d) = {}
        BY <1>1, <2>1, <2>2, <4>1, ScanStep DEF Pending
      <4>4. tx \notin MinedBetween(scanHeight, h)
        BY <4>1, <4>3 DEF Paying, Mined
      <4>5. QED
        BY <2>1, <2>2, <4>1, <4>2, <4>4 DEF MinedBetween
    <3>2. \A d \in Destinations : Mined(d)' = Mined(d)
      BY <2>2 DEF Mined, chainVars
    <3>3. QED
      BY <2>2, <3>1, <3>2 DEF PendingIsUnscanned, Pending, chainVars
  <2>5. \A d \in Destinations : /\ events[d].status # "none" => events'[d].status # "none"
                                /\ events'[d].start_block = events[d].start_block
    BY <1>1, <2>1, <2>2, ScanStep DEF Pending
  <2>6. RunsAreOnRecord'
    BY <1>1, <2>2, <2>5, StillOnRecord DEF chainVars
  <2>7. TaskInv'
    <3>1. \A t \in Takers : task[t] = "none" /\ ~timedOut[t]
      BY <1>1, <2>2 DEF TaskInv
    <3>2. \A t \in Takers : task'[t] # "starting" /\ (task'[t] = "none" <=> pc' # "gather")
      BY <1>1, <1>6, <3>1 DEF ConfirmRounds, ConfirmFails, UpdateUnlessAtLimit, takerVars
    <3>3. ASSUME NEW t \in Takers, made[t] > 0
          PROVE  coinjoinStart'[t] = (events[Latest(t)].start_block)'
      <4>1. Latest(t)' = Latest(t)
        BY <2>2 DEF Latest
      <4>2. QED
        BY <1>1, <1>4, <2>2, <2>5, <3>3, <4>1 DEF TaskInv
    <3>4. QED
      BY <1>1, <2>2, <3>1, <3>2, <3>3 DEF TaskInv
  <2>8. (scanHeight <= height)'
    BY <1>1, <2>1, <2>2 DEF chainVars
  <2>9. QED
    BY <1>3, <2>3, <2>4, <2>6, <2>7, <2>8 DEF DataInv
<1>7. CASE MarkTimedOut
  <2>1. /\ DataInv'
        /\ \A d \in Destinations : /\ events'[d].status = "none" <=> events[d].status = "none"
                                   /\ events'[d].start_block = events[d].start_block
    BY <1>1, <1>7, MarkStep
  <2>2. UNCHANGED <<made, coinjoinStart, jm, chainVars, scanHeight>>
    BY <1>7 DEF MarkTimedOut
  <2>3. RunsAreOnRecord'
    BY <1>1, <2>1, <2>2, StillOnRecord DEF chainVars
  <2>4. TaskInv'
    <3>1. \A t \in Takers : task'[t] = "none" /\ ~timedOut'[t] /\ pc' # "gather"
      BY <1>7 DEF MarkTimedOut
    <3>2. ASSUME NEW t \in Takers, made[t] > 0
          PROVE  coinjoinStart'[t] = (events[Latest(t)].start_block)'
      <4>1. Latest(t)' = Latest(t)
        BY <2>2 DEF Latest
      <4>2. QED
        BY <1>1, <1>4, <2>1, <2>2, <3>2, <4>1 DEF TaskInv
    <3>3. QED
      BY <1>1, <2>2, <3>1, <3>2 DEF TaskInv
  <2>5. QED
    BY <1>1, <1>3, <2>1, <2>2, <2>3, <2>4 DEF chainVars
<1>8. CASE MineSettlement
  <2>1. UNCHANGED <<events, takerVars, jm, scanHeight>> /\ pc # "gather" /\ pc' # "gather" /\ height' = height + 3
    BY <1>8 DEF MineSettlement
  <2>2. DataInv' /\ RunsAreOnRecord'
    BY <1>1, <1>8, <2>1, MineStep DEF MineSettlement, takerVars
  <2>3. TaskInv'
    BY <1>1, <2>1 DEF TaskInv, takerVars, Latest
  <2>4. (scanHeight <= height)'
    BY <1>1, <2>1 DEF TypeOK
  <2>5. QED
    BY <1>3, <2>2, <2>3, <2>4
<1>9. QED
  BY <1>5, <1>6, <1>7, <1>8 DEF Engine

\* Noting the outcome of a start only changes an execution status.
LEMMA OutcomeStep ==
  ASSUME TypeOK, DataInv, UNCHANGED <<made, minedAt, scanHeight>>, NEW t \in Takers, made[t] > 0,
         events' = events \/ \E x \in ExecutionStatuses : Outcome(t, x)
  PROVE  DataInv' /\ \A d \in Destinations : SameRecord(events'[d], events[d])
<1>1. Latest(t) \in Destinations
  BY DEF TypeOK, Latest, Destinations, Attempts
<1>2. ASSUME NEW d \in Destinations PROVE SameRecord(events'[d], events[d])
  <2>1. CASE events'[d] = events[d]
    BY <2>1 DEF SameRecord
  <2>2. ASSUME NEW x \in ExecutionStatuses, events'[d] = NoteExecution(events[d], x)
        PROVE  SameRecord(events'[d], events[d])
    BY <2>2 DEF SameRecord, NoteExecution, Revised
  <2>3. QED
    BY <1>1, <2>1, <2>2 DEF Outcome, TypeOK
<1>3. QED
  BY <1>2, SameRecordsStep

(* The steps of a taker's update keep the invariant.                       *)
LEMMA UpdateInv == IInv /\ (\E t \in Takers : Update(t)) => IInv'
<1> SUFFICES ASSUME IInv, NEW t \in Takers, Update(t) PROVE IInv'
  OBVIOUS
<1>1. TypeOK /\ RecordInv /\ TaskInv /\ RunsAreOnRecord /\ DataInv /\ scanHeight <= height
  BY DEF IInv, DataInv
<1>2. TypeOK'
  BY <1>1, UpdateType
<1>3. ASSUME DataInv', TaskInv', RunsAreOnRecord', (scanHeight <= height)' PROVE IInv'
  BY <1>2, <1>3 DEF IInv, DataInv
<1>4. UNCHANGED <<engineVars, chainVars>>
  BY DEF Update, AwaitMining, LeaveAlone, AddressFails, RecordAttempt, StopAttempt,
         Acknowledged, AnswerLost, RequestFails, AlreadyStarted
<1>5. (scanHeight <= height)'
  BY <1>1, <1>4 DEF engineVars, chainVars
<1>6. CASE AwaitMining(t) \/ LeaveAlone(t) \/ AddressFails(t) \/ StopAttempt(t)
  <2>1. UNCHANGED <<events, made, coinjoinStart>> /\ task[t] = "status"
    BY <1>6 DEF AwaitMining, LeaveAlone, AddressFails, StopAttempt, MayStart, Finish
  <2>2. task' = [task EXCEPT ![t] = "done"] /\ tries' = tries
    BY <1>6 DEF AwaitMining, LeaveAlone, AddressFails, StopAttempt, Finish
  <2>3. DataInv'
    BY <1>1, <1>4, <2>1, SameRecordsStep DEF SameRecord, engineVars, chainVars
  <2>4. \A u \in Takers : jm'[u] \in {jm[u], Idle}
    BY <1>1, <1>6 DEF AwaitMining, LeaveAlone, AddressFails, StopAttempt, TypeOK
  <2>5. RunsAreOnRecord'
    BY <1>1, <1>4, <2>1, <2>4 DEF RunsAreOnRecord, chainVars
  <2>6. \A u \in Takers : timedOut'[u] => (timedOut[u] \/ (u = t /\ CoinjoinTimedOut(t)))
    <3>1. CASE AwaitMining(t)
      BY <1>1, <3>1, Zenon DEF AwaitMining, TypeOK
    <3>2. CASE LeaveAlone(t) \/ AddressFails(t) \/ StopAttempt(t)
      BY <1>1, <3>2 DEF LeaveAlone, AddressFails, StopAttempt, TypeOK
    <3>3. QED
      BY <1>6, <3>1, <3>2
  <2>7. TaskInv'
    <3>1. ASSUME NEW u \in Takers
          PROVE  /\ task'[u] = "none" <=> pc' # "gather"
                 /\ task'[u] = "starting" => task[u] = "starting"
                 /\ timedOut'[u] => task'[u] = "done" /\ CoinjoinTimedOut(u)'
      BY <1>1, <1>4, <2>1, <2>2, <2>6 DEF TaskInv, TypeOK, engineVars, CoinjoinTimedOut
    <3>2. \A u \in Takers : Latest(u)' = Latest(u)
      BY <2>1 DEF Latest
    <3>3. QED
      BY <1>1, <2>1, <2>2, <2>4, <3>1, <3>2 DEF TaskInv
  <2>8. QED
    BY <1>3, <1>5, <2>3, <2>5, <2>7
<1>7. CASE RecordAttempt(t)
  <2>1. DataInv'
    BY <1>1, <1>7, RecordStep
  <2>2. /\ made[t] + 1 \in Attempts /\ <<t, made[t] + 1>> \in Destinations
        /\ made' = [made EXCEPT ![t] = made[t] + 1]
        /\ events' = [events EXCEPT ![<<t, made[t] + 1>>] = StartedEvent(<<t, made[t] + 1>>, currentBlock)]
        /\ coinjoinStart' = [coinjoinStart EXCEPT ![t] = currentBlock]
        /\ task' = [task EXCEPT ![t] = "starting"] /\ task[t] = "status"
        /\ tries' = [tries EXCEPT ![t] = StartTries]
        /\ timedOut' = timedOut /\ jm' = jm
    BY <1>1, <1>7, ConstantsAssumption
       DEF RecordAttempt, RecordStart, MayStart, TypeOK, Attempts, Destinations
  <2>3. \A d \in Destinations : events[d].status # "none" => events'[d].status # "none"
    BY <1>1, <2>2 DEF StartedEvent, TypeOK
  <2>4. RunsAreOnRecord'
    BY <1>1, <1>4, <2>2, <2>3, StillOnRecord DEF chainVars
  <2>5. TaskInv'
    <3>1. ASSUME NEW u \in Takers, u # t
          PROVE  /\ made'[u] = made[u] /\ task'[u] = task[u] /\ tries'[u] = tries[u]
                 /\ coinjoinStart'[u] = coinjoinStart[u] /\ Latest(u)' = Latest(u)
                 /\ made[u] > 0 => events'[Latest(u)] = events[Latest(u)]
      BY <1>1, <2>2, <3>1 DEF TypeOK, Latest, Destinations, Attempts
    <3>2. /\ made'[t] = made[t] + 1 /\ task'[t] = "starting" /\ tries'[t] = StartTries
          /\ coinjoinStart'[t] = currentBlock /\ Latest(t)' = <<t, made[t] + 1>>
          /\ events'[Latest(t)'] = StartedEvent(<<t, made[t] + 1>>, currentBlock)
      BY <1>1, <2>2 DEF TypeOK, Latest
    <3>3. \A u \in Takers : CoinjoinTimedOut(u) /\ u # t => CoinjoinTimedOut(u)'
      BY <1>4, <3>1 DEF CoinjoinTimedOut, engineVars
    <3>4. ~timedOut[t] /\ StartTries > 0 /\ pc = "gather"
      BY <1>1, <2>2, ConstantsAssumption DEF TaskInv
    <3>5. \A u \in Takers : jm[u] # Idle => jm[u].attempt \in 1..made'[u]
      BY <1>1, <3>1, <3>2 DEF TaskInv, TypeOK
    <3>6. ASSUME NEW u \in Takers
          PROVE  /\ task'[u] = "none" <=> pc' # "gather"
                 /\ task'[u] = "starting" => /\ made'[u] > 0 /\ tries'[u] > 0
                                             /\ events'[Latest(u)'].status = "started"
                 /\ timedOut'[u] => task'[u] = "done" /\ CoinjoinTimedOut(u)'
                 /\ made'[u] > 0 => coinjoinStart'[u] = events'[Latest(u)'].start_block
                 /\ jm'[u] # Idle => jm'[u].attempt \in 1..made'[u] /\ jm'[u].request \in 1..StartTries
      <4>1. CASE u = t
        <5>1. events'[Latest(t)'].status = "started" /\ events'[Latest(t)'].start_block = currentBlock
          BY <3>2 DEF StartedEvent
        <5>2. made'[t] > 0 /\ tries'[t] > 0 /\ pc' = "gather" /\ ~timedOut'[t]
          BY <1>1, <1>4, <2>2, <3>2, <3>4 DEF engineVars, TypeOK
        <5>3. jm'[t] # Idle => jm'[t].attempt \in 1..made'[t] /\ jm'[t].request \in 1..StartTries
          BY <1>1, <2>2, <3>5 DEF TaskInv
        <5>4. QED
          BY <3>2, <4>1, <5>1, <5>2, <5>3
      <4>2. CASE u # t
        BY <1>1, <1>4, <2>2, <3>1, <3>3, <3>5, <4>2 DEF TaskInv, engineVars
      <4>3. QED
        BY <4>1, <4>2
    <3>7. QED
      BY <3>6 DEF TaskInv
  <2>6. QED
    BY <1>3, <1>5, <2>1, <2>4, <2>5
<1>8. CASE Acknowledged(t) \/ AnswerLost(t) \/ RequestFails(t) \/ AlreadyStarted(t)
  <2>1. /\ made[t] > 0 /\ tries[t] \in 1..StartTries /\ task[t] = "starting"
        /\ UNCHANGED <<made, timedOut, coinjoinStart>>
    BY <1>1, <1>8, ConstantsAssumption
       DEF TaskInv, TypeOK, Acknowledged, AnswerLost, RequestFails, AlreadyStarted
  <2>2. events' = events \/ \E x \in ExecutionStatuses : Outcome(t, x)
    BY <1>8 DEF Acknowledged, AnswerLost, RequestFails, AlreadyStarted, RetryStart, ExecutionStatuses
  <2>3. DataInv' /\ \A d \in Destinations : SameRecord(events'[d], events[d])
    BY <1>1, <1>4, <2>1, <2>2, OutcomeStep DEF engineVars, chainVars
  <2>4. \A u \in Takers : jm'[u] = jm[u] \/ (u = t /\ jm'[u] = [attempt |-> made[t], request |-> tries[t]])
    BY <1>1, <1>8 DEF Acknowledged, AnswerLost, RequestFails, AlreadyStarted, ThisRun, TypeOK
  <2>5. \A u \in Takers : made[u] > 0 => Latest(u) \in Destinations
    BY <1>1 DEF TypeOK, Latest, Destinations, Attempts
  <2>6. RunsAreOnRecord'
    <3>1. \A tx \in Txs : \A d \in tx.outputs : d \in Destinations
      BY DEF Txs, Tx, Destinations
    <3>2. \A d \in Destinations : events[d].status # "none" => events'[d].status # "none"
      BY <2>3 DEF SameRecord
    <3>3. events[Latest(t)].status # "none"
      BY <1>1, <2>1 DEF TaskInv
    <3>4. \A u \in Takers : jm[u] # Idle => <<u, jm[u].attempt>> \in Destinations
      BY <1>1, ConstantsAssumption DEF TypeOK, TaskInv, Destinations, Attempts
    <3>5. ASSUME NEW u \in Takers, jm'[u] # Idle PROVE events'[<<u, jm'[u].attempt>>].status # "none"
      <4>1. CASE jm'[u] = jm[u]
        BY <1>1, <3>2, <3>4, <3>5, <4>1 DEF RunsAreOnRecord
      <4>2. CASE u = t /\ jm'[u] = [attempt |-> made[t], request |-> tries[t]]
        BY <2>1, <2>5, <3>2, <3>3, <4>2 DEF Latest
      <4>3. QED
        BY <2>4, <4>1, <4>2
    <3>6. QED
      BY <1>1, <1>4, <3>1, <3>2, <3>5 DEF RunsAreOnRecord, chainVars
  <2>7. TaskInv'
    <3>1. \/ task' = [task EXCEPT ![t] = "done"] /\ tries' = tries
          \/ task' = task /\ tries' = [tries EXCEPT ![t] = tries[t] - 1] /\ tries[t] > 1
      BY <1>8 DEF Acknowledged, AnswerLost, RequestFails, AlreadyStarted, RetryStart, Outcome, Finish
    <3>2. \A u \in Takers : /\ task'[u] = "none" <=> pc' # "gather"
                            /\ task'[u] = "starting" => task[u] = "starting" /\ tries'[u] > 0
                            /\ timedOut'[u] => task'[u] = "done" /\ CoinjoinTimedOut(u)'
      BY <1>1, <1>4, <2>1, <3>1 DEF TaskInv, TypeOK, engineVars, CoinjoinTimedOut
    <3>3. ASSUME NEW u \in Takers
          PROVE  /\ Latest(u)' = Latest(u)
                 /\ made[u] > 0 => SameRecord(events'[Latest(u)], events[Latest(u)])
      BY <2>1, <2>3, <2>5 DEF Latest
    <3>4. \A u \in Takers : jm'[u] # Idle => jm'[u].attempt \in 1..made[u] /\ jm'[u].request \in 1..StartTries
      BY <1>1, <2>1, <2>4 DEF TaskInv, TypeOK
    <3>5. QED
      BY <1>1, <2>1, <3>2, <3>3, <3>4 DEF TaskInv, SameRecord
  <2>8. QED
    BY <1>3, <1>5, <2>3, <2>6, <2>7
<1>9. QED
  BY <1>6, <1>7, <1>8 DEF Update

(* The steps of jmwalletd and of the chain keep the invariant.             *)
LEMMA ExternalInv == IInv /\ External => IInv'
<1> SUFFICES ASSUME IInv, External PROVE IInv'
  OBVIOUS
<1>1. TypeOK /\ RecordInv /\ TaskInv /\ RunsAreOnRecord /\ DataInv /\ scanHeight <= height
  BY DEF IInv, DataInv
<1>2. TypeOK'
  BY <1>1, ExternalType
<1>3. ASSUME DataInv', TaskInv', RunsAreOnRecord', (scanHeight <= height)' PROVE IInv'
  BY <1>2, <1>3 DEF IInv, DataInv
<1>4. CASE MineBlock
  <2>1. UNCHANGED <<engineVars, takerVars, events, jm>> /\ height' = height + 1
    BY <1>4 DEF MineBlock
  <2>2. DataInv' /\ RunsAreOnRecord'
    BY <1>1, <1>4, <2>1, MineStep DEF MineBlock, engineVars, takerVars
  <2>3. TaskInv'
    BY <1>1, <2>1 DEF TaskInv, engineVars, takerVars, Latest, CoinjoinTimedOut
  <2>4. (scanHeight <= height)'
    BY <1>1, <2>1 DEF TypeOK, engineVars
  <2>5. QED
    BY <1>3, <2>2, <2>3, <2>4
<1>5. ASSUME NEW t \in Takers, Broadcast(t) \/ NegotiationFails(t) PROVE IInv'
  <2>1. /\ UNCHANGED <<engineVars, takerVars, events, minedAt, height>>
        /\ jm' = [jm EXCEPT ![t] = Idle] /\ jm[t] # Idle
        /\ mempool' \subseteq mempool \cup {Tx(t, jm[t].attempt, jm[t].request)}
    BY <1>5 DEF Broadcast, NegotiationFails, chainVars
  <2>2. DataInv'
    BY <1>1, <2>1, SameRecordsStep DEF SameRecord, engineVars, takerVars
  <2>3. \A u \in Takers : jm'[u] \in {jm[u], Idle}
    BY <1>1, <2>1 DEF TypeOK
  <2>4. TaskInv'
    BY <1>1, <2>1, <2>3 DEF TaskInv, engineVars, takerVars, Latest, CoinjoinTimedOut
  <2>5. RunsAreOnRecord'
    BY <1>1, <2>1, <2>3 DEF RunsAreOnRecord, Tx
  <2>6. QED
    BY <1>1, <1>3, <2>1, <2>2, <2>4, <2>5 DEF engineVars
<1>6. QED
  BY <1>4, <1>5 DEF External

(* Every step keeps the invariant.                                         *)
LEMMA StepInv == IInv /\ [Next]_vars => IInv'
<1> SUFFICES ASSUME IInv, [Next]_vars PROVE IInv'
  OBVIOUS
<1>1. CASE UNCHANGED vars
  BY <1>1 DEF IInv, vars, engineVars, takerVars, chainVars, TypeOK, RecordInv, OwnDestinations, TaskInv,
     RunsAreOnRecord, PendingIsUnscanned, OnePendingAttempt, FailedAfterTimeout, Mined, Latest, CoinjoinTimedOut
<1>2. CASE Next
  <2>1. CASE Stored
    BY <1>1, <2>1 DEF Stored
  <2>2. QED
    BY <1>2, <2>1, EngineInv, UpdateInv, ExternalInv DEF Next
<1>3. QED
  BY <1>1, <1>2

(***************************************************************************)
(* The theorems.                                                           *)
(***************************************************************************)

\* The inductive invariant holds in every run of the engine, its takers and the chain.
THEOREM Invariant == Spec => []IInv
<1>1. IInv /\ [Next]_vars => IInv'
  BY StepInv
<1>2. QED
  BY InitIInv, <1>1, PTL DEF Spec

\* Every variable keeps a value the code can give it.
THEOREM TypeCorrect == Spec => []TypeOK
<1>1. IInv => TypeOK
  BY DEF IInv
<1>2. QED
  BY Invariant, <1>1, PTL

\* confirm_started_rounds never skips a block that pays a pending attempt, whichever
\* of its scans failed halfway and whenever blocks arrived.
THEOREM NoRoundIsSkipped == Spec => []PendingIsUnscanned
<1>1. IInv => PendingIsUnscanned
  BY DEF IInv
<1>2. QED
  BY Invariant, <1>1, PTL

\* has_unconfirmed_round holds a taker back: it never has two pending attempts.
THEOREM OneAttemptAtATime == Spec => []OnePendingAttempt
<1>1. IInv => OnePendingAttempt
  BY DEF IInv
<1>2. QED
  BY Invariant, <1>1, PTL

\* mark_latest_started_round_failed only meets attempts that used up their timeout.
THEOREM NoEarlyFailure == Spec => []FailedAfterTimeout
<1>1. IInv => FailedAfterTimeout
  BY DEF IInv
<1>2. QED
  BY Invariant, <1>1, PTL

\* record_round_start precedes the request: nothing jmwalletd runs or has broadcast
\* pays a destination that is not on record.
THEOREM NothingUnrecorded == Spec => []RunsAreOnRecord
<1>1. IInv => RunsAreOnRecord
  BY DEF IInv
<1>2. QED
  BY Invariant, <1>1, PTL

-----------------------------------------------------------------------------
(***************************************************************************)
(* How a step changes a record.                                            *)
(***************************************************************************)

\* A scan settles a pending record, or leaves it.
Settled(d) ==
  /\ d \in Pending(events)
  /\ events'[d].status \in {"started", "confirmed", "multiple_matches"}
  /\ events'[d].execution_status = events[d].execution_status

\* A pending record is given up.
Failed(d) ==
  /\ d \in Pending(events)
  /\ events'[d].status = "failed"
  /\ events'[d].execution_status \in {"failed", events[d].execution_status}
  /\ events'[d].execution_status = "failed" => events[d].execution_status \in {"started", "failed"}

\* A taker with none pending, and below its limit, records its next attempt.
Recorded(d) ==
  /\ d = <<d[1], made[d[1]] + 1>> /\ pc = "gather"
  /\ MayStart(d[1])
  /\ events[d].status = "none"
  /\ events'[d].status = "started" /\ events'[d].execution_status = "requested"

\* The outcome of a start request is noted, which never is "failed".
Noted(d) ==
  /\ events'[d].status = events[d].status
  /\ events'[d].matches = events[d].matches
  /\ events'[d].execution_status # "failed"

\* No step changes two records to different ends: it scans, gives up, records or notes.
EventChange ==
  \/ events' = events
  \/ pc # "gather" /\ \A d \in Destinations : events'[d] = events[d] \/ Settled(d)
  \/ pc' # "gather" /\ \A d \in Destinations : events'[d] = events[d] \/ Failed(d)
  \/ \E new \in Destinations :
       Recorded(new) /\ \A d \in Destinations \ {new} : events'[d] = events[d]
  \/ \A d \in Destinations : events'[d] = events[d] \/ Noted(d)

\* What the updates do to the records: only a new attempt and an outcome are written.
LEMMA UpdateEvents ==
  ASSUME TypeOK, TaskInv, RecordInv, NEW t \in Takers, Update(t)
  PROVE  EventChange
<1>1. CASE AwaitMining(t) \/ LeaveAlone(t) \/ AddressFails(t) \/ StopAttempt(t)
  BY <1>1 DEF AwaitMining, LeaveAlone, AddressFails, StopAttempt, EventChange
<1>2. CASE RecordAttempt(t)
  <2> DEFINE new == <<t, made[t] + 1>>
  <2>1. new \in Destinations /\ made[t] + 1 \in Attempts /\ made[t] \in Nat
    BY <1>2, ConstantsAssumption DEF RecordAttempt, Destinations, TypeOK, Attempts
  <2>2. events' = [events EXCEPT ![new] = StartedEvent(new, currentBlock)]
    BY <1>2 DEF RecordAttempt, RecordStart
  <2>3. events'[new].status = "started" /\ events'[new].execution_status = "requested"
    BY <2>1, <2>2 DEF StartedEvent, TypeOK
  <2>4. events[new].status = "none"
    BY <2>1 DEF RecordInv
  <2>5. pc = "gather" /\ MayStart(t)
    BY <1>2 DEF RecordAttempt, MayStart, TaskInv
  <2>6. Recorded(new)
    BY <2>3, <2>4, <2>5 DEF Recorded
  <2>7. \A d \in Destinations \ {new} : events'[d] = events[d]
    BY <2>2 DEF TypeOK
  <2> QED BY <2>1, <2>6, <2>7 DEF EventChange
<1>3. CASE Acknowledged(t) \/ AnswerLost(t) \/ RequestFails(t) \/ AlreadyStarted(t)
  <2>1. events' = events \/ \E x \in {"started", "unknown"} : Outcome(t, x)
    BY <1>3 DEF Acknowledged, AnswerLost, RequestFails, AlreadyStarted, RetryStart
  <2>2. ASSUME NEW x \in {"started", "unknown"}, Outcome(t, x), NEW d \in Destinations
        PROVE  events'[d] = events[d] \/ Noted(d)
    BY <2>2 DEF Outcome, NoteExecution, Revised, Noted, TypeOK
  <2> QED BY <2>1, <2>2 DEF EventChange
<1> QED BY <1>1, <1>2, <1>3 DEF Update

\* What the engine does to them: it scans the pending ones, and gives some up.
LEMMA EngineEvents ==
  ASSUME TypeOK, RecordInv, scanHeight <= height, Engine
  PROVE  EventChange
<1>1. CASE RefreshBlock \/ RefreshFails \/ LeaveLoop \/ MineSettlement \/ StoreLabels
  BY <1>1 DEF RefreshBlock, RefreshFails, LeaveLoop, MineSettlement, StoreLabels, EventChange
<1>2. CASE ConfirmRounds \/ ConfirmFails
  <2>1. PICK h \in Nat : events' = ScanUpTo(h)
    BY <1>2 DEF ConfirmRounds, ConfirmFails, TypeOK
  <2>2. ASSUME NEW d \in Destinations PROVE events'[d] = events[d] \/ Settled(d)
    <3>1. CASE d \notin Pending(events)
      BY <2>1, <3>1, ScanStep
    <3>2. CASE d \in Pending(events)
      <4>1. events'[d].status \in {"started", "confirmed", "multiple_matches"}
        BY <2>1, <3>2, ScanStep
      <4>2. Paying(MinedBetween(scanHeight, h), d) \in SUBSET Txs /\ events[d] \in Event
        BY DEF Paying, MinedBetween, TypeOK
      <4>3. events'[d].execution_status = events[d].execution_status
        BY <2>1, <3>2, <4>2, ScanRecord, AddMatchesType DEF RecordInv
      <4> QED BY <3>2, <4>1, <4>3 DEF Settled
    <3> QED BY <3>1, <3>2
  <2>3. pc # "gather"
    BY <1>2 DEF ConfirmRounds, ConfirmFails
  <2> QED BY <2>2, <2>3 DEF EventChange
<1>3. CASE MarkTimedOut
  <2>1. ASSUME NEW d \in Destinations PROVE events'[d] = events[d] \/ Failed(d)
    <3>1. events'[d] = IF GivenUp(d) THEN MarkFailed(events[d], currentBlock) ELSE events[d]
      BY <1>3 DEF MarkTimedOut
    <3>2. events[d] \in Event /\ currentBlock \in Nat
      BY DEF TypeOK
    <3> QED BY <3>1, <3>2, MarkFailedType DEF Failed, GivenUp
  <2>2. pc' # "gather"
    BY <1>3 DEF MarkTimedOut
  <2> QED BY <2>1, <2>2 DEF EventChange
<1> QED BY <1>1, <1>2, <1>3 DEF Engine

\* How a step of the run can change its records.
LEMMA EventSteps ==
  ASSUME IInv, [Next]_vars
  PROVE  EventChange
<1>1. TypeOK /\ TaskInv /\ RecordInv /\ scanHeight <= height
  BY DEF IInv
<1>2. CASE External \/ Stored \/ UNCHANGED vars
  BY <1>2 DEF External, Stored, MineBlock, Broadcast, NegotiationFails, vars, EventChange
<1> QED BY <1>1, <1>2, UpdateEvents, EngineEvents DEF Next

(***************************************************************************)
(* Records settle once.                                                    *)
(***************************************************************************)

\* A confirmed, failed or ambiguous record keeps its status and its matches for good,
\* and an execution becomes "failed" only after jmwalletd had acknowledged its start:
\* mark_latest_started_round_failed and record_round_start_outcome.
THEOREM SettledForGood == Spec => RecordsSettleOnce
<1> DEFINE SettlesOnce ==
      \A d \in Destinations :
        /\ events[d].status \notin {"none", "started"} =>
             /\ events'[d].status = events[d].status
             /\ events'[d].matches = events[d].matches
        /\ events'[d].execution_status = "failed" =>
             events[d].execution_status \in {"started", "failed"}
<1>1. IInv /\ [Next]_vars => [SettlesOnce]_vars
  <2> SUFFICES ASSUME IInv, [Next]_vars, NEW d \in Destinations
        PROVE  /\ events[d].status \notin {"none", "started"} =>
                    /\ events'[d].status = events[d].status
                    /\ events'[d].matches = events[d].matches
               /\ events'[d].execution_status = "failed" =>
                    events[d].execution_status \in {"started", "failed"}
    OBVIOUS
  <2>1. EventChange
    BY EventSteps
  <2>2. events'[d] = events[d] \/ Settled(d) \/ Failed(d) \/ Recorded(d) \/ Noted(d)
    BY <2>1 DEF EventChange
  <2> QED BY <2>2 DEF Settled, Failed, Recorded, Noted, Pending
<1> QED BY Invariant, <1>1, PTL DEF Spec, RecordsSettleOnce


(***************************************************************************)
(* How many rounds there are.                                              *)
(***************************************************************************)

\* The records that count as rounds, or still may.
Live(ev) == Confirmed(ev) \cup Pending(ev)

\* A confirmed record stays confirmed; the updates confirm none; only RecordAttempt makes
\* a record live, by a taker that has none pending and is not paused.
LEMMA LiveSteps ==
  ASSUME IInv, [Next]_vars
  PROVE  /\ Confirmed(events) \subseteq Confirmed(events')
         /\ pc = "gather" => Confirmed(events') = Confirmed(events)
         /\ \/ Live(events') \subseteq Live(events)
            \/ \E new \in Destinations : /\ pc = "gather" /\ MayStart(new[1])
                                         /\ Live(events') = Live(events) \cup {new}
<1>1. EventChange
  BY EventSteps
<1>2. CASE events' = events
  BY <1>2
<1>3. CASE pc # "gather" /\ \A d \in Destinations : events'[d] = events[d] \/ Settled(d)
  BY <1>3 DEF Settled, Live, Confirmed, Pending, IsConfirmed
<1>4. CASE \A d \in Destinations : events'[d] = events[d] \/ Failed(d)
  BY <1>4 DEF Failed, Live, Confirmed, Pending, IsConfirmed
<1>5. CASE \A d \in Destinations : events'[d] = events[d] \/ Noted(d)
  BY <1>5 DEF Noted, Live, Confirmed, Pending, IsConfirmed
<1>6. ASSUME NEW new \in Destinations, Recorded(new),
             \A d \in Destinations \ {new} : events'[d] = events[d]
      PROVE  /\ Confirmed(events') = Confirmed(events)
             /\ pc = "gather" /\ MayStart(new[1])
             /\ Live(events') = Live(events) \cup {new}
  BY <1>6 DEF Recorded, Live, Confirmed, Pending, IsConfirmed
<1> QED BY <1>1, <1>2, <1>3, <1>4, <1>5, <1>6 DEF EventChange

\* Sets of records are finite, and the larger set has no fewer members.
LEMMA RecordSets ==
  ASSUME NEW S \in SUBSET Destinations, NEW T \in SUBSET S
  PROVE  /\ IsFiniteSet(S) /\ Cardinality(S) \in Nat
         /\ IsFiniteSet(T) /\ Cardinality(T) \in Nat /\ Cardinality(T) <= Cardinality(S)
<1>1. IsFiniteSet(S)
  BY DestinationsFinite, FS_Subset
<1> QED BY <1>1, FS_Subset, FS_CardinalityType

\* Two sets of records together have no more members than each on its own.
LEMMA UnionCount ==
  ASSUME NEW S \in SUBSET Destinations, NEW T \in SUBSET Destinations
  PROVE  Cardinality(S \cup T) <= Cardinality(S) + Cardinality(T)
<1>1. IsFiniteSet(S) /\ IsFiniteSet(T)
  BY RecordSets
<1>2. Cardinality(S \cup T) = Cardinality(S) + Cardinality(T) - Cardinality(S \cap T)
  BY <1>1, FS_Union
<1>3. Cardinality(S) \in Nat /\ Cardinality(T) \in Nat /\ Cardinality(S \cap T) \in Nat
  BY RecordSets
<1> QED BY <1>2, <1>3

\* There are no more pending records than takers.
LEMMA PendingCount ==
  ASSUME TypeOK, OnePendingAttempt
  PROVE  Cardinality(Pending(events)) <= Cardinality(Takers)
<1> DEFINE owner == [d \in Pending(events) |-> d[1]]
<1>1. owner \in [Pending(events) -> Takers]
  BY DestinationPairs DEF Pending
<1>2. ASSUME NEW d \in Pending(events), NEW e \in Pending(events), owner[d] = owner[e]
      PROVE  d = e
  <2>1. d \in Destinations /\ e \in Destinations /\ d[1] = e[1]
    BY <1>2 DEF Pending
  <2>2. d \in EventsOf(d[1]) /\ e \in EventsOf(d[1]) /\ d[1] \in Takers
    BY <2>1, DestinationPairs DEF EventsOf
  <2> QED BY <2>2 DEF OnePendingAttempt
<1>3. owner \in Injection(Pending(events), Takers)
  BY <1>1, <1>2 DEF Injection, IsInjective
<1>4. IsFiniteSet(Takers)
  BY ConstantsAssumption
<1> QED BY <1>3, <1>4, FS_Injection

\* Confirmed rounds and attempts that may still become one, of the run and of a taker;
\* while the updates run, the confirmed ones are below the limit.
CountInv ==
  /\ currentRound <= Cardinality(Confirmed(events))
  /\ pc = "gather" => ~LimitReached(Cardinality(Confirmed(events)))
  /\ Rounds > 0 => Cardinality(Live(events)) < Rounds + Cardinality(Takers)
  /\ \A t \in Takers :
       Wallets[t].max_coinjoins > 0 =>
         Cardinality(EventsOf(t) \cap Live(events)) <= Wallets[t].max_coinjoins


\* Only confirm_started_rounds sets the round count, and it lets the updates run below
\* the limit alone.
LEMMA RoundSteps ==
  ASSUME IInv, [Next]_vars
  PROVE  \/ /\ currentRound' = Cardinality(Confirmed(events'))
            /\ pc' = "gather" => ~LimitReached(Cardinality(Confirmed(events')))
         \/ currentRound' = currentRound /\ (pc' = "gather" => pc = "gather")
<1>1. CASE UNCHANGED vars \/ Stored
  BY <1>1 DEF Stored, vars, engineVars
<1>2. CASE ConfirmRounds
  BY <1>2 DEF ConfirmRounds, UpdateUnlessAtLimit, ConfirmedRounds
<1>3. CASE Engine /\ ~ConfirmRounds
  BY <1>3 DEF Engine, RefreshBlock, RefreshFails, ConfirmFails, MarkTimedOut, LeaveLoop,
     MineSettlement, StoreLabels
<1>4. CASE External \/ \E t \in Takers : Update(t)
  BY <1>4 DEF External, MineBlock, Broadcast, NegotiationFails, engineVars, Update, AwaitMining,
     LeaveAlone, RecordAttempt, AddressFails, StopAttempt, Acknowledged, AnswerLost,
     RequestFails, AlreadyStarted
<1> QED BY <1>1, <1>2, <1>3, <1>4 DEF Next

\* The counts hold at the start, where nothing is recorded.
LEMMA InitCount == Init => CountInv
<1> SUFFICES ASSUME Init PROVE CountInv
  OBVIOUS
<1>1. Confirmed(events) = {} /\ Live(events) = {}
  BY DEF Init, Unrecorded, StartedEvent, Revised, Confirmed, Pending, Live, IsConfirmed
<1>2. Cardinality({}) = 0 /\ Cardinality(Takers) \in Nat
  BY FS_EmptySet, ConstantsAssumption, FS_CardinalityType
<1>3. \A t \in Takers : EventsOf(t) \cap {} = {} /\ Wallets[t].max_coinjoins \in Nat
  BY ConstantsAssumption DEF WalletConfig
<1>4. currentRound = 0 /\ pc = "loop"
  BY DEF Init
<1>5. Rounds \in Nat
  BY ConstantsAssumption
<1> QED BY <1>1, <1>2, <1>3, <1>4, <1>5 DEF CountInv

\* Every step keeps the counts.
LEMMA CountSteps == IInv /\ CountInv /\ [Next]_vars => CountInv'
<1> SUFFICES ASSUME IInv, CountInv, [Next]_vars PROVE CountInv'
  OBVIOUS
<1> DEFINE C == Cardinality(Confirmed(events))
           C1 == Cardinality(Confirmed(events'))
<1>1. IInv' /\ Confirmed(events) \subseteq Confirmed(events')
  BY StepInv, LiveSteps
<1>2. /\ Confirmed(events') \in SUBSET Destinations /\ Live(events) \in SUBSET Destinations
      /\ Pending(events') \in SUBSET Destinations /\ Live(events') \in SUBSET Destinations
  BY DEF Live, Confirmed, Pending
<1>3. C \in Nat /\ C1 \in Nat /\ C <= C1
  BY <1>1, <1>2, RecordSets
<1>4. C1 <= Cardinality(Live(events')) /\ Cardinality(Live(events')) \in Nat
  BY <1>2, RecordSets DEF Live
<1>5. currentRound \in Nat /\ Rounds \in Nat /\ Cardinality(Takers) \in Nat
  BY ConstantsAssumption, FS_CardinalityType DEF IInv, TypeOK
<1>6. (currentRound <= Cardinality(Confirmed(events)))'
  BY <1>3, <1>5, RoundSteps DEF CountInv
<1>7. (pc = "gather" => ~LimitReached(Cardinality(Confirmed(events))))'
  <2>1. CASE pc' = "gather" /\ pc = "gather"
    BY <2>1, LiveSteps DEF CountInv, LimitReached
  <2> QED BY <2>1, RoundSteps DEF LimitReached
<1>8. ASSUME Live(events') \subseteq Live(events) PROVE CountInv'
  <2>1. Cardinality(Live(events')) <= Cardinality(Live(events)) /\ Cardinality(Live(events)) \in Nat
    BY <1>2, <1>8, RecordSets
  <2>2. (Rounds > 0 => Cardinality(Live(events)) < Rounds + Cardinality(Takers))'
    BY <1>4, <1>5, <2>1 DEF CountInv
  <2>3. ASSUME NEW t \in Takers, Wallets[t].max_coinjoins > 0
        PROVE  Cardinality(EventsOf(t) \cap Live(events')) <= Wallets[t].max_coinjoins
    <3> DEFINE S == EventsOf(t) \cap Live(events)
               S1 == EventsOf(t) \cap Live(events')
    <3>1. S \in SUBSET Destinations /\ S1 \in SUBSET S
      BY <1>2, <1>8
    <3>2. Cardinality(S1) <= Cardinality(S) /\ Cardinality(S1) \in Nat /\ Cardinality(S) \in Nat
      BY <3>1, RecordSets
    <3>3. Wallets[t].max_coinjoins \in Nat /\ Cardinality(S) <= Wallets[t].max_coinjoins
      BY <2>3, ConstantsAssumption DEF WalletConfig, CountInv
    <3> QED BY <3>2, <3>3
  <2> QED BY <1>6, <1>7, <2>2, <2>3 DEF CountInv, EventsOf
<1>9. ASSUME NEW new \in Destinations, pc = "gather", MayStart(new[1]),
             Live(events') = Live(events) \cup {new}
      PROVE  CountInv'
  <2>1. C1 = C /\ (Rounds > 0 => C < Rounds)
    BY <1>3, <1>5, <1>9, LiveSteps DEF CountInv, LimitReached
  <2>2. (Rounds > 0 => Cardinality(Live(events)) < Rounds + Cardinality(Takers))'
    <3>1. Cardinality(Pending(events')) <= Cardinality(Takers)
      <4>1. (TypeOK /\ OnePendingAttempt)'
        BY <1>1 DEF IInv
      <4>2. (Cardinality(Pending(events)) <= Cardinality(Takers))'
        BY <4>1, PendingCount, PTL
      <4> QED BY <4>2 DEF Pending, Destinations, Attempts
    <3>2. Cardinality(Live(events')) <= C1 + Cardinality(Pending(events'))
      BY <1>2, UnionCount DEF Live
    <3>3. Cardinality(Pending(events')) \in Nat
      BY <1>2, RecordSets
    <3> QED BY <1>3, <1>4, <1>5, <2>1, <3>1, <3>2, <3>3
  <2>3. ASSUME NEW t \in Takers, Wallets[t].max_coinjoins > 0
        PROVE  Cardinality(EventsOf(t) \cap Live(events')) <= Wallets[t].max_coinjoins
    <3>1. Wallets[t].max_coinjoins \in Nat
      BY ConstantsAssumption DEF WalletConfig
    <3>2. CASE t = new[1]
      <4> DEFINE S == EventsOf(t) \cap Confirmed(events)
      <4>1. EventsOf(t) \cap Live(events') \subseteq S \cup {new}
        BY <1>9, <3>2 DEF MayStart, HasPending, Live
      <4>2. Cardinality(S) < Wallets[t].max_coinjoins
        <5>1. Cardinality(S) \in Nat /\ ~(Cardinality(S) >= Wallets[t].max_coinjoins)
          BY <1>2, <1>9, <2>3, <3>2, RecordSets DEF MayStart, IsPaused, Completed, Confirmed
        <5> QED BY <3>1, <5>1
      <4>3. IsFiniteSet(S) /\ Cardinality(S) \in Nat /\ S \cup {new} \in SUBSET Destinations
        BY RecordSets DEF Confirmed
      <4>4. Cardinality(S \cup {new}) <= Cardinality(S) + 1
        <5>1. Cardinality({new}) = 1
          BY FS_Singleton
        <5>2. S \in SUBSET Destinations /\ {new} \in SUBSET Destinations
          BY DEF Confirmed
        <5> HIDE DEF S
        <5> QED BY <5>1, <5>2, UnionCount
      <4>5. /\ Cardinality(EventsOf(t) \cap Live(events')) <= Cardinality(S \cup {new})
            /\ Cardinality(EventsOf(t) \cap Live(events')) \in Nat /\ Cardinality(S \cup {new}) \in Nat
        BY <4>1, <4>3, RecordSets
      <4> HIDE DEF S
      <4> QED BY <3>1, <4>2, <4>3, <4>4, <4>5
    <3>3. CASE t # new[1]
      <4>1. EventsOf(t) \cap Live(events') = EventsOf(t) \cap Live(events)
        BY <1>9, <3>3 DEF EventsOf
      <4> QED BY <2>3, <4>1 DEF CountInv
    <3> QED BY <3>2, <3>3
  <2> QED BY <1>6, <1>7, <2>2, <2>3 DEF CountInv, EventsOf
<1> QED BY <1>8, <1>9, LiveSteps


(***************************************************************************)
(* How they are labelled.                                                  *)
(***************************************************************************)

\* What the exported labels need: no transaction is mined above the tip.
LabelInv ==
  /\ \A tx \in Txs : minedAt[tx] <= height
  /\ LabelsMatchChain

\* A record given every mined transaction of its destination is confirmed exactly by a
\* sole one: add_destination_match in store_round_events.
LEMMA FullMatch ==
  ASSUME TypeOK, RecordInv, NEW d \in Destinations
  PROVE  /\ AddMatches(events[d], Mined(d)).matches = Mined(d)
         /\ IsConfirmed(AddMatches(events[d], Mined(d))) <=> \E tx \in Txs : Mined(d) = {tx}
         /\ Mined(d) # {} => AddMatches(events[d], Mined(d)).status # "none"
<1>1. Mined(d) \in SUBSET Txs /\ events[d] \in Event /\ events[d].matches \subseteq Mined(d)
  BY DEF Mined, TypeOK, RecordInv
<1>2. AddMatches(events[d], Mined(d)).matches = Mined(d)
  <2>1. AddMatches(events[d], Mined(d)).matches = events[d].matches \cup Mined(d)
    BY <1>1, AddMatchesType
  <2> QED BY <1>1, <2>1
<1>3. CASE Mined(d) = {}
  <2>1. events[d].status # "confirmed"
    BY <1>1, <1>3 DEF RecordInv
  <2>2. AddMatches(events[d], Mined(d)).status = events[d].status
    BY <1>1, <1>3, AddMatchesType
  <2> QED BY <1>2, <1>3, <2>1, <2>2 DEF IsConfirmed
<1>4. CASE Mined(d) # {}
  <2>1. events[d].status # "duplicate_destination"
    BY DEF RecordInv
  <2>2. AddMatches(events[d], Mined(d)).status = MatchedStatus(events[d].status, Mined(d))
    <3>1. events[d].matches \cup Mined(d) = Mined(d)
      BY <1>1
    <3> QED BY <1>4, <3>1 DEF AddMatches, Revised
  <2>3. IsConfirmed(AddMatches(events[d], Mined(d))) <=> \E tx \in Mined(d) : Mined(d) = {tx}
    BY <2>1, <2>2 DEF MatchedStatus, IsConfirmed
  <2>4. AddMatches(events[d], Mined(d)).status # "none"
    BY <2>1, <2>2 DEF MatchedStatus
  <2> QED BY <1>1, <1>2, <2>3, <2>4
<1> QED BY <1>3, <1>4

\* store_round_events labels every record by all the blocks of the run.
LEMMA StoreStep ==
  ASSUME IInv, LabelInv, StoreLabels
  PROVE  LabelsMatchChain'
<1>1. TypeOK /\ RecordInv /\ RunsAreOnRecord
  BY DEF IInv
<1>2. minedAt' = minedAt
  BY DEF StoreLabels, chainVars
<1>3. SUFFICES ASSUME NEW d \in Destinations
               PROVE  /\ labels'[d].matches = Mined(d)
                      /\ Mined(d) # {} => labels'[d].status # "none"
                      /\ IsConfirmed(labels'[d]) <=> \E tx \in Txs : Mined(d) = {tx}
  BY <1>2 DEF LabelsMatchChain, Mined
<1>4. Paying(MinedBetween(0, height), d) = Mined(d)
  BY <1>1 DEF LabelInv, Paying, MinedBetween, Mined, TypeOK
<1>5. DOMAIN events = Destinations
  BY <1>1 DEF TypeOK
<1>6. CASE events[d].status = "none"
  <2>1. labels'[d] = events[d]
    BY <1>5, <1>6 DEF StoreLabels, Records, Reconcile
  <2>2. Mined(d) = {} /\ events[d].matches = {}
    BY <1>1, <1>6 DEF RunsAreOnRecord, Mined, RecordInv
  <2> QED BY <1>6, <2>1, <2>2 DEF IsConfirmed
<1>7. CASE events[d].status # "none"
  <2>1. events[d].destination = d /\ d # NoDestination /\ d \in Records
    BY <1>1, <1>7, DestinationPairs DEF RecordInv, OwnDestinations, Records
  <2>2. ~SharesDestination(events, Records, NoDestination, d)
    BY <1>1, <2>1 DEF SharesDestination, Records, RecordInv, OwnDestinations
  <2>3. labels'[d] = AddMatches(events[d], Mined(d))
    BY <1>4, <1>5, <2>1, <2>2 DEF StoreLabels, Reconcile
  <2> QED BY <1>1, <2>3, FullMatch
<1> QED BY <1>6, <1>7

\* Every step keeps the labels those of the chain.
LEMMA LabelSteps == IInv /\ LabelInv /\ [Next]_vars => LabelInv'
<1> SUFFICES ASSUME IInv, LabelInv, [Next]_vars PROVE LabelInv'
  OBVIOUS
<1>1. TypeOK
  BY DEF IInv
<1>2. CASE MineBlock \/ MineSettlement
  <2>1. PICK included \in SUBSET mempool :
          minedAt' = [tx \in Txs |-> IF tx \in included THEN height + 1 ELSE minedAt[tx]]
    BY <1>2 DEF MineBlock, MineSettlement
  <2>2. height' >= height + 1 /\ pc' # "stored" /\ height' \in Nat
    BY <1>1, <1>2 DEF MineBlock, MineSettlement, engineVars, TypeOK
  <2>3. ASSUME NEW tx \in Txs PROVE minedAt'[tx] <= height'
    BY <1>1, <2>1, <2>2 DEF LabelInv, TypeOK
  <2> QED BY <2>2, <2>3 DEF LabelInv, LabelsMatchChain
<1>3. CASE StoreLabels
  BY <1>3, StoreStep DEF LabelInv, StoreLabels, chainVars
<1>4. ASSUME UNCHANGED <<minedAt, height, labels>>, pc' = "stored" => pc = "stored"
      PROVE  LabelInv'
  BY <1>4 DEF LabelInv, LabelsMatchChain, Mined
<1>5. CASE UNCHANGED vars \/ Stored
  BY <1>4, <1>5 DEF Stored, vars, engineVars, chainVars
<1>6. CASE Engine /\ ~MineSettlement /\ ~StoreLabels
  BY <1>4, <1>6 DEF Engine, RefreshBlock, RefreshFails, ConfirmRounds, UpdateUnlessAtLimit,
     ConfirmFails, MarkTimedOut, LeaveLoop, chainVars
<1>7. CASE \E t \in Takers : Update(t) \/ Broadcast(t) \/ NegotiationFails(t)
  BY <1>4, <1>7 DEF Broadcast, NegotiationFails, engineVars, chainVars, Update, AwaitMining,
     LeaveAlone, RecordAttempt, AddressFails, StopAttempt, Acknowledged, AnswerLost,
     RequestFails, AlreadyStarted
<1> QED BY <1>2, <1>3, <1>5, <1>6, <1>7 DEF Next, External

(***************************************************************************)
(* When an attempt is settled.                                             *)
(***************************************************************************)

\* A taker with an open attempt that is in time is not paused, and once its update is
\* past its decision, the attempt is within its timeout.
SettleInv ==
  /\ currentBlock <= height
  /\ \A t \in Takers : HasPending(t) /\ ~timedOut[t] =>
       /\ ~IsPaused(t)
       /\ task[t] \in {"starting", "done"} => ~CoinjoinTimedOut(t)

\* No taker leaves by a schedule: neither stop_blocks nor stop_rounds is set.
NoStops == \A t \in Takers : Wallets[t].stop_blocks = 0 /\ Wallets[t].stop_rounds = 0

\* While an attempt of a taker is open none of its others is confirmed, so
\* completed_coinjoins stands still; it was open before, or the taker may start it.
LEMMA OpenAttempt ==
  ASSUME IInv, [Next]_vars, NEW t \in Takers, EventsOf(t) \cap Pending(events') # {}
  PROVE  /\ EventsOf(t) \cap Confirmed(events') = EventsOf(t) \cap Confirmed(events)
         /\ HasPending(t) \/ (pc = "gather" /\ MayStart(t))
<1>1. EventChange
  BY EventSteps
<1>2. EventsOf(t) \cap Pending(events') \subseteq {<<t, made'[t]>>}
  BY StepInv DEF IInv, OnePendingAttempt, EventsOf, Pending, Latest, Destinations, Attempts
<1>3. EventsOf(t) \cap Pending(events) \subseteq {Latest(t)}
  BY DEF IInv, OnePendingAttempt
<1>4. PICK d \in EventsOf(t) : d \in Pending(events')
  OBVIOUS
<1>5. CASE \A e \in Destinations : events'[e] = events[e] \/ Settled(e) \/ Failed(e)
  <2>1. d \in Pending(events)
    BY <1>4, <1>5 DEF Settled, Failed, Pending
  <2>2. \A e \in EventsOf(t) : e # d => e \notin Pending(events)
    BY <1>3, <1>4, <2>1
  <2>3. \A e \in EventsOf(t) : e \in Confirmed(events') <=> e \in Confirmed(events)
    BY <1>4, <1>5, <2>1, <2>2 DEF Settled, Failed, Confirmed, Pending, IsConfirmed
  <2> QED BY <1>4, <2>1, <2>3 DEF HasPending
<1>6. CASE \A e \in Destinations : events'[e] = events[e] \/ Noted(e)
  BY <1>4, <1>6 DEF Noted, Confirmed, Pending, IsConfirmed, HasPending
<1>7. ASSUME NEW new \in Destinations, Recorded(new),
             \A e \in Destinations \ {new} : events'[e] = events[e]
      PROVE  /\ EventsOf(t) \cap Confirmed(events') = EventsOf(t) \cap Confirmed(events)
             /\ HasPending(t) \/ (pc = "gather" /\ MayStart(t))
  <2>1. Confirmed(events') = Confirmed(events)
    BY <1>7 DEF Recorded, Confirmed, IsConfirmed
  <2>2. CASE d = new
    <3>1. new[1] = t
      BY <1>4, <2>2 DEF EventsOf
    <3> QED BY <1>7, <2>1, <3>1 DEF Recorded
  <2>3. CASE d # new
    BY <1>4, <1>7, <2>1, <2>3 DEF Pending, HasPending
  <2> QED BY <2>2, <2>3
<1> QED BY <1>1, <1>5, <1>6, <1>7 DEF EventChange

\* The block and the round the takers see only grow, and only a taker that gave its
\* attempt up is made to wait longer: update_block_clock, confirm_started_rounds.
LEMMA ClockSteps ==
  ASSUME IInv, CountInv, SettleInv, [Next]_vars
  PROVE  /\ currentBlock <= currentBlock' /\ currentBlock' <= height'
         /\ currentRound <= currentRound'
<1>1. /\ currentBlock \in Nat /\ height \in Nat /\ currentRound \in Nat
      /\ currentBlock <= height
  BY DEF IInv, TypeOK, SettleInv
<1>2. currentRound <= currentRound'
  <2>1. /\ Confirmed(events') \in SUBSET Destinations
        /\ Confirmed(events) \in SUBSET Confirmed(events')
    BY LiveSteps DEF Confirmed
  <2>2. /\ Cardinality(Confirmed(events)) \in Nat /\ Cardinality(Confirmed(events')) \in Nat
        /\ Cardinality(Confirmed(events)) <= Cardinality(Confirmed(events'))
    BY <2>1, RecordSets
  <2>3. currentRound <= Cardinality(Confirmed(events))
    BY DEF CountInv
  <2> QED BY <1>1, <2>2, <2>3, RoundSteps
<1>3. CASE RefreshBlock
  BY <1>1, <1>2, <1>3 DEF RefreshBlock, chainVars
<1>4. CASE MineBlock \/ MineSettlement
  BY <1>1, <1>2, <1>4 DEF MineBlock, MineSettlement, engineVars
<1>5. CASE UNCHANGED <<currentBlock, height>>
  BY <1>1, <1>2, <1>5
<1>6. CASE UNCHANGED vars \/ Stored
  BY <1>5, <1>6 DEF Stored, vars, engineVars, chainVars
<1>7. CASE Engine /\ ~RefreshBlock /\ ~MineSettlement
  BY <1>5, <1>7 DEF Engine, RefreshFails, ConfirmRounds, ConfirmFails, MarkTimedOut, LeaveLoop,
     StoreLabels, chainVars
<1>8. CASE \E t \in Takers : Update(t) \/ Broadcast(t) \/ NegotiationFails(t)
  BY <1>5, <1>8 DEF Broadcast, NegotiationFails, engineVars, chainVars, Update, AwaitMining,
     LeaveAlone, RecordAttempt, AddressFails, StopAttempt, Acknowledged, AnswerLost,
     RequestFails, AlreadyStarted
<1> QED BY <1>3, <1>4, <1>6, <1>7, <1>8 DEF Next, External

\* A taker whose attempt stays open and in time had it in time before, and waits no
\* longer than it did: StopAttempt is the only branch that sets next_coinjoin_allowed.
LEMMA StillInTime ==
  ASSUME IInv, [Next]_vars, NEW t \in Takers,
         EventsOf(t) \cap Pending(events') # {}, ~timedOut'[t]
  PROVE  ~timedOut[t] /\ nextAllowed'[t] = nextAllowed[t]
<1>1. TypeOK /\ TaskInv /\ OnePendingAttempt
  BY DEF IInv
<1>2. CASE MarkTimedOut
  <2>1. PICK d \in EventsOf(t) : d \in Pending(events')
    OBVIOUS
  <2>2. d \in Destinations /\ d[1] = t
    BY <2>1 DEF EventsOf, Destinations
  <2>3. events'[d] = IF GivenUp(d) THEN MarkFailed(events[d], currentBlock) ELSE events[d]
    BY <1>2, <2>2 DEF MarkTimedOut
  <2>4. ~GivenUp(d)
    BY <2>1, <2>3 DEF Pending, MarkFailed, Revised
  <2>5. d \in Pending(events)
    BY <2>1, <2>3, <2>4 DEF Pending
  <2>6. \A e \in EventsOf(t) \cap Pending(events) : e = d
    BY <1>1, <2>1, <2>5 DEF OnePendingAttempt
  <2>7. d[2] \in Nat
    BY <2>2, DestinationPairs DEF Attempts
  <2>8. ~timedOut[t]
    BY <2>2, <2>4, <2>5, <2>6, <2>7 DEF GivenUp
  <2> QED BY <1>2, <2>8 DEF MarkTimedOut
<1>3. CASE UNCHANGED <<timedOut, nextAllowed>>
  BY <1>3
<1>4. CASE UNCHANGED vars \/ Stored
  BY <1>3, <1>4 DEF Stored, vars, takerVars
<1>5. CASE Engine /\ ~MarkTimedOut
  BY <1>3, <1>5 DEF Engine, RefreshBlock, RefreshFails, ConfirmRounds, ConfirmFails, LeaveLoop,
     MineSettlement, StoreLabels, takerVars
<1>6. CASE External
  BY <1>3, <1>6 DEF External, MineBlock, Broadcast, NegotiationFails, takerVars
<1>7. ASSUME NEW u \in Takers, AwaitMining(u) \/ StopAttempt(u)
      PROVE  ~timedOut[t] /\ nextAllowed'[t] = nextAllowed[t]
  <2>1. ~timedOut[u]
    BY <1>1, <1>7 DEF AwaitMining, StopAttempt, TaskInv
  <2> QED BY <1>1, <1>7, <2>1 DEF AwaitMining, StopAttempt, TypeOK
<1>8. ASSUME NEW u \in Takers, Update(u), ~AwaitMining(u), ~StopAttempt(u)
      PROVE  UNCHANGED <<timedOut, nextAllowed>>
  BY <1>8 DEF Update, LeaveAlone, RecordAttempt, AddressFails, Acknowledged, AnswerLost,
     RequestFails, AlreadyStarted
<1> QED BY <1>2, <1>3, <1>4, <1>5, <1>6, <1>7, <1>8 DEF Next

\* What may still pause the taker of an open attempt is a stop of its schedule alone.
LEMMA StaysAwake ==
  ASSUME IInv, CountInv, SettleInv, NoStops, [Next]_vars, NEW t \in Takers,
         EventsOf(t) \cap Pending(events') # {}, ~timedOut'[t]
  PROVE  ~IsPaused(t)'
<1>1. ~timedOut[t] /\ nextAllowed'[t] = nextAllowed[t]
  BY StillInTime
<1>2. ~IsPaused(t)
  <2>1. HasPending(t) \/ MayStart(t)
    BY OpenAttempt
  <2> QED BY <1>1, <2>1 DEF SettleInv, MayStart
<1>3. /\ currentBlock \in Nat /\ currentBlock' \in Nat /\ currentBlock <= currentBlock'
      /\ currentRound \in Nat /\ currentRound' \in Nat /\ currentRound <= currentRound'
      /\ nextAllowed[t] \in Nat
  BY ClockSteps, StepInv DEF IInv, TypeOK
<1>4. /\ Wallets[t].delay_blocks \in Nat /\ Wallets[t].delay_rounds \in Nat
      /\ Wallets[t].stop_blocks = 0 /\ Wallets[t].stop_rounds = 0
  BY ConstantsAssumption DEF WalletConfig, NoStops
<1>5. ~OutsideSchedule(t)'
  BY <1>2, <1>3, <1>4 DEF IsPaused, OutsideSchedule
<1>6. ~(currentBlock' < nextAllowed'[t])
  BY <1>1, <1>2, <1>3 DEF IsPaused
<1>7. Completed(t)' = Completed(t)
  BY OpenAttempt DEF Completed, EventsOf
<1> QED BY <1>2, <1>5, <1>6, <1>7 DEF IsPaused

\* An update is decided by its look at the timeout, or reports it.
LEMMA SettleSteps == NoStops /\ IInv /\ CountInv /\ SettleInv /\ [Next]_vars => SettleInv'
<1> SUFFICES ASSUME NoStops, IInv, CountInv, SettleInv, [Next]_vars PROVE SettleInv'
  OBVIOUS
<1>1. TypeOK /\ TaskInv
  BY DEF IInv
<1>2. SUFFICES ASSUME NEW t \in Takers, EventsOf(t) \cap Pending(events') # {},
                      ~timedOut'[t], task'[t] \in {"starting", "done"}
               PROVE  ~CoinjoinTimedOut(t)'
  BY ClockSteps, StaysAwake DEF SettleInv, HasPending, EventsOf
<1>3. ~timedOut[t] /\ ~IsPaused(t)
  <2>1. ~timedOut[t]
    BY <1>2, StillInTime
  <2>2. HasPending(t) \/ MayStart(t)
    BY <1>2, OpenAttempt
  <2> QED BY <2>1, <2>2 DEF SettleInv, MayStart
<1>4. CASE /\ UNCHANGED <<currentBlock, coinjoinStart, events>>
           /\ task'[t] = task[t]
  BY <1>2, <1>3, <1>4 DEF SettleInv, HasPending, CoinjoinTimedOut
<1>5. CASE UNCHANGED vars \/ Stored \/ External
  BY <1>4, <1>5 DEF Stored, External, MineBlock, Broadcast, NegotiationFails, vars, engineVars,
     takerVars
<1>6. CASE Engine
  <2>1. task'[t] \in {"none", "status"}
    BY <1>1, <1>6 DEF Engine, RefreshBlock, RefreshFails, ConfirmRounds, UpdateUnlessAtLimit,
       ConfirmFails, MarkTimedOut, LeaveLoop, MineSettlement, StoreLabels, takerVars, TaskInv
  <2> QED BY <1>2, <2>1
<1>7. ASSUME NEW u \in Takers, Update(u), u # t
      PROVE  ~CoinjoinTimedOut(t)'
  <2>1. /\ currentBlock' = currentBlock /\ coinjoinStart'[t] = coinjoinStart[t]
        /\ task'[t] = task[t]
    BY <1>1, <1>7 DEF Update, AwaitMining, LeaveAlone, RecordAttempt, AddressFails, StopAttempt,
       Acknowledged, AnswerLost, RequestFails, AlreadyStarted, RetryStart, Outcome, Finish,
       engineVars, TypeOK
  <2>2. HasPending(t)
    BY <1>2, <2>1, OpenAttempt DEF MayStart
  <2> QED BY <1>2, <1>3, <2>1, <2>2 DEF SettleInv, CoinjoinTimedOut
<1>8. CASE AwaitMining(t)
  BY <1>1, <1>2, <1>8 DEF AwaitMining, TypeOK, engineVars, CoinjoinTimedOut
<1>9. CASE LeaveAlone(t) \/ AddressFails(t) \/ StopAttempt(t)
  <2>1. HasPending(t)
    BY <1>2, <1>9 DEF HasPending, LeaveAlone, AddressFails, StopAttempt
  <2>2. LeaveAlone(t)
    BY <1>1, <1>2, <1>9, <2>1 DEF AddressFails, MayStart, StopAttempt, TypeOK
  <2>3. ~CoinjoinTimedOut(t)
    BY <1>3, <2>1, <2>2 DEF LeaveAlone
  <2> QED BY <2>2, <2>3 DEF LeaveAlone, engineVars, CoinjoinTimedOut
<1>10. CASE RecordAttempt(t)
  <2>1. currentBlock' = currentBlock /\ coinjoinStart'[t] = currentBlock
    BY <1>1, <1>10 DEF RecordAttempt, engineVars, TypeOK
  <2>2. currentBlock \in Nat /\ Wallets[t].coinjoin_timeout_blocks \in Nat \ {0}
    BY <1>1, ConstantsAssumption DEF TypeOK, WalletConfig
  <2> QED BY <2>1, <2>2 DEF CoinjoinTimedOut
<1>11. CASE Acknowledged(t) \/ AnswerLost(t) \/ RequestFails(t) \/ AlreadyStarted(t)
  <2>1. /\ currentBlock' = currentBlock /\ coinjoinStart' = coinjoinStart
        /\ task[t] = "starting"
    BY <1>11 DEF Acknowledged, AnswerLost, RequestFails, AlreadyStarted, engineVars
  <2>2. HasPending(t)
    BY <1>2, <2>1, OpenAttempt DEF MayStart
  <2> QED BY <1>3, <2>1, <2>2 DEF SettleInv, CoinjoinTimedOut
<1> QED BY <1>5, <1>6, <1>7, <1>8, <1>9, <1>10, <1>11 DEF Next, Update

(***************************************************************************)
(* The theorems.                                                           *)
(***************************************************************************)

\* The counts and the labels hold in every run.
THEOREM OutcomeInvariant == Spec => [](IInv /\ CountInv /\ LabelInv)
<1>1. Init => LabelInv
  BY DEF Init, LabelInv, LabelsMatchChain
<1>2. IInv /\ CountInv /\ LabelInv /\ [Next]_vars => (CountInv /\ LabelInv)'
  BY CountSteps, LabelSteps
<1> QED BY Invariant, InitCount, <1>1, <1>2, PTL DEF Spec

\* Every confirmed round names one mined transaction that pays its destination, and
\* current_round counts none that was not confirmed.
THEOREM RoundsAreReal == Spec => []RoundsAreMined
<1>1. IInv /\ CountInv => RoundsAreMined
  <2> SUFFICES ASSUME IInv, CountInv PROVE RoundsAreMined
    OBVIOUS
  <2>1. ASSUME NEW d \in Confirmed(events)
        PROVE  \E tx \in Mined(d) : events[d].matches = {tx}
    BY DEF IInv, RecordInv, Confirmed, IsConfirmed
  <2> QED BY <2>1 DEF RoundsAreMined, CountInv
<1> QED BY OutcomeInvariant, <1>1, PTL

\* Takers that start rounds in parallel overshoot scenario.rounds by less than one each.
THEOREM OvershootIsBounded == Spec => []RoundOvershoot
<1>1. IInv /\ CountInv => RoundOvershoot
  <2> SUFFICES ASSUME CountInv, Rounds > 0
               PROVE  Cardinality(Confirmed(events)) < Rounds + Cardinality(Takers)
    BY DEF RoundOvershoot
  <2>1. Live(events) \in SUBSET Destinations /\ Confirmed(events) \in SUBSET Live(events)
    BY DEF Live, Confirmed, Pending
  <2>2. /\ Cardinality(Confirmed(events)) <= Cardinality(Live(events))
        /\ Cardinality(Confirmed(events)) \in Nat /\ Cardinality(Live(events)) \in Nat
    BY <2>1, RecordSets
  <2>3. Cardinality(Takers) \in Nat /\ Rounds \in Nat
    BY ConstantsAssumption, FS_CardinalityType
  <2> QED BY <2>2, <2>3 DEF CountInv
<1> QED BY OutcomeInvariant, <1>1, PTL

\* No taker is counted more live rounds than its max_coinjoins.
THEOREM LimitIsKept == Spec => []MaxCoinjoinsRespected
<1>1. IInv /\ CountInv => MaxCoinjoinsRespected
  <2> SUFFICES ASSUME CountInv, NEW t \in Takers, Wallets[t].max_coinjoins > 0
               PROVE  Completed(t) <= Wallets[t].max_coinjoins
    BY DEF MaxCoinjoinsRespected
  <2> DEFINE S == EventsOf(t) \cap Confirmed(events)
             L == EventsOf(t) \cap Live(events)
  <2>1. L \in SUBSET Destinations /\ S \in SUBSET L
    BY DEF Live, Confirmed, Pending
  <2>2. Cardinality(S) <= Cardinality(L) /\ Cardinality(S) \in Nat /\ Cardinality(L) \in Nat
    BY <2>1, RecordSets
  <2>3. Wallets[t].max_coinjoins \in Nat /\ Cardinality(L) <= Wallets[t].max_coinjoins
    BY ConstantsAssumption DEF WalletConfig, CountInv
  <2> QED BY <2>2, <2>3 DEF Completed
<1> QED BY OutcomeInvariant, <1>1, PTL

\* The exported labels are the chain's, whatever the run believed of an attempt.
THEOREM LabelsAreTrue == Spec => []LabelsMatchChain
<1>1. LabelInv => LabelsMatchChain
  BY DEF LabelInv
<1> QED BY OutcomeInvariant, <1>1, PTL

\* Where no taker has a stop schedule, no attempt is pending beyond its timeout after the
\* updates of an iteration, as the comment of update_async promises.  With a stop it may
\* be: is_paused is asked before the timeout.
THEOREM AttemptsAreSettled ==
  ASSUME \A t \in Takers : Wallets[t].stop_blocks = 0 /\ Wallets[t].stop_rounds = 0
  PROVE  Spec => NoOverdueAttempt
<1> DEFINE Settles ==
      pc = "gather" /\ pc' = "loop" =>
        \A t \in Takers : \A d \in EventsOf(t) \cap Pending(events') :
          events[d].start_block + Wallets[t].coinjoin_timeout_blocks >= currentBlock
<1>1. NoStops
  BY DEF NoStops
<1>2. Init => SettleInv
  BY DEF Init, SettleInv, HasPending, Pending, Unrecorded, StartedEvent, Revised
<1>3. IInv /\ CountInv /\ SettleInv /\ [Next]_vars => SettleInv'
  BY <1>1, SettleSteps
<1>4. IInv /\ SettleInv /\ [Next]_vars => [Settles]_vars
  <2> SUFFICES ASSUME IInv, SettleInv, [Next]_vars, pc = "gather", pc' = "loop",
                      NEW t \in Takers, NEW d \in EventsOf(t) \cap Pending(events')
               PROVE  events[d].start_block + Wallets[t].coinjoin_timeout_blocks >= currentBlock
    OBVIOUS
  <2>1. TypeOK /\ TaskInv /\ OnePendingAttempt
    BY DEF IInv
  <2>2. MarkTimedOut
    BY DEF Next, Engine, RefreshBlock, RefreshFails, ConfirmRounds, ConfirmFails, LeaveLoop,
       MineSettlement, StoreLabels, External, MineBlock, Broadcast, NegotiationFails, Stored,
       Update, AwaitMining, LeaveAlone, RecordAttempt, AddressFails, StopAttempt, Acknowledged,
       AnswerLost, RequestFails, AlreadyStarted, vars, engineVars
  <2>3. ~timedOut'[t]
    BY <2>2 DEF MarkTimedOut
  <2>4. ~timedOut[t]
    BY <2>3, StillInTime
  <2>5. HasPending(t) /\ task[t] = "done"
    BY <2>2, OpenAttempt DEF MarkTimedOut, Gathered, MayStart
  <2>6. ~CoinjoinTimedOut(t)
    BY <2>4, <2>5 DEF SettleInv
  <2>7. d \in Pending(events) /\ d \in Destinations
    <3>1. d \in Destinations
      BY DEF EventsOf, Destinations
    <3>2. events'[d] = IF GivenUp(d) THEN MarkFailed(events[d], currentBlock) ELSE events[d]
      BY <2>2, <3>1 DEF MarkTimedOut
    <3> QED BY <3>1, <3>2 DEF GivenUp, Pending
  <2>8. d = Latest(t)
    BY <2>1, <2>7 DEF OnePendingAttempt
  <2>9. made[t] > 0
    BY <2>1, <2>7, <2>8 DEF Destinations, Attempts, Latest
  <2>10. coinjoinStart[t] = events[d].start_block
    BY <2>1, <2>8, <2>9 DEF TaskInv
  <2>11. /\ coinjoinStart[t] \in Nat /\ currentBlock \in Nat
         /\ Wallets[t].coinjoin_timeout_blocks \in Nat
    BY <2>1, ConstantsAssumption DEF TypeOK, WalletConfig
  <2> QED BY <2>6, <2>10, <2>11 DEF CoinjoinTimedOut
<1> QED BY OutcomeInvariant, <1>2, <1>3, <1>4, PTL DEF Spec, NoOverdueAttempt
===============================================================================
