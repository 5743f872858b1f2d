------------------------------ MODULE TakerRounds ------------------------------
(***************************************************************************)
(* One JoinMarket run: the engine's loop, its takers' asynchronous         *)
(* updates, the jmwalletd of each taker and the chain that decides which   *)
(* attempts became CoinJoins.                                              *)
(*                                                                         *)
(*   engine    src/manager/engine/joinmarket_engine.py: run_engine,        *)
(*             update_coinjoins_joinmarket_async, confirm_started_rounds   *)
(*   takers    src/manager/wasabi_clients/joinmarket_clients/              *)
(*             joinmarket_clients.py: TakerClient.update_async             *)
(*   records   src/manager/engine/joinmarket/ (module RoundEvents)         *)
(*   external  jmwalletd, the mempool and the miner, as the code uses them *)
(*                                                                         *)
(* Heights and blocks count from the end of the warm-up, where             *)
(* start_block_clock sets initial_block: no earlier block can hold a       *)
(* CoinJoin of the run, so the initial _round_scan_height of -1 is 0 here. *)
(* Makers, the orderbook watcher, tumblers, invoices and post-mix spends   *)
(* share the loop but none of the state below.                             *)
(***************************************************************************)
EXTENDS Integers, FiniteSets, RoundEvents

CONSTANTS
  Takers,        \* the takers without tumbler options
  Rounds,        \* scenario.rounds, 0 for none
  Blocks,        \* scenario.blocks, 0 for none
  Wallets,       \* each taker's configuration: schedule, pacing and limits
  StartTries,    \* the _rpc repeat of a start request
  MaxAttempts,   \* bound: attempts a taker makes
  MaxHeight      \* bound: height up to which the container mines

\* The fields from_wallet gives a client; 0 means none, but for the timeout.
WalletConfig ==
  [ delay_blocks : Nat, delay_rounds : Nat, stop_blocks : Nat, stop_rounds : Nat,
    max_coinjoins : Nat, time_between_rounds : Nat,
    coinjoin_timeout_blocks : Nat \ {0} ]   \* the constructor rejects 0

ASSUME ConstantsAssumption ==
  /\ IsFiniteSet(Takers)
  /\ Rounds \in Nat /\ Blocks \in Nat
  /\ Wallets \in [Takers -> WalletConfig]
  /\ StartTries \in Nat \ {0}
  /\ MaxAttempts \in Nat /\ MaxHeight \in Nat

Attempts == 1..MaxAttempts

\* get_new_address never repeats: a destination is named by its attempt.
Destinations == Takers \X Attempts
NoDestination == <<>>

\* A CoinJoin is named by the attempt it pays and by the request that ran it.
Tx(t, i, k) == [outputs |-> {<<t, i>>}, request |-> k]
Txs == {Tx(t, i, k) : t \in Takers, i \in Attempts, k \in 1..StartTries}

Idle == [attempt |-> 0, request |-> 0]

Unrecorded == Revised(StartedEvent(NoDestination, 0), "none", "requested", 0, {})

VARIABLES
  pc,             \* where run_engine is
  currentBlock,   \* engine.current_block
  currentRound,   \* engine.current_round
  scanHeight,     \* engine._round_scan_height
  events,         \* the round_events of every taker, by destination
  made,           \* len(round_events) of each taker
  task,           \* where update_async of each taker is
  tries,          \* requests left of a start under way
  timedOut,       \* whether update_async answered -1
  coinjoinStart,  \* coinjoin_start of each taker
  nextAllowed,    \* next_coinjoin_allowed of each taker
  jm,             \* the attempt each jmwalletd runs
  mempool,        \* broadcast transactions not mined yet
  minedAt,        \* height each transaction is mined at, 0 if it is not
  height,         \* blocks mined since the warm-up
  labels          \* the exported records

engineVars == <<pc, currentBlock, currentRound, scanHeight, labels>>
takerVars  == <<made, task, tries, timedOut, coinjoinStart, nextAllowed>>
chainVars  == <<mempool, minedAt, height>>
vars == <<engineVars, takerVars, events, jm, chainVars>>

(***************************************************************************)
(* What the code computes from that state.                                 *)
(***************************************************************************)
EventsOf(t) == {<<t, i>> : i \in Attempts}
Pending(ev) == {d \in Destinations : ev[d].status = "started"}
Confirmed(ev) == {d \in Destinations : IsConfirmed(ev[d])}

HasPending(t) == EventsOf(t) \cap Pending(events) # {}

\* update_async refreshes completed_coinjoins right before it is read.
Completed(t) == Cardinality(EventsOf(t) \cap Confirmed(events))

\* Wrong variant: an attempt is given up in the last block it may still use.
CoinjoinTimedOutEarly(t) ==
  coinjoinStart[t] + Wallets[t].coinjoin_timeout_blocks <= currentBlock

CoinjoinTimedOut(t) == coinjoinStart[t] + Wallets[t].coinjoin_timeout_blocks < currentBlock

OutsideSchedule(t) ==
  \/ currentBlock < Wallets[t].delay_blocks
  \/ currentRound < Wallets[t].delay_rounds
  \/ Wallets[t].stop_blocks > 0 /\ Wallets[t].stop_blocks <= currentBlock
  \/ Wallets[t].stop_rounds > 0 /\ Wallets[t].stop_rounds <= currentRound

\* Wrong variant: one CoinJoin more than max_coinjoins.
IsPausedLate(t) ==
  \/ OutsideSchedule(t)
  \/ currentBlock < nextAllowed[t]
  \/ Wallets[t].max_coinjoins > 0 /\ Completed(t) > Wallets[t].max_coinjoins

IsPaused(t) ==
  \/ OutsideSchedule(t)
  \/ currentBlock < nextAllowed[t]
  \/ Wallets[t].max_coinjoins > 0 /\ Completed(t) >= Wallets[t].max_coinjoins

\* Wrong variant: a started attempt counts as a round before it is mined.
StartedRounds(ev) == Cardinality(Confirmed(ev) \cup Pending(ev))

\* count_confirmed_rounds
ConfirmedRounds(ev) == Cardinality(Confirmed(ev))

\* Wrong variant: one round more than the scenario asks for.
LimitExceeded(round) == Rounds > 0 /\ round > Rounds

LimitReached(round) == Rounds > 0 /\ round >= Rounds

\* The condition of the while loop of run_engine.
KeepRunning ==
  /\ ~LimitReached(currentRound)
  /\ Blocks = 0 \/ currentBlock < Blocks

\* The transactions of the blocks above one height and up to another.
MinedBetween(above, upto) == {tx \in Txs : above < minedAt[tx] /\ minedAt[tx] <= upto}

\* Wrong variant: the live scan also matches attempts already given up.
ScanAllUpTo(h) ==
  Reconcile(events, {d \in Destinations : events[d].status # "none"}, NoDestination,
            MinedBetween(scanHeight, h))

\* confirm_rounds_in_blocks over the blocks above scanHeight and up to a height.
ScanUpTo(h) ==
  Reconcile(events, Pending(events), NoDestination, MinedBetween(scanHeight, h))

Init ==
  /\ pc = "loop"
  /\ currentBlock = 0 /\ currentRound = 0 /\ scanHeight = 0
  /\ events = [d \in Destinations |-> Unrecorded]
  /\ labels = events
  /\ made = [t \in Takers |-> 0]
  /\ task = [t \in Takers |-> "none"]
  /\ tries = [t \in Takers |-> 0]
  /\ timedOut = [t \in Takers |-> FALSE]
  /\ coinjoinStart = [t \in Takers |-> 0]
  /\ nextAllowed = [t \in Takers |-> Wallets[t].delay_blocks]
  /\ jm = [t \in Takers |-> Idle]
  /\ mempool = {}
  /\ minedAt = [tx \in Txs |-> 0]
  /\ height = 0

--------------------------------------------------------------------------------
(***************************************************************************)
(* The engine's loop.                                                      *)
(***************************************************************************)

\* Wrong variant: the block clock starts one block too late.
RefreshBlockLate ==
  /\ pc = "loop" /\ KeepRunning
  /\ pc' = "confirm"
  /\ currentBlock' = height - 1
  /\ UNCHANGED <<currentRound, scanHeight, labels, takerVars, events, jm, chainVars>>

\* The block count is read, or all three tries fail and the old one stays.
RefreshBlock ==
  /\ pc = "loop" /\ KeepRunning
  /\ pc' = "confirm"
  /\ currentBlock' = height
  /\ UNCHANGED <<currentRound, scanHeight, labels, takerVars, events, jm, chainVars>>

RefreshFails ==
  /\ pc = "loop" /\ KeepRunning
  /\ pc' = "confirm"
  /\ UNCHANGED <<currentBlock, currentRound, scanHeight, labels, takerVars, events, jm, chainVars>>

\* The limit check of update_coinjoins_joinmarket_async, and its gather.
UpdateUnlessAtLimit ==
  IF LimitReached(currentRound')
  THEN pc' = "loop" /\ task' = task
  ELSE pc' = "gather" /\ task' = [t \in Takers |-> "status"]

\* confirm_started_rounds, and the updates of the takers it allows.
ConfirmRounds ==
  /\ pc = "confirm"
  /\ events' = ScanUpTo(height)
  /\ scanHeight' = height
  /\ currentRound' = ConfirmedRounds(events')
  /\ UpdateUnlessAtLimit
  /\ UNCHANGED <<currentBlock, labels, made, tries, timedOut, coinjoinStart, nextAllowed, jm, chainVars>>

\* Wrong variant: the scanned height is stored before the scan.
ConfirmFailsLate ==
  /\ pc = "confirm"
  /\ pc' = "loop"
  /\ scanHeight' = height
  /\ \E h \in scanHeight..height : events' = ScanUpTo(h)
  /\ UNCHANGED <<currentBlock, currentRound, labels, takerVars, jm, chainVars>>

\* A node call fails: the blocks before it are matched, nothing else is kept.
ConfirmFails ==
  /\ pc = "confirm"
  /\ pc' = "loop"
  /\ \E h \in scanHeight..height : events' = ScanUpTo(h)
  /\ UNCHANGED <<currentBlock, currentRound, scanHeight, labels, takerVars, jm, chainVars>>

\* Wrong variant: the updates return only once no CoinJoin is in process.
GatheredWhenIdle == \A t \in Takers : task[t] = "done" /\ jm[t] = Idle

Gathered == \A t \in Takers : task[t] = "done"

\* The record mark_latest_started_round_failed picks for a taker that timed out.
GivenUp(d) ==
  /\ timedOut[d[1]]
  /\ d \in Pending(events)
  /\ \A e \in EventsOf(d[1]) \cap Pending(events) : e[2] <= d[2]

\* asyncio.gather is complete: attempts reported as timed out are failed.
MarkTimedOut ==
  /\ pc = "gather"
  /\ Gathered
  /\ pc' = "loop"
  /\ events' = [d \in Destinations |->
                  IF GivenUp(d) THEN MarkFailed(events[d], currentBlock) ELSE events[d]]
  /\ task' = [t \in Takers |-> "none"]
  /\ timedOut' = [t \in Takers |-> FALSE]
  /\ UNCHANGED <<currentBlock, currentRound, scanHeight, labels, made, tries, coinjoinStart, nextAllowed, jm, chainVars>>

LeaveLoop ==
  /\ pc = "loop" /\ ~KeepRunning
  /\ pc' = "settle"
  /\ UNCHANGED <<currentBlock, currentRound, scanHeight, labels, takerVars, events, jm, chainVars>>

\* The last broadcasts get three confirmations before artifacts are stored.
MineSettlement ==
  /\ pc = "settle"
  /\ pc' = "store"
  /\ height' = height + 3
  /\ \E included \in SUBSET mempool :
        /\ minedAt' = [tx \in Txs |-> IF tx \in included THEN height + 1 ELSE minedAt[tx]]
        /\ mempool' = mempool \ included
  /\ UNCHANGED <<currentBlock, currentRound, scanHeight, labels, takerVars, events, jm>>

\* Wrong variant: an attempt given up during the run is not matched any more.
LiveRecords == Pending(events) \cup Confirmed(events)

\* collect_round_events: every record of every taker.
Records == {d \in Destinations : events[d].status # "none"}

\* store_round_events: every record is reconciled with every exported block.
StoreLabels ==
  /\ pc = "store"
  /\ pc' = "stored"
  /\ labels' = Reconcile(events, Records, NoDestination, MinedBetween(0, height))
  /\ UNCHANGED <<currentBlock, currentRound, scanHeight, takerVars, events, jm, chainVars>>

--------------------------------------------------------------------------------
(***************************************************************************)
(* update_async of one taker.  The session answers whether a CoinJoin is   *)
(* in process; a failed session call reads as "not in process", so only    *)
(* "in process" says something of jmwalletd.  The task runs without an     *)
(* await from that answer to the start request: one action takes each of   *)
(* its branches.  AwaitMining, MayStart: the answer is "not in process".   *)
(***************************************************************************)
SessionAnswers(t) == {jm[t] # Idle, FALSE}

Finish(t) ==
  /\ task' = [task EXCEPT ![t] = "done"]
  /\ UNCHANGED tries

\* jmwalletd is idle while an attempt awaits mining: wait for it or give it up.
AwaitMining(t) ==
  /\ task[t] = "status"
  /\ HasPending(t)
  /\ timedOut' = [timedOut EXCEPT ![t] = CoinjoinTimedOut(t)]
  /\ Finish(t)
  /\ UNCHANGED <<engineVars, made, coinjoinStart, nextAllowed, events, jm, chainVars>>

\* A paused taker, or one whose attempt may still run, is left alone.
LeaveAlone(t) ==
  /\ task[t] = "status"
  /\ \E busy \in SessionAnswers(t) :
        /\ busy \/ ~HasPending(t)
        /\ IsPaused(t) \/ (busy /\ ~CoinjoinTimedOut(t))
  /\ Finish(t)
  /\ UNCHANGED <<engineVars, made, timedOut, coinjoinStart, nextAllowed, events, jm, chainVars>>

\* Wrong variant: an unconfirmed attempt does not hold back the next one.
MayStartAnother(t) ==
  /\ task[t] = "status"
  /\ ~IsPaused(t)

MayStart(t) ==
  /\ task[t] = "status"
  /\ ~HasPending(t)
  /\ ~IsPaused(t)

\* Wrong variant: the attempt is recorded once its start is acknowledged.
NotRecordedYet(t) == events

\* record_round_start
RecordStart(t) ==
  [events EXCEPT ![<<t, made[t] + 1>>] = StartedEvent(<<t, made[t] + 1>>, currentBlock)]

\* The attempt is recorded before jmwalletd is asked to start it.
RecordAttempt(t) ==
  /\ MayStart(t)
  /\ made[t] < MaxAttempts
  /\ made' = [made EXCEPT ![t] = @ + 1]
  /\ events' = RecordStart(t)
  /\ coinjoinStart' = [coinjoinStart EXCEPT ![t] = currentBlock]
  /\ task' = [task EXCEPT ![t] = "starting"]
  /\ tries' = [tries EXCEPT ![t] = StartTries]
  /\ UNCHANGED <<engineVars, timedOut, nextAllowed, jm, chainVars>>

\* No address could be generated: the update fails before anything is recorded.
AddressFails(t) ==
  /\ MayStart(t)
  /\ Finish(t)
  /\ UNCHANGED <<engineVars, made, timedOut, coinjoinStart, nextAllowed, events, jm, chainVars>>

\* A running attempt is stopped at its timeout; stop_coinjoin hides a failure.
StopAttempt(t) ==
  /\ task[t] = "status"
  /\ jm[t] # Idle
  /\ ~IsPaused(t)
  /\ CoinjoinTimedOut(t)
  /\ \E after \in {jm[t], Idle} : jm' = [jm EXCEPT ![t] = after]
  /\ nextAllowed' = [nextAllowed EXCEPT ![t] = currentBlock + Wallets[t].time_between_rounds]
  /\ timedOut' = [timedOut EXCEPT ![t] = TRUE]
  /\ Finish(t)
  /\ UNCHANGED <<engineVars, made, coinjoinStart, events, chainVars>>

(***************************************************************************)
(* The start request, an _rpc_async of StartTries tries.                   *)
(***************************************************************************)
Latest(t) == <<t, made[t]>>
ThisRun(t) == [attempt |-> made[t], request |-> tries[t]]

\* record_round_start_outcome, and the end of the update.
Outcome(t, execution) ==
  /\ events' = [events EXCEPT ![Latest(t)] = NoteExecution(@, execution)]
  /\ Finish(t)

\* One try got no usable answer: ask again, or give up without an answer.
RetryStart(t) ==
  IF tries[t] > 1
  THEN /\ tries' = [tries EXCEPT ![t] = @ - 1]
       /\ UNCHANGED <<task, events>>
  ELSE Outcome(t, "unknown")

Acknowledged(t) ==
  /\ task[t] = "starting"
  /\ jm[t] = Idle
  /\ jm' = [jm EXCEPT ![t] = ThisRun(t)]
  /\ Outcome(t, "started")
  /\ UNCHANGED <<engineVars, made, timedOut, coinjoinStart, nextAllowed, chainVars>>

\* jmwalletd starts the attempt, but its answer never arrives.
AnswerLost(t) ==
  /\ task[t] = "starting"
  /\ jm[t] = Idle
  /\ jm' = [jm EXCEPT ![t] = ThisRun(t)]
  /\ RetryStart(t)
  /\ UNCHANGED <<engineVars, made, timedOut, coinjoinStart, nextAllowed, chainVars>>

\* The request is lost on its way, or answered with an error to be retried.
RequestFails(t) ==
  /\ task[t] = "starting"
  /\ RetryStart(t)
  /\ UNCHANGED <<engineVars, made, timedOut, coinjoinStart, nextAllowed, jm, chainVars>>

\* A busy jmwalletd answers ServiceAlreadyStarted, which is not retried.
AlreadyStarted(t) ==
  /\ task[t] = "starting"
  /\ jm[t] # Idle
  /\ Outcome(t, "unknown")
  /\ UNCHANGED <<engineVars, made, timedOut, coinjoinStart, nextAllowed, jm, chainVars>>

Update(t) ==
  \/ AwaitMining(t) \/ LeaveAlone(t) \/ RecordAttempt(t) \/ AddressFails(t) \/ StopAttempt(t)
  \/ Acknowledged(t) \/ AnswerLost(t) \/ RequestFails(t) \/ AlreadyStarted(t)

--------------------------------------------------------------------------------
(***************************************************************************)
(* External: jmwalletd and the chain.  An attempt that hangs takes no step.*)
(***************************************************************************)
Broadcast(t) ==
  /\ jm[t] # Idle
  /\ mempool' = mempool \cup {Tx(t, jm[t].attempt, jm[t].request)}
  /\ jm' = [jm EXCEPT ![t] = Idle]
  /\ UNCHANGED <<engineVars, takerVars, events, minedAt, height>>

NegotiationFails(t) ==
  /\ jm[t] # Idle
  /\ jm' = [jm EXCEPT ![t] = Idle]
  /\ UNCHANGED <<engineVars, takerVars, events, chainVars>>

\* The node's container mines a block every so often.
MineBlock ==
  /\ pc # "stored"
  /\ height < MaxHeight
  /\ height' = height + 1
  /\ \E included \in SUBSET mempool :
        /\ minedAt' = [tx \in Txs |-> IF tx \in included THEN height + 1 ELSE minedAt[tx]]
        /\ mempool' = mempool \ included
  /\ UNCHANGED <<engineVars, takerVars, events, jm>>

\* The run is over.
Stored == pc = "stored" /\ UNCHANGED vars

Engine ==
  \/ RefreshBlock \/ RefreshFails \/ ConfirmRounds \/ ConfirmFails
  \/ MarkTimedOut \/ LeaveLoop \/ MineSettlement \/ StoreLabels

External == MineBlock \/ \E t \in Takers : Broadcast(t) \/ NegotiationFails(t)

Next == Engine \/ (\E t \in Takers : Update(t)) \/ External \/ Stored

Spec == Init /\ [][Next]_vars

(***************************************************************************)
(* The loop and asyncio keep running what can run; a node call that is     *)
(* repeated for ever succeeds in the end; the miner keeps mining.  Nothing *)
(* is assumed of jmwalletd, whose attempts may hang.                       *)
(***************************************************************************)
Fairness ==
  /\ SF_vars(RefreshBlock) /\ SF_vars(ConfirmRounds)
  /\ WF_vars(Engine)
  /\ \A t \in Takers : WF_vars(Update(t))
  /\ WF_vars(MineBlock)

FairSpec == Spec /\ Fairness

--------------------------------------------------------------------------------
(***************************************************************************)
(* Properties.                                                             *)
(***************************************************************************)
Event ==
  [ status : EventStatuses \cup {"none"}, execution_status : ExecutionStatuses,
    destination : Destinations \cup {NoDestination}, start_block : Nat, stop_block : Nat,
    matches : SUBSET Txs ]

\* Every variable holds a value the code can give it.
TypeOK ==
  /\ pc \in {"loop", "confirm", "gather", "settle", "store", "stored"}
  /\ currentBlock \in Nat /\ currentRound \in Nat /\ scanHeight \in Nat
  /\ events \in [Destinations -> Event] /\ labels \in [Destinations -> Event]
  /\ made \in [Takers -> 0..MaxAttempts]
  /\ task \in [Takers -> {"none", "status", "starting", "done"}]
  /\ tries \in [Takers -> 0..StartTries]
  /\ timedOut \in [Takers -> BOOLEAN]
  /\ coinjoinStart \in [Takers -> Nat]
  /\ nextAllowed \in [Takers -> Nat]
  /\ jm \in [Takers -> [attempt : 0..MaxAttempts, request : 0..StartTries]]
  /\ mempool \subseteq Txs
  /\ minedAt \in [Txs -> Nat]
  /\ height \in Nat

Mined(d) == {tx \in Txs : d \in tx.outputs /\ minedAt[tx] > 0}

\* The blocks confirm_rounds_in_blocks skips hold no destination of an attempt that
\* still waits to be confirmed: however a scan failed before, no round is lost.
PendingIsUnscanned ==
  \A d \in Pending(events) : \A tx \in Mined(d) : minedAt[tx] > scanHeight

\* A taker has one pending attempt at most, its latest: the one
\* mark_latest_started_round_failed fails and coinjoin_start times.
OnePendingAttempt ==
  \A t \in Takers : EventsOf(t) \cap Pending(events) \subseteq {Latest(t)}

\* Every record of a confirmed round names one mined transaction that pays its
\* destination, and current_round counts no round that was not confirmed.
RoundsAreMined ==
  /\ \A d \in Confirmed(events) : \E tx \in Mined(d) : events[d].matches = {tx}
  /\ currentRound <= Cardinality(Confirmed(events))

\* An attempt is recorded as failed only after its own coinjoin_timeout_blocks.
FailedAfterTimeout ==
  \A t \in Takers : \A d \in EventsOf(t) :
    events[d].status = "failed" =>
      events[d].start_block + Wallets[t].coinjoin_timeout_blocks < events[d].stop_block

\* Whatever jmwalletd runs or broadcast, its destination is on record.
RunsAreOnRecord ==
  /\ \A tx \in Txs : tx \in mempool \/ minedAt[tx] > 0 =>
       \A d \in tx.outputs : events[d].status # "none"
  /\ \A t \in Takers : jm[t] # Idle => events[<<t, jm[t].attempt>>].status # "none"

\* Rounds in parallel exceed scenario.rounds by less than one per taker.
RoundOvershoot ==
  Rounds > 0 => Cardinality(Confirmed(events)) < Rounds + Cardinality(Takers)

\* No taker is counted more live rounds than max_coinjoins.
MaxCoinjoinsRespected ==
  \A t \in Takers : Wallets[t].max_coinjoins > 0 => Completed(t) <= Wallets[t].max_coinjoins

\* A settled record keeps its status and its matches; an execution is called failed
\* only if jmwalletd had acknowledged the start.
RecordsSettleOnce ==
  [][\A d \in Destinations :
       /\ events[d].status \notin {"none", "started"} =>
            /\ events'[d].status = events[d].status
            /\ events'[d].matches = events[d].matches
       /\ events'[d].execution_status = "failed" =>
            events[d].execution_status \in {"started", "failed"}]_vars

\* After the updates of an iteration no attempt is pending beyond its timeout, as
\* the comment of update_async has it: "settled (mined or timed out) even for a paused
\* taker".  It is so unless a stop schedule pauses the taker: that pause returns first.
NoOverdueAttempt ==
  [][pc = "gather" /\ pc' = "loop" =>
       \A t \in Takers : \A d \in EventsOf(t) \cap Pending(events') :
         events[d].start_block + Wallets[t].coinjoin_timeout_blocks >= currentBlock]_vars

\* The exported labels are the chain's: a record is confirmed exactly when one mined
\* transaction pays its destination, whatever the run believed of the attempt.
LabelsMatchChain ==
  pc = "stored" =>
    \A d \in Destinations :
      /\ labels[d].matches = Mined(d) /\ (Mined(d) # {} => labels[d].status # "none")
      /\ IsConfirmed(labels[d]) <=> \E tx \in Txs : Mined(d) = {tx}

\* A run limited in blocks ends and stores its labels, even if attempts hang.
RunEnds == <>(pc = "stored")

================================================================================
