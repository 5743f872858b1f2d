------------------------------ MODULE RoundEvents ------------------------------
(***************************************************************************)
(* The JoinMarket round-event record and what reconciliation does to it.   *)
(*                                                                         *)
(* A taker appends one record per CoinJoin attempt.  The live round count  *)
(* and the exported labels are both computed by matching the destination   *)
(* of a record against the outputs of mined transactions, with the same    *)
(* code: reconcile_round_event_destinations of                             *)
(* src/manager/engine/joinmarket/events.py, over the record operations of  *)
(* round_event_record.py.  This module has no state; TakerRounds applies   *)
(* its operators.                                                          *)
(*                                                                         *)
(* A transaction is a record with the set of addresses its outputs pay.    *)
(* A list of records is a function from record identifiers to records.     *)
(***************************************************************************)
EXTENDS Naturals

EventStatuses ==
  {"started", "failed", "confirmed", "multiple_matches", "duplicate_destination"}

ExecutionStatuses == {"requested", "started", "unknown", "failed"}

\* The record record_round_start appends: pending, its start only requested.
StartedEvent(destination, block) ==
  [ status           |-> "started",
    execution_status |-> "requested",
    destination      |-> destination,
    start_block      |-> block,
    stop_block       |-> 0,
    matches          |-> {} ]

\* The record with new mutable fields; its destination and its start never change.
Revised(event, status, execution, stop, matches) ==
  [ status           |-> status,
    execution_status |-> execution,
    destination      |-> event.destination,
    start_block      |-> event.start_block,
    stop_block       |-> stop,
    matches          |-> matches ]

\* The status of a record some transactions were found for.
MatchedStatus(status, found) ==
  IF status = "duplicate_destination" THEN status
  ELSE IF \E tx \in found : found = {tx} THEN "confirmed" ELSE "multiple_matches"

\* add_destination_match, once for each transaction of txs.
AddMatches(event, txs) ==
  LET found == event.matches \cup txs
  IN  Revised(event,
              IF txs = {} THEN event.status ELSE MatchedStatus(event.status, found),
              event.execution_status, event.stop_block, found)

\* The events of ids that share their destination with another one of ids.
SharesDestination(events, ids, NoDestination, i) ==
  /\ events[i].destination # NoDestination
  /\ \E j \in ids \ {i} : events[j].destination = events[i].destination

MarkDuplicate(event) ==
  Revised(event, "duplicate_destination", event.execution_status, event.stop_block, event.matches)

Paying(txs, destination) == {tx \in txs : destination \in tx.outputs}

(***************************************************************************)
(* reconcile_round_event_destinations over the records ids and the         *)
(* transactions txs of some blocks; records outside ids are untouched.     *)
(***************************************************************************)
Reconcile(events, ids, NoDestination, txs) ==
  [i \in DOMAIN events |->
     IF i \notin ids THEN events[i]
     ELSE LET event == IF SharesDestination(events, ids, NoDestination, i)
                       THEN MarkDuplicate(events[i])
                       ELSE events[i]
          IN  IF event.destination = NoDestination
              THEN event
              ELSE AddMatches(event, Paying(txs, event.destination))]

\* confirmed_destination_txid: the sole transaction of an unambiguous record.
IsConfirmed(event) == event.status = "confirmed"

\* mark_latest_started_round_failed, applied to the record it picks.
MarkFailed(event, block) ==
  Revised(event, "failed",
          IF event.execution_status = "started" THEN "failed" ELSE event.execution_status,
          block, event.matches)

\* record_round_start_outcome
NoteExecution(event, execution) ==
  Revised(event, event.status, execution, event.stop_block, event.matches)

================================================================================
