---------------------------- MODULE PostmixSpends ----------------------------
(***************************************************************************)
(* The scheduled postmix spends of one JoinMarket wallet.  The engine's    *)
(* loop first works on the spends that are due, one after the other, and   *)
(* then updates its clients, which restarts a stopped maker.  A spend      *)
(* sweeps its mixed coins mixdepth by mixdepth.  A sweep takes every coin  *)
(* of a mixdepth that is not frozen, so the coins that are not to be spent *)
(* are frozen before it and unfrozen after it, one call each.              *)
(*                                                                         *)
(* Any call may fail, and the answer to a sweep may be lost.  The calls    *)
(* are not atomic: between two of them a coin may arrive in the wallet, or *)
(* leave it in a CoinJoin that the maker has already signed.               *)
(*                                                                         *)
(* Left out: confirmations (a coin is listed once it is confirmed), the    *)
(* wallet's knowledge lagging behind the node's, fees.                     *)
(***************************************************************************)
EXTENDS Naturals, FiniteSets, FiniteSetsExt, Sequences

CONSTANTS
  Coins,        \* all coins the wallet may ever hold
  Mixdepth,     \* the mixdepth of a coin
  Amount,       \* the value of a coin
  Mixed,        \* coins created by a confirmed CoinJoin of the run
  AtStart,      \* coins the wallet starts with; the others may arrive
  Spends,       \* the schedule: [block, round, value], value 0 for "all"
  Roles,        \* the wallet's possible roles
  Blocks,       \* bounds on the clock, on failed calls, on coins that leave
  Rounds,
  MaxFaults,
  MaxLeaving

ASSUME CoinsAssumption ==
  /\ Mixed \subseteq Coins /\ AtStart \subseteq Coins
  /\ Mixdepth \in [Coins -> Nat] /\ Amount \in [Coins -> Nat \ {0}]
  /\ IsFiniteSet(Coins)
ASSUME SpendsAssumption ==
  Spends \in Seq([block : Nat, round : Nat, value : Nat])
ASSUME RunAssumption ==
  /\ Roles \subseteq {"maker", "taker"}
  /\ Blocks \in Nat /\ Rounds \in Nat /\ MaxFaults \in Nat /\ MaxLeaving \in Nat

Keys == DOMAIN Spends
Depths == {Mixdepth[c] : c \in Coins}

VARIABLES
  role,
  pc,           \* where the loop, or the spend in hand, is
  block, round, \* the run's clock
  service,      \* jmwalletd: a maker or a CoinJoin runs, is stopping, or neither
  coin,         \* where a coin is
  frozen,       \* the coins jmwalletd holds back
  status,       \* of each spend: not due, failed or sent
  todo,         \* the spends this update has not come to
  spend,        \* the spend in hand, 0 for none
  listing,      \* the coins its attempt has listed
  chosen,       \* the coins it selected among them
  depths,       \* the mixdepths still to be swept; the least is in hand
  held,         \* the coins that its sweep of a mixdepth is to hold back
  waiting,      \* those of them still to be frozen, or to be unfrozen
  raised,       \* an error is on its way up
  answers,      \* the coins of each sweep that was answered
  recorded,     \* what each spend's record says: one set of coins per sweep
  faults, leaving,      \* bounds
  sweeps,       \* what each spend has really broadcast, a history
  unsure        \* per spend, payments that ended in an error, a history

wallet == <<service, coin, frozen>>
attempt == <<todo, spend, listing, chosen, depths, held, waiting, raised, answers>>
outcome == <<status, recorded>>
bounds == <<faults, leaving>>
history == <<sweeps, unsure>>
vars == <<role, pc, block, round, wallet, attempt, outcome, bounds, history>>

Least(set) == CHOOSE x \in set : \A y \in set : x <= y

There == {c \in Coins : coin[c] = "there"}

Init ==
  /\ role \in Roles
  /\ pc = "loop" /\ block = 0 /\ round = 0
  /\ service = "idle"
  /\ coin = [c \in Coins |-> IF c \in AtStart THEN "there" ELSE "coming"]
  /\ frozen = {}
  /\ status = [s \in Keys |-> "not_due"]
  /\ recorded = [s \in Keys |-> {}]
  /\ todo = {} /\ spend = 0 /\ listing = {} /\ chosen = {} /\ depths = {} /\ held = {} /\ waiting = {}
  /\ raised = FALSE /\ answers = {}
  /\ faults = 0 /\ leaving = 0
  /\ sweeps = [s \in Keys |-> {}] /\ unsure = [s \in Keys |-> 0]

Fault == faults < MaxFaults /\ faults' = faults + 1 /\ UNCHANGED leaving

--------------------------------------------------------------------------------
(***************************************************************************)
(* The selection (_select, _select_by_amount).                             *)
(***************************************************************************)
\* Smallest coin that covers what is left, or the largest coin when none does.
BestCoin(rest, need) ==
  LET covering == {c \in rest : Amount[c] >= need}
  IN  IF covering # {}
      THEN CHOOSE c \in covering : \A other \in covering : Amount[c] <= Amount[other]
      ELSE CHOOSE c \in rest : \A other \in rest : Amount[c] >= Amount[other]

Total(set) == MapThenSumSet(LAMBDA c : Amount[c], set)

\* The coins of one mixdepth that pay a value.
SelectByAmount[rest \in SUBSET Coins] ==
  [need \in Nat |->
     IF need = 0 \/ rest = {} THEN {}
     ELSE LET c == BestCoin(rest, need)
          IN  {c} \union SelectByAmount[rest \ {c}][IF Amount[c] >= need THEN 0 ELSE need - Amount[c]]]

Candidates(coins, d) == {c \in (coins \intersect Mixed) \ frozen : Mixdepth[c] = d}

\* All mixed coins, or those of the one mixdepth that covers the value with the
\* least overshoot; the empty set when the wallet is short of mixed coins.
Selection(coins, value) ==
  LET pay(d) == SelectByAmount[Candidates(coins, d)][value]
      covering == {d \in Depths : Total(pay(d)) >= value}
      best == CHOOSE d \in covering : \A other \in covering :
                \/ Total(pay(d)) < Total(pay(other))
                \/ Total(pay(d)) = Total(pay(other)) /\ d <= other
  IN  IF value = 0 THEN (coins \intersect Mixed) \ frozen
      ELSE IF covering = {} THEN {} ELSE pay(best)

--------------------------------------------------------------------------------
(***************************************************************************)
(* The schedule (PostmixSpendSchedule.update and _send).                   *)
(***************************************************************************)
\* Wrong variant: a spend that was sent is sent again.
DueAgain(s) == Spends[s].block <= block /\ Spends[s].round <= round

Due(s) == status[s] # "sent" /\ Spends[s].block <= block /\ Spends[s].round <= round

\* A new iteration of the loop: the clock may have moved, and a spend that failed is
\* left alone until POSTMIX_RETRY_SECONDS have passed.
Iterate ==
  /\ pc = "loop"
  /\ pc' = "pick"
  /\ block' \in block..Blocks
  /\ \E pausing \in SUBSET {s \in Keys : status[s] = "failed"} : todo' = Keys \ pausing
  /\ UNCHANGED <<role, round, wallet, spend, listing, chosen, depths, held, waiting, raised, answers,
                 outcome, bounds, history>>

\* The next spend that is due, or on to the clients.
Pick ==
  /\ pc = "pick"
  /\ LET due == {s \in todo : Due(s)}
     IN  IF due = {} THEN pc' = "clients" /\ spend' = 0 /\ todo' = {}
         ELSE pc' = "check" /\ spend' = Least(due) /\ todo' = {s \in todo : s > spend'}
  /\ raised' = FALSE /\ answers' = {} /\ listing' = {} /\ chosen' = {} /\ depths' = {} /\ held' = {} /\ waiting' = {}
  /\ UNCHANGED <<role, block, round, wallet, outcome, bounds, history>>

MarkFailed ==
  /\ status' = [status EXCEPT ![spend] = "failed"]
  /\ pc' = "pick"
  /\ UNCHANGED recorded

MarkSent ==
  /\ status' = [status EXCEPT ![spend] = "sent"]
  /\ recorded' = [recorded EXCEPT ![spend] = answers]
  /\ pc' = "pick"

\* A call of the attempt fails before the first sweep.
CallFails ==
  /\ pc \in {"check", "stop", "poll", "address", "list"} /\ (pc = "stop" => role = "maker")
  /\ Fault
  /\ MarkFailed
  /\ UNCHANGED <<role, block, round, wallet, attempt, history>>

\* check_mixed_coins: a wallet short of mixed coins is not stopped.
CheckMixedCoins ==
  /\ pc = "check"
  /\ IF Selection(There, Spends[spend].value) = {} THEN MarkFailed
     ELSE pc' = "stop" /\ UNCHANGED outcome
  /\ UNCHANGED <<role, block, round, wallet, attempt, bounds, history>>

\* stop_coinjoin: a maker is told to stop.
StopMaker ==
  /\ pc = "stop"
  /\ pc' = "poll"
  /\ service' = IF role = "maker" /\ service = "running" THEN "stopping" ELSE service
  /\ UNCHANGED <<role, block, round, coin, frozen, attempt, outcome, bounds, history>>

\* Wrong variant: the maker is told to stop, and not waited for.
PollOnce ==
  /\ pc = "poll"
  /\ pc' = "address"
  /\ UNCHANGED <<role, block, round, wallet, attempt, outcome, bounds, history>>

\* Poll until jmwalletd is idle: a taker's CoinJoin is left alone, a maker waited for.
PollIdle ==
  /\ pc = "poll" /\ service = "idle"
  /\ pc' = "address"
  /\ UNCHANGED <<role, block, round, wallet, attempt, outcome, bounds, history>>

\* A taker in a CoinJoin, or a maker that has not stopped before the deadline.
PollBusy ==
  /\ pc = "poll" /\ service # "idle"
  /\ MarkFailed
  /\ UNCHANGED <<role, block, round, wallet, attempt, bounds, history>>

NewAddress ==
  /\ pc = "address"
  /\ pc' = "list"
  /\ UNCHANGED <<role, block, round, wallet, attempt, outcome, bounds, history>>

--------------------------------------------------------------------------------
(***************************************************************************)
(* send_mixed_coins, and _sweep for one mixdepth after the other.          *)
(***************************************************************************)
\* Wrong variant: only the coins that are not mixed are held back.
OthersNotMixed(coins, keep, d) ==
  {c \in coins : Mixdepth[c] = d /\ c \notin keep /\ c \notin frozen /\ c \notin Mixed}

\* The listed coins of a mixdepth to be frozen for its sweep.
Others(coins, keep, d) == {c \in coins : Mixdepth[c] = d /\ c \notin keep /\ c \notin frozen}

ListCoins ==
  /\ pc = "list"
  /\ listing' = There
  /\ chosen' = Selection(There, Spends[spend].value)
  /\ depths' = {Mixdepth[c] : c \in chosen'}
  /\ IF chosen' = {} THEN MarkFailed /\ UNCHANGED <<held, waiting>>
     ELSE /\ pc' = "freeze" /\ UNCHANGED outcome
          /\ held' = Others(There, chosen', Least(depths')) /\ waiting' = held'
  /\ UNCHANGED <<role, block, round, wallet, todo, spend, raised, answers, bounds, history>>

Depth == Least(depths)

Freeze ==
  /\ pc = "freeze" /\ waiting # {}
  /\ \E c \in waiting :
       frozen' = frozen \union {c} /\ waiting' = waiting \ {c}
  /\ UNCHANGED <<role, pc, block, round, service, coin, todo, spend, listing, chosen, depths, held, raised,
                 answers, outcome, bounds, history>>

\* The finally clause of _sweep: every coin of its list is unfrozen.
Unwind(error) == pc' = "unfreeze" /\ waiting' = held /\ raised' = error

FreezeFails ==
  /\ pc = "freeze" /\ waiting # {}
  /\ Fault
  /\ \E c \in waiting : frozen' \in {frozen, frozen \union {c}}
  /\ Unwind(TRUE)
  /\ UNCHANGED <<role, block, round, service, coin, todo, spend, listing, chosen, depths, held, answers,
                 outcome, history>>

Sweepable == {c \in There \ frozen : Mixdepth[c] = Depth}

\* jmwalletd pays out every coin of the mixdepth that is not frozen.
Broadcast ==
  /\ pc = "freeze" /\ waiting = {} /\ Sweepable # {}
  /\ coin' = [c \in Coins |-> IF c \in Sweepable THEN "swept" ELSE coin[c]]
  /\ sweeps' = [sweeps EXCEPT ![spend] = @ \union {Sweepable}]
  /\ UNCHANGED <<role, block, round, service, frozen, todo, spend, listing, chosen, depths, held, outcome>>

\* The answer lists the inputs; those in the listing are recorded.
Sweep ==
  /\ Broadcast
  /\ answers' = answers \union {Sweepable \intersect listing}
  /\ Unwind(FALSE)
  /\ UNCHANGED <<bounds, unsure>>

SweepAnswerLost ==
  /\ Broadcast
  /\ Fault
  /\ Unwind(TRUE)
  /\ unsure' = [unsure EXCEPT ![spend] = @ + 1]
  /\ UNCHANGED answers

\* Wrong variant: without the finally clause the error leaves the coins frozen.
SweepFailsAtOnce ==
  /\ pc = "freeze" /\ waiting = {}
  /\ (Sweepable = {} /\ UNCHANGED bounds) \/ Fault
  /\ MarkFailed
  /\ UNCHANGED <<role, block, round, wallet, attempt, history>>

\* No coin is left to be swept, or the call fails.
SweepFails ==
  /\ pc = "freeze" /\ waiting = {}
  /\ (Sweepable = {} /\ UNCHANGED bounds) \/ Fault
  /\ Unwind(TRUE)
  /\ UNCHANGED <<role, block, round, wallet, todo, spend, listing, chosen, depths, held, answers, outcome, history>>

Unfreeze ==
  /\ pc = "unfreeze" /\ waiting # {}
  /\ \E c \in waiting :
       frozen' = frozen \ {c} /\ waiting' = waiting \ {c}
  /\ UNCHANGED <<role, pc, block, round, service, coin, todo, spend, listing, chosen, depths, held, raised,
                 answers, outcome, bounds, history>>

\* An error while unfreezing fails the spend, paid or not, and leaves coins frozen.
UnfreezeFails ==
  /\ pc = "unfreeze" /\ waiting # {}
  /\ Fault
  /\ \E c \in waiting : frozen' \in {frozen, frozen \ {c}}
  /\ MarkFailed
  /\ unsure' = IF raised THEN unsure ELSE [unsure EXCEPT ![spend] = @ + 1]
  /\ UNCHANGED <<role, block, round, service, coin, attempt, sweeps>>

\* The mixdepth is done: an error goes up, or the next mixdepth follows.
SweptDepth ==
  /\ pc = "unfreeze" /\ waiting = {}
  /\ depths' = depths \ {Depth}
  /\ IF raised \/ depths' = {}
     THEN (IF raised THEN MarkFailed ELSE MarkSent) /\ UNCHANGED <<held, waiting>>
     ELSE /\ pc' = "freeze" /\ UNCHANGED outcome
          /\ held' = Others(listing, chosen, Least(depths')) /\ waiting' = held'
  /\ UNCHANGED <<role, block, round, wallet, todo, spend, listing, chosen, raised, answers, bounds, history>>

--------------------------------------------------------------------------------
(***************************************************************************)
(* The rest of the loop, jmwalletd and the chain.                          *)
(***************************************************************************)
\* Wrong variant: a wallet that still owes a spend is not started again.
ClientsUnlessSpending ==
  /\ pc = "clients"
  /\ pc' = "loop"
  /\ round' \in round..Rounds
  /\ service' = IF service = "idle" /\ \A s \in Keys : status[s] # "failed" THEN "running" ELSE service
  /\ UNCHANGED <<role, block, coin, frozen, attempt, outcome, bounds, history>>

\* The client's update: an idle maker is restarted, an idle taker may start a CoinJoin.
UpdateClients ==
  /\ pc = "clients"
  /\ pc' = "loop"
  /\ round' \in round..Rounds
  /\ \/ service = "idle" /\ service' = "running"
     \/ service = "idle" /\ role = "taker" /\ service' = "idle"
     \/ service # "idle" /\ service' = service
  /\ UNCHANGED <<role, block, coin, frozen, attempt, outcome, bounds, history>>

ClientsFail ==
  /\ pc = "clients"
  /\ Fault
  /\ pc' = "loop"
  /\ UNCHANGED <<role, block, round, wallet, attempt, outcome, history>>

\* A maker that was told to stop, or a taker's CoinJoin, comes to its end.
ServiceEnds ==
  /\ service = "stopping" \/ (service = "running" /\ role = "taker")
  /\ service' = "idle"
  /\ UNCHANGED <<role, pc, block, round, coin, frozen, attempt, outcome, bounds, history>>

\* A coin is paid to the wallet and confirmed.
Arrive ==
  /\ \E c \in Coins : coin[c] = "coming" /\ coin' = [coin EXCEPT ![c] = "there"]
  /\ UNCHANGED <<role, pc, block, round, service, frozen, attempt, outcome, bounds, history>>

\* A CoinJoin spends a coin; a maker has signed it, maybe before it was stopped.
Leave ==
  /\ role = "maker" \/ service = "running"
  /\ leaving < MaxLeaving /\ leaving' = leaving + 1
  /\ \E c \in There : coin' = [coin EXCEPT ![c] = "joined"]
  /\ UNCHANGED <<role, pc, block, round, service, frozen, attempt, outcome, faults, history>>

Schedule ==
  \/ Iterate \/ Pick \/ CallFails \/ CheckMixedCoins \/ StopMaker \/ PollIdle \/ PollBusy \/ NewAddress
  \/ ListCoins \/ Freeze \/ FreezeFails \/ Sweep \/ SweepAnswerLost \/ SweepFails
  \/ Unfreeze \/ UnfreezeFails \/ SweptDepth
  \/ UpdateClients \/ ClientsFail

Environment == ServiceEnds \/ Arrive \/ Leave

Next == Schedule \/ Environment

Spec == Init /\ [][Next]_vars

\* The loop goes on, and a service that is to stop stops.
FairSpec == Spec /\ WF_vars(Schedule) /\ WF_vars(ServiceEnds)

--------------------------------------------------------------------------------
(***************************************************************************)
(* Properties.                                                             *)
(***************************************************************************)

\* The types, and what is known of the spend in hand.
TypeOK ==
  /\ role \in Roles
  /\ pc \in {"loop", "pick", "check", "stop", "poll", "address", "list", "freeze", "unfreeze", "clients"}
  /\ block \in 0..Blocks /\ round \in 0..Rounds
  /\ service \in {"idle", "running", "stopping"}
  /\ coin \in [Coins -> {"coming", "there", "swept", "joined"}]
  /\ frozen \subseteq Coins
  /\ status \in [Keys -> {"not_due", "failed", "sent"}]
  /\ recorded \in [Keys -> SUBSET SUBSET Coins] /\ answers \subseteq SUBSET Coins
  /\ todo \subseteq Keys /\ spend \in Keys \union {0} /\ raised \in BOOLEAN
  /\ waiting \subseteq held /\ held \subseteq listing /\ chosen \subseteq listing /\ listing \subseteq Coins
  /\ pc \in {"freeze", "unfreeze"} => spend \in Keys /\ depths # {} /\ depths \subseteq Depths
  /\ faults \in 0..MaxFaults /\ leaving \in 0..MaxLeaving
  /\ unsure \in [Keys -> 0..MaxFaults]

\* A sweep takes no coin of the listing that was not selected, whatever happened to
\* the calls that froze the others.
OthersAreKept ==
  [][\A c \in Coins : coin[c] = "there" /\ coin'[c] = "swept" => c \in chosen \/ c \notin listing]_vars

\* A value is paid again only after a payment whose call ended in an error: the
\* answer was lost, or unfreezing failed after it.
PaidAgainOnlyIfUnsure ==
  \A s \in Keys : Spends[s].value > 0 => Cardinality(sweeps[s]) <= 1 + unsure[s]

\* Coins are frozen, swept and unfrozen only while jmwalletd runs neither a maker nor
\* a CoinJoin.
SweptWhileIdle == pc \in {"list", "freeze", "unfreeze"} => service = "idle"

\* An attempt that failed before or in its sweep leaves no coin frozen: coins stay
\* frozen only when unfreezing itself failed, or when they were before.
NothingStaysFrozen ==
  [][(pc \in {"freeze", "unfreeze"} /\ pc' = "pick" /\ waiting = {}) => held \intersect frozen' = {}]_vars

\* A maker stopped for a spend serves offers again, however often the spend fails.
MakerReturns == (role = "maker" /\ service # "running") ~> (service = "running")

================================================================================
